------------------------- MODULE GeneratedCodeProofs ------------------------
(***************************************************************************)
(* Theorems about BlockGenerator and GeneratedCode, for every set of       *)
(* bodies, labels and loops, every range of a for and every depth of the   *)
(* gosub stack.                                                            *)
(*                                                                         *)
(* About the generator: the state keeps its types, every return lists the  *)
(* return points of all gosubs, a block has its only terminator at its end *)
(* as soon as nobody will add to it, and what the verifier says of a       *)
(* function can be told from its statements (Building).                    *)
(*                                                                         *)
(* About its code: every block begins at one point of the source and its   *)
(* instructions follow the source from there (Laid), so that a run of the  *)
(* code is a run of the source, step by step (Running).                    *)
(***************************************************************************)
EXTENDS GeneratedCode, FiniteSetTheorems, TLAPS

\* A block that is an operand stays one when blocks are added.
LEMMA Widen ==
  ASSUME NEW n \in Nat, NEW m \in Nat, n <= m,
         NEW blocks \in Seq(Seq(Instrs(n)))
  PROVE  blocks \in Seq(Seq(Instrs(m)))
<1>1. ASSUME NEW x \in Instrs(n)
      PROVE  x \in Instrs(m)
  <2>1. x.to \in Seq(1 .. m)
    BY <1>1 DEF Instrs
  <2> QED
    BY <1>1, <2>1 DEF Instrs
<1>2. ASSUME NEW s \in Seq(Instrs(n))
      PROVE  s \in Seq(Instrs(m))
  BY <1>1
<1> QED
  BY <1>2

\* Emit puts instructions behind a block and leaves the number of blocks alone.
LEMMA EmitType ==
  ASSUME NEW S, NEW blocks \in Seq(Seq(S)), NEW b \in 1 .. Len(blocks),
         NEW instrs \in Seq(S)
  PROVE  /\ Emit(blocks, b, instrs) \in Seq(Seq(S))
         /\ Len(Emit(blocks, b, instrs)) = Len(blocks)
<1> DEFINE e == Emit(blocks, b, instrs)
<1>1. blocks[b] \o instrs \in Seq(S)
  OBVIOUS
<1>2. e = [blocks EXCEPT ![b] = blocks[b] \o instrs]
  BY DEF Emit
<1> QED
  BY <1>1, <1>2

\* An empty block is added at the end.
LEMMA GrowType ==
  ASSUME NEW n \in Nat, NEW blocks \in Seq(Seq(Instrs(n))), Len(blocks) = n
  PROVE  /\ Append(blocks, <<>>) \in Seq(Seq(Instrs(n + 1)))
         /\ Len(Append(blocks, <<>>)) = n + 1
<1>1. blocks \in Seq(Seq(Instrs(n + 1)))
  BY Widen
<1>2. <<>> \in Seq(Instrs(n + 1))
  OBVIOUS
<1> QED
  BY <1>1, <1>2

LEMMA AppendEmpty ==
  ASSUME NEW S, NEW s \in Seq(Seq(S))
  PROVE  Append(s, <<>>) \in Seq(Seq(S)) /\ Len(Append(s, <<>>)) = Len(s) + 1
<1>1. <<>> \in Seq(S)
  OBVIOUS
<1> QED
  BY <1>1

\* Instructions are put behind a block, and an empty block is added.
LEMMA EmitAppendType ==
  ASSUME NEW S, NEW blocks \in Seq(Seq(S)), NEW b \in 1 .. Len(blocks),
         NEW instrs \in Seq(S)
  PROVE  /\ Append(Emit(blocks, b, instrs), <<>>) \in Seq(Seq(S))
         /\ Len(Append(Emit(blocks, b, instrs), <<>>)) = Len(blocks) + 1
<1>1. Emit(blocks, b, instrs) \in Seq(Seq(S)) /\ Len(Emit(blocks, b, instrs)) = Len(blocks)
  BY EmitType
<1> QED
  BY <1>1, AppendEmpty

\* The same, where the instructions may name the new block.
LEMMA EmitGrowType ==
  ASSUME NEW n \in Nat, NEW blocks \in Seq(Seq(Instrs(n))), Len(blocks) = n,
         NEW b \in 1 .. n, NEW instrs \in Seq(Instrs(n + 1))
  PROVE  /\ Append(Emit(blocks, b, instrs), <<>>) \in Seq(Seq(Instrs(n + 1)))
         /\ Len(Append(Emit(blocks, b, instrs), <<>>)) = n + 1
<1> DEFINE S == Instrs(n + 1)
<1>1. blocks \in Seq(Seq(S)) /\ instrs \in Seq(S)
  BY Widen
<1>2. b \in 1 .. Len(blocks)
  OBVIOUS
<1> HIDE DEF S
<1>3. /\ Append(Emit(blocks, b, instrs), <<>>) \in Seq(Seq(S))
      /\ Len(Append(Emit(blocks, b, instrs), <<>>)) = Len(blocks) + 1
  BY ONLY <1>1, <1>2, EmitAppendType
<1> QED
  BY <1>3 DEF S

\* Several blocks are added.
LEMMA ConcatType ==
  ASSUME NEW S, NEW s \in Seq(S), NEW t \in Seq(S)
  PROVE  s \o t \in Seq(S) /\ Len(s \o t) = Len(s) + Len(t)
OBVIOUS

LEMMA GrowByType ==
  ASSUME NEW n \in Nat, NEW k \in Nat, NEW blocks \in Seq(Seq(Instrs(n))), Len(blocks) = n,
         NEW more \in Seq(Seq(Instrs(n + k))), Len(more) = k
  PROVE  /\ blocks \o more \in Seq(Seq(Instrs(n + k)))
         /\ Len(blocks \o more) = n + k
<1>1. blocks \in Seq(Seq(Instrs(n + k)))
  BY Widen
<1> QED
  BY <1>1, ConcatType

\* What the actions emit is made of instructions over the blocks there are.
LEMMA InstrType ==
  ASSUME NEW n \in Nat, NEW to \in Seq(1 .. n), NEW at \in Points,
         NEW op \in InstrOps
  PROVE  /\ Instr(op, to, at) \in Instrs(n)
         /\ \A l \in Loops : ForInstr(op, to, at, l) \in Instrs(n)
BY DEF Instr, ForInstr, Instrs

LEMMA PlainType ==
  ASSUME NEW n \in Nat, NEW at \in Points, NEW op \in InstrOps
  PROVE  <<Instr(op, <<>>, at)>> \in Seq(Instrs(n))
<1>1. <<>> \in Seq(1 .. n)
  OBVIOUS
<1>2. Instr(op, <<>>, at) \in Instrs(n)
  BY <1>1, InstrType
<1> QED
  BY <1>2

LEMMA ForInstrType ==
  ASSUME NEW n \in Nat, NEW at \in Points, NEW op \in InstrOps, NEW l \in Loops,
         NEW yes \in 1 .. n, NEW no \in 1 .. n
  PROVE  <<ForInstr(op, <<yes, no>>, at, l)>> \in Seq(Instrs(n))
<1>1. <<yes, no>> \in Seq(1 .. n)
  OBVIOUS
<1>2. ForInstr(op, <<yes, no>>, at, l) \in Instrs(n)
  BY <1>1, InstrType
<1> QED
  BY <1>2

LEMMA PlainForType ==
  ASSUME NEW n \in Nat, NEW at \in Points, NEW op \in InstrOps, NEW l \in Loops,
         NEW s \in Seq(Instrs(n))
  PROVE  <<ForInstr(op, <<>>, at, l)>> \o s \in Seq(Instrs(n))
<1>1. <<>> \in Seq(1 .. n)
  OBVIOUS
<1>2. ForInstr(op, <<>>, at, l) \in Instrs(n)
  BY <1>1, InstrType
<1> QED
  BY <1>2

LEMMA BrType ==
  ASSUME NEW n \in Nat, NEW b \in 1 .. n, NEW at \in Points
  PROVE  Br(b, at) \in Seq(Instrs(n))
<1>1. <<b>> \in Seq(1 .. n) /\ "br" \in InstrOps
  BY DEF InstrOps, Terminators
<1>2. Instr("br", <<b>>, at) \in Instrs(n)
  BY <1>1, InstrType
<1> QED
  BY <1>2 DEF Br

\* The statement an action is at, and its operand.
LEMMA AtType ==
  ASSUME TypeOK, NEW op, AtOp(op)
  PROVE  /\ pos \in DOMAIN body /\ pos + 1 \in 1 .. Len(body) + 1
         /\ Here \in Points /\ Test(pos) \in Points
         /\ op = "label" => Arg \in Labels
         /\ op \in HasLabel /\ Arg # NULL => Arg \in Labels
         /\ op \in HasLoop => Arg \in Loops
<1>1. body \in Seq(Items) /\ pos \in 1 .. Len(body)
  BY BodiesAreItems DEF TypeOK, AtOp
<1>2. pos \in DOMAIN body /\ pos + 1 \in 1 .. Len(body) + 1
  BY <1>1
<1>3. Here \in Points /\ Test(pos) \in Points
  BY <1>1 DEF Here, Stmt, Test, Points
<1>4. /\ op \in HasLabel => Arg \in Labels \cup {NULL}
      /\ op = "label" => Arg # NULL
      /\ op \in HasLoop => Arg \in Loops
  BY <1>2, BodiesAreItems DEF TypeOK, AtOp, Arg
<1> QED
  BY <1>2, <1>3, <1>4 DEF HasLabel

\* The block of a label is one of the blocks once it has been created.
LEMMA LabelBlockType ==
  ASSUME TypeOK, NEW l \in Labels
  PROVE  /\ WithLabelBlock(l) \in Seq(Seq(Instrs(Len(WithLabelBlock(l)))))
         /\ Len(WithLabelBlock(l)) \in Nat
         /\ Len(code) <= Len(WithLabelBlock(l))
         /\ LabelBlock(l) \in 1 .. Len(WithLabelBlock(l))
<1>1. Len(code) \in Nat /\ code \in Seq(Seq(Instrs(Len(code))))
  BY DEF TypeOK
<1>2. CASE labelBlocks[l] = 0
  BY <1>1, <1>2, GrowType DEF WithLabelBlock, LabelBlock
<1>3. CASE labelBlocks[l] # 0
  BY <1>1, <1>3 DEF WithLabelBlock, LabelBlock, TypeOK, Blocks
<1> QED
  BY <1>2, <1>3

\* Blocks are only added: the tables keep their types, the frames stay good.
LEMMA Kept ==
  ASSUME TypeOK, body' = body, inserted \subseteq inserted',
         Len(code') \in Nat, Len(code) <= Len(code')
  PROVE  /\ Blocks \subseteq Blocks'
         /\ labelBlocks \in [Labels -> Blocks' \cup {0}]
         /\ loopExit \in [Loops -> inserted' \cup {0}]
         /\ returnPoints \subseteq inserted'
         /\ DOMAIN dests \subseteq inserted'
         /\ dests \in [DOMAIN dests -> SUBSET inserted']
         /\ \A f : FrameOK(f) => FrameOK(f)'
         /\ frames' = frames => FramesOK'
<1>1. Len(code) \in Nat
  BY DEF TypeOK
<1>2. Blocks \subseteq Blocks'
  BY <1>1 DEF Blocks
<1>3. \A f : FrameOK(f) => FrameOK(f)'
  BY DEF FrameOK
<1>4. frames' = frames => FramesOK'
  BY <1>3 DEF TypeOK, FramesOK
<1> QED
  BY <1>2, <1>3, <1>4 DEF TypeOK

\* A nested block begins: a frame is put on the suspended ones.
LEMMA PushType ==
  ASSUME TypeOK, \A f : FrameOK(f) => FrameOK(f)',
         NEW g \in Frames, FrameOK(g)', frames' = Append(frames, g)
  PROVE  FramesOK'
<1>1. frames \in Seq(Frames) /\ frames' \in Seq(Frames)
  BY DEF TypeOK, FramesOK
<1>2. ASSUME NEW k \in DOMAIN frames' 
      PROVE  frames'[k] = g \/ (k \in DOMAIN frames /\ frames'[k] = frames[k])
  BY <1>1
<1>3. \A k \in DOMAIN frames : FrameOK(frames[k])
  BY DEF TypeOK, FramesOK
<1> QED
  BY <1>1, <1>2, <1>3 DEF FramesOK, FrameOK

\* It ends: the frame on top is one that was put there, those below stay.
LEMMA TopType ==
  ASSUME TypeOK, frames # <<>>
  PROVE  Top \in Frames /\ FrameOK(Top) /\ Len(frames) \in DOMAIN frames
<1>1. frames \in Seq(Frames) /\ Len(frames) \in DOMAIN frames
  BY DEF TypeOK, FramesOK
<1> QED
  BY <1>1 DEF TypeOK, FramesOK, Top

LEMMA ReplaceType ==
  ASSUME TypeOK, frames # <<>>, \A f : FrameOK(f) => FrameOK(f)',
         NEW g \in Frames, FrameOK(g)', frames' = [frames EXCEPT ![Len(frames)] = g]
  PROVE  FramesOK'
<1>1. frames \in Seq(Frames) /\ frames' \in Seq(Frames)
  BY DEF TypeOK, FramesOK
<1>2. ASSUME NEW k \in DOMAIN frames'
      PROVE  frames'[k] = g \/ (k \in DOMAIN frames /\ frames'[k] = frames[k])
  BY <1>1
<1>3. \A k \in DOMAIN frames : FrameOK(frames[k])
  BY DEF TypeOK, FramesOK
<1> QED
  BY <1>1, <1>2, <1>3 DEF FramesOK, FrameOK

LEMMA PopType ==
  ASSUME TypeOK, frames # <<>>, \A f : FrameOK(f) => FrameOK(f)', Pop
  PROVE  FramesOK'
<1>1. frames \in Seq(Frames) /\ Len(frames) \in Nat \ {0}
  BY DEF TypeOK, FramesOK
<1>2. frames' \in Seq(Frames) /\ \A k \in DOMAIN frames' : k \in DOMAIN frames /\ frames'[k] = frames[k]
  BY <1>1 DEF Pop
<1>3. \A k \in DOMAIN frames : FrameOK(frames[k])
  BY DEF TypeOK, FramesOK
<1> QED
  BY <1>2, <1>3 DEF FramesOK, FrameOK

\* Every step keeps the types of the state.
LEMMA StepTypes == TypeOK /\ [GenNextStep]_genVars => TypeOK'
<1> SUFFICES ASSUME TypeOK, [GenNextStep]_genVars
             PROVE  TypeOK'
  OBVIOUS
<1> DEFINE n == Len(code)
<1>0. /\ n \in Nat /\ code \in Seq(Seq(Instrs(n)))
      /\ cur \in 1 .. n /\ inserted \subseteq 1 .. n
      /\ n + 1 \in Nat /\ n <= n + 1 /\ 1 .. n \subseteq 1 .. n + 1 /\ n + 1 \in 1 .. n + 1
  <2>1. /\ n \in Nat /\ code \in Seq(Seq(Instrs(n)))
        /\ cur \in 1 .. n /\ inserted \subseteq 1 .. n
    BY DEF TypeOK, Blocks
  <2> QED
    BY <2>1
<1>1. \A m \in Nat : n <= m =>
        /\ 1 .. n \subseteq 1 .. m /\ 1 .. m \subseteq 1 .. m + 1
        /\ m + 1 \in 1 .. m + 1 /\ m + 1 \in Nat /\ n <= m + 1
  BY <1>0
<1>2. UNCHANGED genVars => TypeOK'
  BY DEF genVars, symtab, TypeOK, Blocks, FramesOK, FrameOK
<1>3. ASSUME NEW op, AtOp(op), Advance
      PROVE  body' = body /\ pos' \in 1 .. Len(body) + 1 /\ status' = status
  BY <1>3, AtType DEF Advance
<1>4. CASE GenExec
  <2>1. Here \in Points /\ "exec" \in InstrOps
    BY <1>4, AtType DEF GenExec, InstrOps
  <2>2. code' \in Seq(Seq(Instrs(n))) /\ Len(code') = n
    BY ZenonT(60), <1>0, <1>4, <2>1, PlainType, EmitType DEF GenExec
  <2> QED
    BY <1>0, <1>3, <1>4, <2>2, Kept DEF GenExec, TypeOK, symtab
<1>5. CASE GenLabel
  <2> DEFINE b == LabelBlock(Arg)
             blocks == WithLabelBlock(Arg)
             m == Len(blocks)
  <2>1. Arg \in Labels /\ Here \in Points
    BY <1>5, AtType DEF GenLabel, InsertInto, LabelTable
  <2>2. blocks \in Seq(Seq(Instrs(m))) /\ m \in Nat /\ n <= m /\ b \in 1 .. m
    BY <2>1, LabelBlockType
  <2>3. cur \in 1 .. m /\ Br(b, Here) \in Seq(Instrs(m))
    BY <1>0, <1>1, <2>1, <2>2, BrType
  <2>4. code' \in Seq(Seq(Instrs(m))) /\ Len(code') = m
    BY <1>5, <2>2, <2>3, EmitType DEF GenLabel, InsertInto, LabelTable
  <2>5. Blocks' = 1 .. m /\ inserted' = inserted \cup {b}
    BY <1>5, <2>4 DEF GenLabel, InsertInto, LabelTable, Blocks
  <2>6. inserted' \subseteq Blocks' /\ cur' \in inserted'
    BY <1>0, <1>1, <1>5, <2>2, <2>5 DEF GenLabel, InsertInto, LabelTable
  <2> QED
    BY <1>0, <1>3, <1>5, <2>1, <2>2, <2>4, <2>5, <2>6, Kept DEF GenLabel, InsertInto, LabelTable, TypeOK
<1>6. CASE GenGoto
  <2> DEFINE b == LabelBlock(Arg)
             blocks == WithLabelBlock(Arg)
             m == Len(blocks)
  <2>1. Arg \in Labels /\ Here \in Points
    BY <1>6, AtType DEF GenGoto, LabelTable, HasLabel
  <2>2. blocks \in Seq(Seq(Instrs(m))) /\ m \in Nat /\ n <= m /\ b \in 1 .. m
    BY <2>1, LabelBlockType
  <2>3. cur \in 1 .. m /\ Br(b, Here) \in Seq(Instrs(m + 1))
    <3>1. cur \in 1 .. m /\ b \in 1 .. m + 1 /\ m + 1 \in Nat
      BY <1>0, <1>1, <2>2
    <3> QED
      BY <2>1, <3>1, BrType
  <2>4. code' \in Seq(Seq(Instrs(m + 1))) /\ Len(code') = m + 1
    BY <1>6, <2>2, <2>3, EmitGrowType DEF GenGoto, LabelTable
  <2>5. /\ Blocks' = 1 .. m + 1 /\ inserted' = inserted \cup {m + 1}
        /\ b \in Blocks' /\ n <= m + 1 /\ m + 1 \in Nat
    BY <1>1, <1>6, <2>2, <2>4 DEF GenGoto, LabelTable, Blocks
  <2>6. inserted' \subseteq Blocks' /\ cur' \in inserted'
    BY <1>0, <1>1, <1>6, <2>2, <2>5 DEF GenGoto, LabelTable
  <2> QED
    BY <1>0, <1>3, <1>6, <2>1, <2>4, <2>5, <2>6, Kept DEF GenGoto, LabelTable, TypeOK
<1>7. CASE GenGosub
  <2> DEFINE b == LabelBlock(Arg)
             blocks == WithLabelBlock(Arg)
             m == Len(blocks)
             push == Instr("push", <<m + 1>>, Here)
  <2>1. Arg \in Labels /\ Here \in Points
    BY <1>7, AtType DEF GenGosub, LabelTable, AddReturnPoint, HasLabel
  <2>2. blocks \in Seq(Seq(Instrs(m))) /\ m \in Nat /\ n <= m /\ b \in 1 .. m
    BY <2>1, LabelBlockType
  <2>3. cur \in 1 .. m /\ Br(b, Here) \in Seq(Instrs(m + 1))
    <3>1. cur \in 1 .. m /\ b \in 1 .. m + 1 /\ m + 1 \in Nat
      BY <1>0, <1>1, <2>2
    <3> QED
      BY <2>1, <3>1, BrType
  <2>4. push \in Instrs(m + 1)
    <3>1. <<m + 1>> \in Seq(1 .. m + 1) /\ "push" \in InstrOps /\ m + 1 \in Nat
      BY <2>2 DEF InstrOps
    <3> QED
      BY <2>1, <3>1, InstrType
  <2>5. <<push>> \o Br(b, Here) \in Seq(Instrs(m + 1))
    BY <2>3, <2>4
  <2>6. code' \in Seq(Seq(Instrs(m + 1))) /\ Len(code') = m + 1
    BY <1>7, <2>2, <2>3, <2>5, EmitGrowType DEF GenGosub, LabelTable, AddReturnPoint
  <2>7. /\ Blocks' = 1 .. m + 1 /\ inserted' = inserted \cup {m + 1}
        /\ b \in Blocks' /\ n <= m + 1 /\ m + 1 \in Nat
    BY <1>1, <1>7, <2>2, <2>6 DEF GenGosub, LabelTable, AddReturnPoint, Blocks
  <2>8. inserted' \subseteq Blocks' /\ cur' \in inserted'
    BY <1>0, <1>1, <1>7, <2>2, <2>7 DEF GenGosub, LabelTable, AddReturnPoint
  <2>9. /\ returnPoints' \subseteq inserted' /\ DOMAIN dests' \subseteq inserted'
        /\ dests' \in [DOMAIN dests' -> SUBSET inserted']
    BY <1>7, <2>7 DEF GenGosub, LabelTable, AddReturnPoint, TypeOK
  <2> QED
    BY <1>0, <1>3, <1>7, <2>1, <2>6, <2>7, <2>8, <2>9, Kept DEF GenGosub, LabelTable, AddReturnPoint, TypeOK
<1>8. CASE GenReturn
  <2>1. Here \in Points /\ "indirectbr" \in InstrOps
    BY <1>8, AtType DEF GenReturn, AddIndirectBr, InstrOps, Terminators
  <2>2. code' \in Seq(Seq(Instrs(n + 1))) /\ Len(code') = n + 1 /\ n + 1 \in Nat /\ n <= n + 1
    <3>1. n + 1 \in Nat /\ n <= n + 1
      BY <1>0
    <3>2. <<Instr("indirectbr", <<>>, Here)>> \in Seq(Instrs(n + 1))
      BY <2>1, <3>1, PlainType
    <3>3. code' \in Seq(Seq(Instrs(n + 1))) /\ Len(code') = n + 1
      BY <1>0, <1>8, <3>2, EmitGrowType DEF GenReturn, AddIndirectBr
    <3> QED
      BY <3>1, <3>3
  <2>3. Blocks' = 1 .. n + 1 /\ inserted' = inserted \cup {n + 1}
    BY <1>8, <2>2 DEF GenReturn, AddIndirectBr, Blocks
  <2>4. inserted' \subseteq Blocks' /\ cur' \in inserted'
    <3>1. 1 .. n \subseteq 1 .. n + 1 /\ n + 1 \in 1 .. n + 1
      BY <1>0, <1>1
    <3> QED
      BY <1>0, <1>8, <2>3, <3>1 DEF GenReturn, AddIndirectBr
  <2>5. /\ DOMAIN dests' \subseteq inserted'
        /\ dests' \in [DOMAIN dests' -> SUBSET inserted']
    BY <1>8, <2>3 DEF GenReturn, AddIndirectBr, TypeOK
  <2> QED
    BY <1>0, <1>1, <1>3, <1>8, <2>2, <2>3, <2>4, <2>5, Kept DEF GenReturn, AddIndirectBr, TypeOK
<1>9. CASE GenCrash
  BY <1>9 DEF GenCrash, TypeOK, symtab, Blocks, FramesOK, FrameOK
<1>10. CASE GenIf
  <2>1. pos \in DOMAIN body /\ body \in Seq(Items) /\ n + 1 \in Nat /\ n <= n + 1
    BY <1>0, <1>10, AtType, BodiesAreItems DEF GenIf, TypeOK
  <2>2. code' \in Seq(Seq(Instrs(n + 1))) /\ Len(code') = n + 1
    BY <1>0, <1>10, GrowType DEF GenIf
  <2>3. Blocks' = 1 .. n + 1 /\ inserted' = inserted \cup {n + 1} /\ body' = body
    BY <1>10, <2>2 DEF GenIf, Blocks, Advance
  <2>4. inserted' \subseteq Blocks' /\ cur' \in inserted'
    BY <1>0, <1>1, <1>10, <2>3 DEF GenIf
  <2>5. PICK g : g = Frame("if", n + 1, 0)
    OBVIOUS
  <2>6. FramesOK'
    <3>1. g \in Frames /\ frames' = Append(frames, g)
      BY <1>0, <1>10, <2>1, <2>5 DEF GenIf, Push, Frame, Frames
    <3>2. FrameOK(g)'
      BY <1>0, <1>10, <2>1, <2>3, <2>5 DEF GenIf, AtOp, Frame, FrameOK, TypeOK
    <3> QED
      BY <2>1, <2>2, <2>3, <3>1, <3>2, Kept, PushType
  <2> QED
    BY <1>3, <1>10, <2>1, <2>2, <2>3, <2>4, <2>6, Kept DEF GenIf, TypeOK, symtab
<1>11. CASE GenLoop
  <2>1. /\ pos \in DOMAIN body /\ body \in Seq(Items) /\ Arg \in Loops
        /\ n + 1 \in Nat /\ n + 2 \in Nat /\ n <= n + 2
    BY <1>0, <1>11, AtType, BodiesAreItems DEF GenLoop, TypeOK, HasLoop
  <2>2. << <<>>, <<>> >> \in Seq(Seq(Instrs(n + 2))) /\ Len(<< <<>>, <<>> >>) = 2
    OBVIOUS
  <2>3. code' \in Seq(Seq(Instrs(n + 2))) /\ Len(code') = n + 2
    BY <1>0, <1>11, <2>2, GrowByType DEF GenLoop
  <2>4. Blocks' = 1 .. n + 2 /\ inserted' = inserted \cup {n + 1, n + 2} /\ body' = body
    BY <1>11, <2>3 DEF GenLoop, Blocks, Advance
  <2>5. 1 .. n \subseteq 1 .. n + 2 /\ n + 1 \in 1 .. n + 2 /\ n + 2 \in 1 .. n + 2
    BY <1>0
  <2>6. inserted' \subseteq Blocks' /\ cur' \in inserted'
    BY <1>0, <1>11, <2>4, <2>5 DEF GenLoop
  <2>7. PICK g : g = Frame("loop", n + 1, n + 2)
    OBVIOUS
  <2>8. FramesOK'
    <3>1. g \in Frames /\ frames' = Append(frames, g)
      BY <1>0, <1>11, <2>1, <2>7 DEF GenLoop, Push, Frame, Frames
    <3>2. FrameOK(g)'
      BY <1>0, <1>11, <2>1, <2>4, <2>7 DEF GenLoop, AtOp, Frame, FrameOK, TypeOK
    <3> QED
      BY <2>1, <2>3, <2>4, <3>1, <3>2, Kept, PushType
  <2>9. loopExit' \in [Loops -> inserted' \cup {0}]
    BY <1>11, <2>1, <2>4 DEF GenLoop, TypeOK
  <2> QED
    BY <1>3, <1>11, <2>1, <2>3, <2>4, <2>6, <2>8, <2>9, Kept DEF GenLoop, TypeOK
<1>12. CASE GenEnd
  <2>1. Here \in Points /\ n + 1 \in Nat /\ n <= n + 1 /\ "ret" \in InstrOps
    BY <1>0, <1>12, AtType DEF GenEnd, InstrOps, Terminators
  <2>2. <<Instr("ret", <<>>, Here)>> \in Seq(Instrs(n + 1))
    BY <2>1, PlainType
  <2>3. code' \in Seq(Seq(Instrs(n + 1))) /\ Len(code') = n + 1
    BY <1>0, <1>12, <2>2, EmitGrowType DEF GenEnd
  <2>4. Blocks' = 1 .. n + 1 /\ inserted' = inserted \cup {n + 1}
    BY <1>12, <2>3 DEF GenEnd, Blocks
  <2>5. inserted' \subseteq Blocks' /\ cur' \in inserted'
    BY <1>0, <1>1, <1>12, <2>4 DEF GenEnd
  <2> QED
    BY <1>3, <1>12, <2>1, <2>3, <2>4, <2>5, Kept DEF GenEnd, TypeOK, symtab
<1>13. CASE GenExit
  <2>1. /\ Here \in Points /\ Arg \in Loops /\ n + 1 \in Nat /\ n <= n + 1
        /\ loopExit[Arg] \in 1 .. n /\ loopExit[Arg] \in 1 .. n + 1
    BY <1>0, <1>13, AtType DEF GenExit, HasLoop, TypeOK
  <2>2. Br(loopExit[Arg], Here) \in Seq(Instrs(n + 1))
    BY <2>1, BrType
  <2>3. code' \in Seq(Seq(Instrs(n + 1))) /\ Len(code') = n + 1
    BY <1>0, <1>13, <2>2, EmitGrowType DEF GenExit
  <2>4. Blocks' = 1 .. n + 1 /\ inserted' = inserted \cup {n + 1}
    BY <1>13, <2>3 DEF GenExit, Blocks
  <2>5. inserted' \subseteq Blocks' /\ cur' \in inserted'
    BY <1>0, <1>1, <1>13, <2>4 DEF GenExit
  <2> QED
    BY <1>3, <1>13, <2>1, <2>3, <2>4, <2>5, Kept DEF GenExit, TypeOK, symtab
<1>14. CASE GenExitFunction
  <2>1. Here \in Points /\ "retvalue" \in InstrOps
    BY <1>14, AtType DEF GenExitFunction, InstrOps, Terminators
  <2>2. code' \in Seq(Seq(Instrs(n))) /\ Len(code') = n
    BY ZenonT(60), <1>0, <1>14, <2>1, PlainType, EmitType DEF GenExitFunction
  <2> QED
    BY <1>0, <1>3, <1>14, <2>2, Kept DEF GenExitFunction, TypeOK, symtab
<1>15. CASE GenFinish
  <2>1. Here \in Points /\ "ret" \in InstrOps
    BY <1>15, BodiesAreItems DEF GenFinish, TypeOK, Here, Stmt, Points, InstrOps, Terminators
  <2>2. <<Instr("ret", <<>>, Here)>> \in Seq(Instrs(n))
    BY <1>0, <2>1, PlainType
  <2>3. /\ Emit(code, cur, <<Instr("ret", <<>>, Here)>>) \in Seq(Seq(Instrs(n)))
        /\ Len(Emit(code, cur, <<Instr("ret", <<>>, Here)>>)) = n
    BY <1>0, <2>2, EmitType
  <2>4. code' \in Seq(Seq(Instrs(n))) /\ Len(code') = n
    BY <1>0, <1>15, <2>3 DEF GenFinish
  <2> QED
    BY <1>0, <1>15, <2>4, Kept DEF GenFinish, TypeOK, symtab
<1>16. CASE Verify
  BY <1>16 DEF Verify, TypeOK, symtab, Blocks, FramesOK, FrameOK
<1>17. CASE GenElse
  <2>1. /\ frames # <<>> /\ Top \in Frames /\ FrameOK(Top) /\ Top.kind = "if"
        /\ pos \in Nat /\ body' = body
    <3>1. frames # <<>>
      BY <1>17 DEF GenElse, Closes
    <3> QED
      BY <1>17, <3>1, TopType, BodiesAreItems DEF GenElse, Closes, Advance, TypeOK
  <2>2. code' \in Seq(Seq(Instrs(n + 1))) /\ Len(code') = n + 1
    BY <1>0, <1>17, GrowType DEF GenElse
  <2>3. Blocks' = 1 .. n + 1 /\ inserted' = inserted \cup {n + 1}
    BY <1>17, <2>2 DEF GenElse, Blocks
  <2>4. inserted' \subseteq Blocks' /\ cur' \in inserted'
    BY <1>0, <1>17, <2>3 DEF GenElse
  <2>5. PICK g : g = [kind |-> "else", at |-> Top.at, outer |-> Top.outer, first |-> Top.first,
                      second |-> n + 1, done |-> cur, mid |-> pos]
    OBVIOUS
  <2>6. FramesOK'
    <3>1. g \in Frames /\ frames' = [frames EXCEPT ![Len(frames)] = g]
      BY <1>0, <1>17, <2>1, <2>5 DEF GenElse, Frames
    <3>2. FrameOK(g)'
      BY <1>0, <2>1, <2>3, <2>5 DEF FrameOK, TypeOK
    <3> QED
      BY <1>0, <2>1, <2>2, <2>3, <3>1, <3>2, Kept, ReplaceType
  <2> QED
    BY <1>0, <1>3, <1>17, <2>1, <2>2, <2>3, <2>4, <2>6, Kept DEF GenElse, TypeOK, symtab
<1>18. CASE GenEndif
  <2> DEFINE t == Top
             S == Instrs(n + 1)
             branch == <<Instr("choice", <<t.first, t.second>>, Stmt(t.at))>>
             c1 == Emit(Append(code, <<>>), t.outer, branch)
             c2 == Emit(c1, t.done, Br(n + 1, Stmt(t.mid)))
  <2>1. frames # <<>> /\ t \in Frames /\ FrameOK(t) /\ t.kind = "else"
    BY <1>18, TopType DEF GenEndif, Closes
  <2>2. /\ t.outer \in 1 .. n + 1 /\ t.first \in 1 .. n + 1 /\ t.second \in 1 .. n + 1
        /\ t.done \in 1 .. n + 1 /\ cur \in 1 .. n + 1
    BY <1>0, <2>1 DEF FrameOK
  <2>3. Here \in Points /\ Stmt(t.at) \in Points /\ Stmt(t.mid) \in Points
    BY <1>18, <2>1, AtType DEF GenEndif, Frames, Stmt, Points
  <2>4. branch \in Seq(S) /\ Br(n + 1, Stmt(t.mid)) \in Seq(S) /\ Br(n + 1, Here) \in Seq(S)
    <3>1. <<t.first, t.second>> \in Seq(1 .. n + 1) /\ "choice" \in InstrOps
      BY <2>2 DEF InstrOps, Terminators
    <3>2. Instr("choice", <<t.first, t.second>>, Stmt(t.at)) \in S
      BY <1>0, <2>3, <3>1, InstrType
    <3>3. Br(n + 1, Stmt(t.mid)) \in Seq(S) /\ Br(n + 1, Here) \in Seq(S)
      BY <1>0, <2>3, BrType
    <3> QED
      BY <3>2, <3>3
  <2>5. Append(code, <<>>) \in Seq(Seq(S)) /\ Len(Append(code, <<>>)) = n + 1
    BY <1>0, GrowType
  <2>6. code' = Emit(c2, cur, Br(n + 1, Here))
    BY <1>18 DEF GenEndif
  <2> HIDE DEF t, S, branch
  <2>7. c1 \in Seq(Seq(S)) /\ Len(c1) = n + 1
    <3>1. t.outer \in 1 .. Len(Append(code, <<>>))
      BY <2>2, <2>5
    <3> QED
      BY ONLY <2>4, <2>5, <3>1, EmitType DEF c1
  <2> HIDE DEF c1
  <2>8. c2 \in Seq(Seq(S)) /\ Len(c2) = n + 1
    <3>1. t.done \in 1 .. Len(c1)
      BY <2>2, <2>7
    <3> QED
      BY ONLY <2>4, <2>7, <3>1, EmitType DEF c2
  <2> HIDE DEF c2
  <2>9. code' \in Seq(Seq(S)) /\ Len(code') = n + 1
    BY <2>2, <2>4, <2>6, <2>8, EmitType
  <2>10. Blocks' = 1 .. n + 1 /\ inserted' = inserted \cup {n + 1} /\ body' = body
    BY <1>18, <2>9 DEF GenEndif, Blocks, Advance
  <2>11. inserted' \subseteq Blocks' /\ cur' \in inserted'
    BY <1>0, <1>18, <2>10 DEF GenEndif
  <2>12. FramesOK'
    BY <1>0, <1>18, <2>1, <2>9, <2>10, Kept, PopType DEF GenEndif
  <2> QED
    BY <1>0, <1>3, <1>18, <2>9, <2>10, <2>11, <2>12, Kept DEF GenEndif, TypeOK, symtab, S
<1>19. CASE GenEndloop
  <2> DEFINE t == Top
             S == Instrs(n)
             c1 == Emit(code, t.outer, Br(t.first, Stmt(t.at)))
  <2>1. frames # <<>> /\ t \in Frames /\ FrameOK(t) /\ t.kind = "loop"
    BY <1>19, TopType DEF GenEndloop, Closes
  <2>2. t.outer \in 1 .. n /\ t.first \in 1 .. n /\ t.second \in inserted /\ cur \in 1 .. n
    BY <1>0, <2>1 DEF FrameOK
  <2>3. Here \in Points /\ Stmt(t.at) \in Points
    BY <1>19, <2>1, AtType DEF GenEndloop, Frames, Stmt, Points
  <2>4. Br(t.first, Stmt(t.at)) \in Seq(S) /\ Br(t.first, Here) \in Seq(S)
    BY <1>0, <2>2, <2>3, BrType
  <2>5. code' = Emit(c1, cur, Br(t.first, Here)) /\ body' = body
    BY <1>19 DEF GenEndloop, Advance
  <2> HIDE DEF S
  <2>6. c1 \in Seq(Seq(S)) /\ Len(c1) = n
    BY <1>0, <2>2, <2>4, EmitType DEF S
  <2> HIDE DEF c1
  <2>7. code' \in Seq(Seq(S)) /\ Len(code') = n
    BY <2>2, <2>4, <2>5, <2>6, EmitType
  <2>8. FramesOK'
    BY <1>0, <1>19, <2>1, <2>5, <2>7, Kept, PopType DEF GenEndloop
  <2>9. Blocks' = 1 .. n /\ inserted' = inserted /\ cur' \in inserted'
    BY <1>19, <2>2, <2>7 DEF GenEndloop, Blocks, symtab
  <2> QED
    BY SMTT(30), <1>0, <1>3, <1>19, <2>5, <2>7, <2>8, <2>9, Kept DEF GenEndloop, TypeOK, symtab, S
<1>20. CASE GenFor
  <2>1. PICK m \in Nat : m = n + 6
    BY <1>0
  <2> DEFINE S == Instrs(m)
             Cond(op, yes, no) == <<ForInstr(op, <<yes, no>>, Test(pos), Arg)>>
             blocks == <<Cond("positive", n + 2, n + 3), Cond("notAbove", n + 5, n + 6),
                         Cond("negative", n + 4, n + 6), Cond("notBelow", n + 5, n + 6),
                         <<>>, <<>> >>
             first == <<ForInstr("init", <<>>, Here, Arg)>> \o Br(n + 1, Test(pos))
             c1 == Emit(code, cur, first)
  <2>2. /\ pos \in DOMAIN body /\ body \in Seq(Items) /\ Arg \in Loops
        /\ Here \in Points /\ Test(pos) \in Points
    BY <1>20, AtType, BodiesAreItems DEF GenFor, TypeOK, HasLoop
  <2>3. /\ n <= m /\ 1 .. n \subseteq 1 .. m /\ n + 1 .. n + 6 \subseteq 1 .. m
        /\ {n + 1, n + 2, n + 3, n + 4, n + 5, n + 6} \subseteq n + 1 .. n + 6
    BY <1>0, <2>1
  <2>4. blocks \in Seq(Seq(S)) /\ Len(blocks) = 6
    <3>1. {"positive", "notAbove", "negative", "notBelow"} \subseteq InstrOps
      BY DEF InstrOps, Terminators
    <3>2. /\ Cond("positive", n + 2, n + 3) \in Seq(S) /\ Cond("notAbove", n + 5, n + 6) \in Seq(S)
          /\ Cond("negative", n + 4, n + 6) \in Seq(S) /\ Cond("notBelow", n + 5, n + 6) \in Seq(S)
      BY <2>2, <2>3, <3>1, ForInstrType
    <3> HIDE DEF S, Cond
    <3>3. <<>> \in Seq(S)
      OBVIOUS
    <3> QED
      BY <3>2, <3>3
  <2>5. first \in Seq(S)
    <3>1. "init" \in InstrOps /\ n + 1 \in 1 .. m
      BY <2>3 DEF InstrOps
    <3>2. Br(n + 1, Test(pos)) \in Seq(S)
      BY <2>2, <3>1, BrType
    <3> QED
      BY <2>2, <3>1, <3>2, PlainForType
  <2>6. code \in Seq(Seq(S))
    BY <1>0, <2>3, Widen
  <2>7. code' = c1 \o blocks
    BY <1>20 DEF GenFor
  <2> HIDE DEF S, blocks, first
  <2>8. c1 \in Seq(Seq(S)) /\ Len(c1) = n
    BY <1>0, <2>5, <2>6, EmitType
  <2> HIDE DEF c1
  <2>9. code' \in Seq(Seq(S)) /\ Len(code') = m
    <3>1. c1 \o blocks \in Seq(Seq(S)) /\ Len(c1 \o blocks) = Len(c1) + Len(blocks)
      BY ONLY <2>4, <2>8, ConcatType
    <3> QED
      BY <2>1, <2>4, <2>7, <2>8, <3>1
  <2>10. Blocks' = 1 .. m /\ inserted' = inserted \cup n + 1 .. n + 6 /\ body' = body
    BY <1>20, <2>9 DEF GenFor, Blocks, Advance
  <2>11. n + 1 \in inserted' /\ n + 5 \in inserted' /\ n + 6 \in inserted'
    BY <2>3, <2>10
  <2>12. inserted' \subseteq Blocks' /\ cur' \in inserted'
    BY <1>0, <1>20, <2>3, <2>10, <2>11 DEF GenFor
  <2>13. PICK g : g = Frame("for", n + 1, n + 6)
    OBVIOUS
  <2>14. FramesOK'
    <3>1. pos \in Nat /\ cur \in Nat /\ n + 1 \in Nat /\ n + 6 \in Nat
      BY <1>0, <2>2
    <3>2. g \in Frames
      BY <2>13, <3>1 DEF Frame, Frames
    <3>3. frames' = Append(frames, g)
      BY <1>20, <2>13 DEF GenFor, Push
    <3>4. FrameOK(g)'
      BY <1>20, <2>2, <2>10, <2>11, <2>13 DEF GenFor, AtOp, Frame, FrameOK, TypeOK
    <3> QED
      BY <2>3, <2>9, <2>10, <3>2, <3>3, <3>4, Kept, PushType
  <2>15. loopExit' \in [Loops -> inserted' \cup {0}]
    <3>1. loopExit' = [loopExit EXCEPT ![Arg] = n + 6]
      BY <1>20 DEF GenFor
    <3> QED
      BY <2>2, <2>10, <2>11, <3>1 DEF TypeOK
  <2> QED
    BY <1>3, <1>20, <2>3, <2>9, <2>10, <2>12, <2>14, <2>15, Kept DEF GenFor, TypeOK, S
<1>21. CASE GenNext
  <2> DEFINE t == Top
             S == Instrs(n + 1)
             for == body[t.at].arg
             step == <<ForInstr("step", <<>>, Here, for)>> \o Br(t.first, Test(t.at))
             c1 == Emit(code, cur, Br(n + 1, Here))
  <2>1. frames # <<>> /\ t \in Frames /\ FrameOK(t) /\ t.kind = "for"
    BY <1>21, TopType DEF GenNext, BackEdge, Closes
  <2>2. /\ t.first \in 1 .. n + 1 /\ t.second \in inserted
        /\ for \in Loops /\ body' = body
    BY <1>0, <1>21, <2>1, BodiesAreItems DEF FrameOK, GenNext, Advance, TypeOK, HasLoop
  <2>3. Here \in Points /\ Test(t.at) \in Points
    BY <1>21, <2>1, AtType DEF GenNext, BackEdge, Frames, Test, Points
  <2>4. Br(n + 1, Here) \in Seq(S) /\ Br(t.first, Test(t.at)) \in Seq(S)
    BY <1>0, <2>2, <2>3, BrType
  <2>5. step \in Seq(S)
    <3>1. "step" \in InstrOps
      BY DEF InstrOps
    <3> QED
      BY <1>0, <2>2, <2>3, <2>4, <3>1, PlainForType
  <2>6. code \in Seq(Seq(S))
    BY <1>0, Widen
  <2>7. code' = Append(c1, step)
    BY <1>21 DEF GenNext, BackEdge
  <2> HIDE DEF S, step
  <2>8. c1 \in Seq(Seq(S)) /\ Len(c1) = n
    BY <1>0, <2>4, <2>6, EmitType
  <2> HIDE DEF c1
  <2>9. code' \in Seq(Seq(S)) /\ Len(code') = n + 1
    BY <2>5, <2>7, <2>8
  <2>10. Blocks' = 1 .. n + 1 /\ inserted' = inserted \cup {n + 1}
    BY <1>21, <2>9 DEF GenNext, BackEdge, Blocks
  <2>11. inserted' \subseteq Blocks' /\ cur' \in inserted'
    BY <1>0, <1>21, <2>2, <2>10 DEF GenNext, BackEdge
  <2>12. FramesOK'
    BY <1>0, <1>21, <2>1, <2>2, <2>9, <2>10, Kept, PopType DEF GenNext, BackEdge
  <2> QED
    BY <1>0, <1>3, <1>21, <2>9, <2>10, <2>11, <2>12, Kept DEF GenNext, BackEdge, TypeOK, symtab, S
<1> QED
  BY <1>2, <1>4, <1>5, <1>6, <1>7, <1>8, <1>9, <1>10, <1>11, <1>12, <1>13, <1>14,
     <1>15, <1>16, <1>17, <1>18, <1>19, <1>20, <1>21 DEF GenNextStep

\* The types of the state are kept.
THEOREM TypeCorrect == GenSpec => []TypeOK
<1>1. GenInit => TypeOK
  <2> SUFFICES ASSUME GenInit PROVE TypeOK
    OBVIOUS
  <2>1. body \in Seq(Items)
    BY BodiesAreItems DEF GenInit
  <2>2. << <<>> >> \in Seq(Seq(Instrs(1)))
    OBVIOUS
  <2> QED
    BY <2>1, <2>2 DEF GenInit, TypeOK, Blocks, FramesOK, Frames
<1> QED
  BY <1>1, StepTypes, PTL DEF GenSpec

\* Whatever is generated, every indirectbr lists every return point: a new
\* return point is given to the old returns, a new return gets the old points.
THEOREM ReturnsReach == GenSpec => []ReturnsReachEveryGosub
<1>1. GenInit => ReturnsReachEveryGosub
  BY DEF GenInit, ReturnsReachEveryGosub
<1>2. ReturnsReachEveryGosub /\ [GenNextStep]_genVars => ReturnsReachEveryGosub'
  <2> SUFFICES ASSUME ReturnsReachEveryGosub, [GenNextStep]_genVars
               PROVE  ReturnsReachEveryGosub'
    OBVIOUS
  <2> USE DEF ReturnsReachEveryGosub
  <2>1. CASE GenGosub
    BY <2>1 DEF GenGosub, LabelTable, AddReturnPoint
  <2>2. CASE GenReturn
    BY <2>2 DEF GenReturn, AddIndirectBr
  <2>3. CASE UNCHANGED <<returnPoints, dests>>
    BY <2>3
  <2>4. ASSUME ~GenGosub, ~GenReturn
        PROVE  UNCHANGED <<returnPoints, dests>>
    BY <2>4 DEF GenNextStep, genVars, symtab, GenExec, GenLabel, GenGoto, GenCrash,
         GenIf, GenElse, GenEndif, GenLoop, GenEndloop, GenFor, GenNext,
         GenExit, GenEnd, GenExitFunction, GenFinish, Verify
  <2> QED
    BY <2>1, <2>2, <2>3, <2>4
<1> QED
  BY <1>1, <1>2, PTL DEF GenSpec

-----------------------------------------------------------------------------
\* Facts about a sequence of blocks: its instructions, each with its block; those
\* of its blocks that end with their only terminator; and no terminator elsewhere.
Content(blocks) ==
  UNION {{<<b, blocks[b][i]>> : i \in DOMAIN blocks[b]} : b \in 1 .. Len(blocks)}
Flat(xs) == \A i \in DOMAIN xs : xs[i].op \notin Terminators
Closing(xs) == xs # <<>> /\ \A i \in DOMAIN xs : xs[i].op \in Terminators <=> i = Len(xs)
Finished(blocks) == {b \in 1 .. Len(blocks) : Closing(blocks[b])}
EndsOnly(blocks) == \A b \in 1 .. Len(blocks) : Flat(blocks[b]) \/ Closing(blocks[b])

\* Open, in parts: what the label table has, and what the frames have.
HeldByLabels(table, ins, b) == b \notin ins /\ \E l \in Labels : table[l] = b
HeldByFrames(suspended, b) == \E k \in DOMAIN suspended : b \in FrameOpen(suspended[k])

\* A block is held open by one frame, and there for one reason ...
Single(f) ==
  /\ f.kind = "if" => f.done = 0
  /\ f.kind = "loop" => f.outer # f.second
  /\ f.kind = "else" => f.outer # f.done
Apart(suspended) ==
  /\ \A k \in DOMAIN suspended : Single(suspended[k])
  /\ \A j, k \in DOMAIN suspended :
       j # k => \A b \in FrameOpen(suspended[j]) : b = 0 \/ b \notin FrameOpen(suspended[k])
\* ... and not by the builder too.
HeldOnce == Apart(frames) /\ ~HeldByFrames(frames, cur)

\* A block belongs to one label, and is in the function once the label was met.
Met(i, ops) == i \in DOMAIN body /\ i < pos /\ body[i].op \in ops
Injective(table) ==
  \A l, m \in Labels : table[l] # 0 /\ table[l] = table[m] => l = m
LabelsMet ==
  /\ Injective(labelBlocks)
  /\ \A l \in Labels :
       labelBlocks[l] \in inserted <=> \E i \in DOMAIN body : Met(i, {"label"}) /\ body[i].arg = l

\* Each jump that was met has left a branch to the block of its label, and each
\* exitfunction its return, in a block of the function.
JumpsAreThere ==
  \A i \in DOMAIN body : i < pos =>
    /\ ~Crashes(body[i])
    /\ body[i].op = "exitfunction" => \E e \in Content(code) : e[1] \in inserted /\ e[2].op = "retvalue"
    /\ body[i].op \in {"goto", "gosub"} =>
         /\ labelBlocks[body[i].arg] # 0
         /\ \E e \in Content(code) :
              e[1] \in inserted /\ \E k \in DOMAIN e[2].to : e[2].to[k] = labelBlocks[body[i].arg]

\* Conversely, nothing else leaves the function or returns a value.
InsideOrJump(b) ==
  b \in inserted \/ \E i \in DOMAIN body : Met(i, {"goto", "gosub"}) /\ labelBlocks[body[i].arg] = b
ForCause(x) ==
  /\ x.op = "retvalue" => \E i \in DOMAIN body : Met(i, {"exitfunction"})
  /\ \A k \in DOMAIN x.to : InsideOrJump(x.to[k])
NothingElse == \A e \in Content(code) : ForCause(e[2])

\* Blocks end as they should while there is no exitfunction.
NoExit == \A i \in DOMAIN body : body[i].op # "exitfunction"
Ended ==
  NoExit =>
    /\ EndsOnly(code)
    /\ status = "generate" => Finished(code) = Blocks \ Open
    /\ status \in {"verify", "accepted", "rejected"} => inserted \subseteq Finished(code)

\* What the status says of the statements.
Verdict ==
  /\ status = "crashed" => pos \in DOMAIN body /\ Crashes(body[pos])
  /\ status \in {"verify", "accepted", "rejected"} => pos > Len(body)
  /\ status = "accepted" => WellFormed
  /\ status = "rejected" => ~WellFormed

Building == TypeOK /\ HeldOnce /\ LabelsMet /\ JumpsAreThere /\ NothingElse /\ Ended /\ Verdict
-----------------------------------------------------------------------------
\* The instructions of the model, whatever blocks they name.
AnyInstr == [op : InstrOps, to : Seq(Nat), at : Points, loop : Loops \cup {NULL}]
CodeSeqs == Seq(Seq(AnyInstr))

\* What a sequence of instructions adds to the content of block b.
Entries(b, xs) == {<<b, xs[i]>> : i \in DOMAIN xs}

LEMMA EmitAt ==
  ASSUME NEW S, NEW blocks \in Seq(Seq(S)), NEW b \in 1 .. Len(blocks), NEW xs \in Seq(S)
  PROVE  /\ Emit(blocks, b, xs) \in Seq(Seq(S)) /\ Len(Emit(blocks, b, xs)) = Len(blocks)
         /\ Emit(blocks, b, xs)[b] = blocks[b] \o xs
         /\ \A c \in 1 .. Len(blocks) : c # b => Emit(blocks, b, xs)[c] = blocks[c]
<1>1. blocks[b] \o xs \in Seq(S)
  OBVIOUS
<1>2. Emit(blocks, b, xs) = [blocks EXCEPT ![b] = blocks[b] \o xs]
  BY DEF Emit
<1> QED
  BY <1>1, <1>2

\* The elements of a concatenation.
LEMMA ConcatAt ==
  ASSUME NEW S, NEW s \in Seq(S), NEW t \in Seq(S)
  PROVE  /\ Len(s \o t) = Len(s) + Len(t) /\ DOMAIN (s \o t) = 1 .. Len(s) + Len(t)
         /\ DOMAIN s = 1 .. Len(s) /\ DOMAIN t = 1 .. Len(t) /\ Len(s) \in Nat /\ Len(t) \in Nat
         /\ \A i \in 1 .. Len(s) : (s \o t)[i] = s[i]
         /\ \A i \in 1 .. Len(t) : (s \o t)[Len(s) + i] = t[i]
OBVIOUS

\* A terminator ends what had none.
LEMMA ConcatEnds ==
  ASSUME NEW S, NEW s \in Seq(S), NEW t \in Seq(S), Flat(s)
  PROVE  /\ Flat(t) => Flat(s \o t)
         /\ Closing(t) => Closing(s \o t)
<1>1. PICK n \in Nat : n = Len(s)
  OBVIOUS
<1>2. PICK m \in Nat : m = Len(t)
  OBVIOUS
<1>3. PICK u : u = s \o t
  OBVIOUS
<1>4. /\ Len(u) = n + m /\ DOMAIN u = 1 .. n + m /\ DOMAIN s = 1 .. n /\ DOMAIN t = 1 .. m
      /\ \A i \in 1 .. n : u[i] = s[i]
      /\ \A i \in 1 .. m : u[n + i] = t[i]
  BY ONLY <1>1, <1>2, <1>3, ConcatAt, s \in Seq(S), t \in Seq(S)
<1>5. ASSUME NEW i \in 1 .. n + m
      PROVE  \/ i \in 1 .. n /\ u[i] = s[i]
             \/ i - n \in 1 .. m /\ u[i] = t[i - n]
  <2>1. i \notin 1 .. n => i - n \in 1 .. m /\ n + (i - n) = i
    OBVIOUS
  <2> QED
    BY ONLY <1>4, <2>1
<1>6. ASSUME Flat(t)
      PROVE  Flat(u)
  BY ONLY <1>4, <1>5, <1>6, Flat(s) DEF Flat
<1>7. ASSUME Closing(t)
      PROVE  Closing(u)
  <2>1. m # 0 /\ \A i \in 1 .. m : t[i].op \in Terminators <=> i = m
    BY ONLY <1>2, <1>4, <1>7, t \in Seq(S) DEF Closing
  <2>2. \A i \in 1 .. n : s[i].op \notin Terminators
    BY ONLY <1>4, Flat(s) DEF Flat
  <2>3. ASSUME NEW i \in 1 .. n + m
        PROVE  u[i].op \in Terminators <=> i = n + m
    <3>1. CASE i \in 1 .. n /\ u[i] = s[i]
      <4>1. i # n + m
        BY ONLY <2>1, <3>1, n \in Nat, m \in Nat
      <4> QED
        BY ONLY <2>2, <3>1, <4>1
    <3>2. CASE i - n \in 1 .. m /\ u[i] = t[i - n]
      <4>1. i - n = m <=> i = n + m
        OBVIOUS
      <4> QED
        BY ONLY <2>1, <3>2, <4>1
    <3> QED
      BY <1>5, <3>1, <3>2
  <2>4. u # <<>>
    BY ONLY <1>4, <2>1, n \in Nat, m \in Nat
  <2> QED
    BY ONLY <1>4, <2>3, <2>4 DEF Closing
<1> QED
  BY <1>3, <1>6, <1>7

\* A sequence that has its terminator at its end has one.
LEMMA FlatOrClosing ==
  ASSUME NEW S, NEW s \in Seq(S), Flat(s), Closing(s)
  PROVE  FALSE
<1>1. Len(s) \in DOMAIN s
  BY DEF Closing
<1> QED
  BY <1>1 DEF Flat, Closing

\* What is emitted is all that is new.
LEMMA EmitContent ==
  ASSUME NEW S, NEW blocks \in Seq(Seq(S)), NEW b \in 1 .. Len(blocks), NEW xs \in Seq(S)
  PROVE  Content(Emit(blocks, b, xs)) = Content(blocks) \cup Entries(b, xs)
<1>1. PICK e : e = Emit(blocks, b, xs)
  OBVIOUS
<1>2. PICK s \in Seq(S) : s = blocks[b]
  OBVIOUS
<1>3. /\ Len(e) = Len(blocks) /\ e[b] = s \o xs
      /\ \A c \in 1 .. Len(blocks) : c # b => e[c] = blocks[c]
  BY ZenonT(60), <1>1, <1>2, EmitAt
<1>4. /\ \A i \in DOMAIN s : i \in DOMAIN e[b] /\ e[b][i] = s[i]
      /\ \A i \in DOMAIN xs : Len(s) + i \in DOMAIN e[b] /\ e[b][Len(s) + i] = xs[i]
  <2>1. PICK u : u = s \o xs
    OBVIOUS
  <2>2. /\ Len(s) \in Nat /\ Len(xs) \in Nat /\ DOMAIN u = 1 .. Len(s) + Len(xs)
        /\ DOMAIN s = 1 .. Len(s) /\ DOMAIN xs = 1 .. Len(xs)
        /\ \A i \in 1 .. Len(s) : u[i] = s[i]
        /\ \A i \in 1 .. Len(xs) : u[Len(s) + i] = xs[i]
    BY <2>1, ConcatAt
  <2>3. e[b] = u
    BY <1>3, <2>1
  <2> QED
    BY ONLY <2>2, <2>3
<1>5. ASSUME NEW i \in DOMAIN e[b]
      PROVE  i \in DOMAIN s \/ \E j \in DOMAIN xs : e[b][i] = xs[j]
  <2>1. i \notin DOMAIN s => i - Len(s) \in DOMAIN xs /\ Len(s) + (i - Len(s)) = i
    BY <1>3, ConcatAt
  <2> QED
    BY <1>4, <2>1
<1>6. ASSUME NEW p \in Content(e)
      PROVE  p \in Content(blocks) \cup Entries(b, xs)
  <2>1. PICK c \in 1 .. Len(e) : \E i \in DOMAIN e[c] : p = <<c, e[c][i]>>
    BY <1>6 DEF Content
  <2>2. PICK i \in DOMAIN e[c] : p = <<c, e[c][i]>>
    BY <2>1
  <2>3. CASE c # b
    BY <1>3, <2>2, <2>3 DEF Content
  <2>4. CASE c = b /\ i \in DOMAIN s
    BY <1>2, <1>4, <2>2, <2>4 DEF Content
  <2>5. CASE c = b /\ \E j \in DOMAIN xs : e[b][i] = xs[j]
    BY <2>2, <2>5 DEF Entries
  <2> QED
    BY <1>5, <2>3, <2>4, <2>5
<1>7. ASSUME NEW p \in Content(blocks)
      PROVE  p \in Content(e)
  <2>1. PICK c \in 1 .. Len(blocks) : \E i \in DOMAIN blocks[c] : p = <<c, blocks[c][i]>>
    BY <1>7 DEF Content
  <2>2. PICK i \in DOMAIN blocks[c] : p = <<c, blocks[c][i]>>
    BY <2>1
  <2>3. c \in 1 .. Len(e) /\ i \in DOMAIN e[c] /\ p = <<c, e[c][i]>>
    BY <1>2, <1>3, <1>4, <2>2
  <2> QED
    BY <2>3 DEF Content
<1>8. ASSUME NEW p \in Entries(b, xs)
      PROVE  p \in Content(e)
  <2>1. PICK i \in DOMAIN xs : p = <<b, xs[i]>>
    BY <1>8 DEF Entries
  <2>2. b \in 1 .. Len(e) /\ Len(s) + i \in DOMAIN e[b] /\ p = <<b, e[b][Len(s) + i]>>
    BY <1>3, <1>4, <2>1
  <2> QED
    BY <2>2 DEF Content
<1> QED
  BY <1>1, <1>6, <1>7, <1>8

\* A block that is not terminated stays so until a terminator is emitted.
LEMMA EmitEnds ==
  ASSUME NEW S, NEW blocks \in Seq(Seq(S)), NEW b \in 1 .. Len(blocks), NEW xs \in Seq(S),
         EndsOnly(blocks), b \notin Finished(blocks)
  PROVE  /\ Closing(xs) =>
              /\ EndsOnly(Emit(blocks, b, xs))
              /\ Finished(Emit(blocks, b, xs)) = Finished(blocks) \cup {b}
         /\ Flat(xs) =>
              /\ EndsOnly(Emit(blocks, b, xs))
              /\ Finished(Emit(blocks, b, xs)) = Finished(blocks)
<1>1. PICK e : e = Emit(blocks, b, xs)
  OBVIOUS
<1>2. /\ Len(e) = Len(blocks) /\ e[b] = blocks[b] \o xs
      /\ \A c \in 1 .. Len(blocks) : c # b => e[c] = blocks[c]
  <2>1. /\ Len(Emit(blocks, b, xs)) = Len(blocks) /\ Emit(blocks, b, xs)[b] = blocks[b] \o xs
        /\ \A c \in 1 .. Len(blocks) : c # b => Emit(blocks, b, xs)[c] = blocks[c]
    BY ONLY ZenonT(60), EmitAt, blocks \in Seq(Seq(S)), b \in 1 .. Len(blocks), xs \in Seq(S)
  <2> QED
    BY <1>1, <2>1, Zenon
<1>3. Flat(blocks[b])
  BY DEF EndsOnly, Finished
<1>4. blocks[b] \in Seq(S)
  OBVIOUS
<1>5. (Flat(xs) => Flat(e[b])) /\ (Closing(xs) => Closing(e[b]))
  BY <1>2, <1>3, <1>4, ConcatEnds
<1>6. Flat(xs) => ~Closing(e[b])
  <2>1. ASSUME Flat(e[b]), Closing(e[b])
        PROVE  FALSE
    <3>1. e[b] \in Seq(S)
      BY <1>2, <1>4
    <3> QED
      BY <2>1, <3>1, FlatOrClosing
  <2> QED
    BY <1>5, <2>1
<1> QED
  BY <1>1, <1>2, <1>5, <1>6 DEF EndsOnly, Finished

\* A block is added, empty or complete.
LEMMA AppendBlock ==
  ASSUME NEW S, NEW blocks \in Seq(Seq(S)), NEW xs \in Seq(S)
  PROVE  /\ Append(blocks, xs) \in Seq(Seq(S)) /\ Len(Append(blocks, xs)) = Len(blocks) + 1
         /\ Content(Append(blocks, xs)) = Content(blocks) \cup Entries(Len(blocks) + 1, xs)
         /\ EndsOnly(blocks) /\ (Closing(xs) \/ xs = <<>>) => EndsOnly(Append(blocks, xs))
         /\ xs = <<>> => Finished(Append(blocks, xs)) = Finished(blocks)
         /\ Closing(xs) => Finished(Append(blocks, xs)) = Finished(blocks) \cup {Len(blocks) + 1}
<1>1. PICK e : e = Append(blocks, xs)
  OBVIOUS
<1>2. PICK n \in Nat : n = Len(blocks)
  OBVIOUS
<1>3. /\ e \in Seq(Seq(S)) /\ Len(e) = n + 1 /\ e[n + 1] = xs
      /\ \A c \in 1 .. n : e[c] = blocks[c]
      /\ 1 .. n + 1 = 1 .. n \cup {n + 1}
  BY <1>1, <1>2
<1>4. Content(e) = Content(blocks) \cup Entries(n + 1, xs)
  <2>1. ASSUME NEW p \in Content(e)
        PROVE  p \in Content(blocks) \cup Entries(n + 1, xs)
    <3>1. PICK c \in 1 .. Len(e) : \E i \in DOMAIN e[c] : p = <<c, e[c][i]>>
      BY <2>1 DEF Content
    <3>2. CASE c \in 1 .. n
      BY <1>2, <1>3, <3>1, <3>2 DEF Content
    <3>3. CASE c = n + 1
      BY <1>3, <3>1, <3>3 DEF Entries
    <3> QED
      BY <1>3, <3>2, <3>3
  <2>2. ASSUME NEW p \in Content(blocks)
        PROVE  p \in Content(e)
    <3>1. PICK c \in 1 .. Len(blocks) : \E i \in DOMAIN blocks[c] : p = <<c, blocks[c][i]>>
      BY <2>2 DEF Content
    <3> QED
      BY <1>2, <1>3, <3>1 DEF Content
  <2>3. ASSUME NEW p \in Entries(n + 1, xs)
        PROVE  p \in Content(e)
    <3>1. PICK i \in DOMAIN xs : p = <<n + 1, xs[i]>>
      BY <2>3 DEF Entries
    <3>2. n + 1 \in 1 .. Len(e) /\ i \in DOMAIN e[n + 1] /\ p = <<n + 1, e[n + 1][i]>>
      BY <1>3, <3>1
    <3> QED
      BY <3>2 DEF Content
  <2> QED
    BY <2>1, <2>2, <2>3
<1>5. EndsOnly(blocks) /\ (Closing(xs) \/ xs = <<>>) => EndsOnly(e)
  <2>1. xs = <<>> => Flat(xs)
    BY DEF Flat
  <2> QED
    BY <1>2, <1>3, <2>1 DEF EndsOnly
<1>6. xs = <<>> => ~Closing(xs)
  BY DEF Closing
<1>7. /\ xs = <<>> => Finished(e) = Finished(blocks)
      /\ Closing(xs) => Finished(e) = Finished(blocks) \cup {n + 1}
  BY <1>2, <1>3, <1>6 DEF Finished
<1> QED
  BY <1>1, <1>2, <1>3, <1>4, <1>5, <1>7

\* Two or six blocks are added: one after the other.
LEMMA TwoBlocks ==
  ASSUME NEW S, NEW s \in Seq(S), NEW a \in S, NEW b \in S
  PROVE  s \o <<a, b>> = Append(Append(s, a), b)
OBVIOUS

LEMMA SixBlocks ==
  ASSUME NEW S, NEW s \in Seq(S), NEW a \in S, NEW b \in S, NEW c \in S,
         NEW d \in S, NEW e \in S, NEW f \in S
  PROVE  s \o <<a, b, c, d, e, f>> = Append(Append(Append(Append(Append(Append(s, a), b), c), d), e), f)
OBVIOUS
-----------------------------------------------------------------------------
\* The suspended calls: one is put on top of them, and taken away again.
LEMMA PushHolds ==
  ASSUME NEW suspended \in Seq(Frames), NEW g \in Frames
  PROVE  /\ \A b : HeldByFrames(Append(suspended, g), b) <=> HeldByFrames(suspended, b) \/ b \in FrameOpen(g)
         /\ Apart(suspended) /\ Single(g) /\ (\A b \in FrameOpen(g) : b = 0 \/ ~HeldByFrames(suspended, b))
              => Apart(Append(suspended, g))
<1>1. PICK n \in Nat : n = Len(suspended)
  OBVIOUS
<1>2. PICK t : t = Append(suspended, g)
  OBVIOUS
<1>3. /\ DOMAIN suspended = 1 .. n /\ DOMAIN t = 1 .. n + 1 /\ t[n + 1] = g
      /\ \A k \in 1 .. n : t[k] = suspended[k]
  BY <1>1, <1>2
<1>4. \A k \in 1 .. n + 1 : k \in 1 .. n \/ k = n + 1
  OBVIOUS
<1>5. 1 .. n \subseteq 1 .. n + 1 /\ n + 1 \in 1 .. n + 1
  OBVIOUS
<1>6. \A b : HeldByFrames(t, b) <=> HeldByFrames(suspended, b) \/ b \in FrameOpen(g)
  BY ONLY <1>3, <1>4, <1>5 DEF HeldByFrames
<1>7. ASSUME Apart(suspended), Single(g), \A b \in FrameOpen(g) : b = 0 \/ ~HeldByFrames(suspended, b)
      PROVE  Apart(t)
  <2>1. \A k \in 1 .. n + 1 : Single(t[k])
    BY ONLY <1>3, <1>4, <1>7 DEF Apart
  <2>2. \A k \in 1 .. n : \A b \in FrameOpen(g) : b = 0 \/ b \notin FrameOpen(suspended[k])
    BY ONLY <1>3, <1>7 DEF HeldByFrames
  <2>3. ASSUME NEW j \in 1 .. n + 1, NEW k \in 1 .. n + 1, j # k
        PROVE  \A b \in FrameOpen(t[j]) : b = 0 \/ b \notin FrameOpen(t[k])
    <3>1. CASE j \in 1 .. n /\ k \in 1 .. n
      BY ONLY <1>3, <1>7, <2>3, <3>1 DEF Apart
    <3>2. CASE j = n + 1 /\ k \in 1 .. n
      BY ONLY <1>3, <2>2, <3>2
    <3>3. CASE j \in 1 .. n /\ k = n + 1
      BY ONLY <1>3, <2>2, <3>3
    <3> QED
      BY <1>4, <2>3, <3>1, <3>2, <3>3
  <2> QED
    BY ONLY <1>3, <2>1, <2>3 DEF Apart
<1> QED
  BY <1>2, <1>6, <1>7

LEMMA PopHolds ==
  ASSUME NEW suspended \in Seq(Frames), suspended # <<>>, Apart(suspended)
  PROVE  /\ SubSeq(suspended, 1, Len(suspended) - 1) \in Seq(Frames)
         /\ Apart(SubSeq(suspended, 1, Len(suspended) - 1)) /\ Single(suspended[Len(suspended)])
         /\ \A b : HeldByFrames(suspended, b) <=>
              HeldByFrames(SubSeq(suspended, 1, Len(suspended) - 1), b) \/ b \in FrameOpen(suspended[Len(suspended)])
         /\ \A b \in FrameOpen(suspended[Len(suspended)]) :
              b = 0 \/ ~HeldByFrames(SubSeq(suspended, 1, Len(suspended) - 1), b)
<1>1. PICK n \in Nat : n + 1 = Len(suspended)
  <2>1. Len(suspended) \in Nat \ {0}
    OBVIOUS
  <2>2. Len(suspended) - 1 \in Nat /\ (Len(suspended) - 1) + 1 = Len(suspended)
    BY <2>1
  <2> QED
    BY <2>2
<1>2. PICK t : t = SubSeq(suspended, 1, Len(suspended) - 1)
  OBVIOUS
<1>3. /\ Len(suspended) - 1 = n /\ t \in Seq(Frames)
      /\ DOMAIN suspended = 1 .. n + 1 /\ DOMAIN t = 1 .. n
      /\ \A k \in 1 .. n : t[k] = suspended[k]
  BY <1>1, <1>2
<1>4. \A k \in 1 .. n + 1 : k \in 1 .. n \/ k = n + 1
  OBVIOUS
<1>5. 1 .. n \subseteq 1 .. n + 1 /\ n + 1 \in 1 .. n + 1 /\ n + 1 \notin 1 .. n
  OBVIOUS
<1>6. \A b : HeldByFrames(suspended, b) <=> HeldByFrames(t, b) \/ b \in FrameOpen(suspended[n + 1])
  BY ONLY <1>3, <1>4, <1>5 DEF HeldByFrames
<1>7. Apart(t) /\ Single(suspended[n + 1])
  BY ONLY <1>3, <1>5, Apart(suspended) DEF Apart
<1>8. ASSUME NEW b \in FrameOpen(suspended[n + 1]), NEW k \in 1 .. n
      PROVE  b = 0 \/ b \notin FrameOpen(t[k])
  <2>1. n + 1 # k
    BY <1>5
  <2> QED
    BY ONLY <1>3, <1>5, <2>1, b \in FrameOpen(suspended[n + 1]), k \in 1 .. n, Apart(suspended) DEF Apart
<1>9. \A b \in FrameOpen(suspended[n + 1]) : b = 0 \/ ~HeldByFrames(t, b)
  BY ONLY <1>3, <1>8 DEF HeldByFrames
<1> QED
  BY <1>1, <1>2, <1>3, <1>6, <1>7, <1>9

\* A frame that changes is taken off and put on again.
LEMMA ReplaceIsPopPush ==
  ASSUME NEW suspended \in Seq(Frames), suspended # <<>>, NEW g \in Frames
  PROVE  [suspended EXCEPT ![Len(suspended)] = g] = Append(SubSeq(suspended, 1, Len(suspended) - 1), g)
<1>1. PICK n \in Nat : n = Len(suspended) - 1 /\ n + 1 = Len(suspended)
  <2>1. Len(suspended) \in Nat \ {0}
    OBVIOUS
  <2> QED
    BY <2>1
<1>2. PICK t : t = SubSeq(suspended, 1, n)
  OBVIOUS
<1>3. PICK e : e = [suspended EXCEPT ![n + 1] = g]
  OBVIOUS
<1>4. /\ e \in [1 .. n + 1 -> Frames] /\ e[n + 1] = g /\ \A k \in 1 .. n : e[k] = suspended[k]
      /\ t \in Seq(Frames) /\ Len(t) = n /\ \A k \in 1 .. n : t[k] = suspended[k]
  BY <1>1, <1>2, <1>3
<1>5. PICK a : a = Append(t, g)
  OBVIOUS
<1>6. a \in [1 .. n + 1 -> Frames] /\ a[n + 1] = g /\ \A k \in 1 .. n : a[k] = t[k]
  <2>1. a \in Seq(Frames) /\ Len(a) = n + 1 /\ a[n + 1] = g /\ \A k \in 1 .. n : a[k] = t[k]
    BY <1>4, <1>5
  <2> QED
    BY <2>1
<1>7. \A k \in 1 .. n + 1 : e[k] = a[k]
  <2>1. \A k \in 1 .. n + 1 : k \in 1 .. n \/ k = n + 1
    OBVIOUS
  <2> QED
    BY ONLY <1>4, <1>6, <2>1
<1>8. e = a
  BY ONLY <1>4, <1>6, <1>7
<1> QED
  BY <1>1, <1>2, <1>3, <1>5, <1>8

\* What a frame holds is in the function.
LEMMA HeldIsInserted ==
  ASSUME TypeOK, Apart(frames), NEW b, HeldByFrames(frames, b), b # 0
  PROVE  b \in inserted
<1>1. PICK k \in DOMAIN frames : b \in FrameOpen(frames[k])
  BY DEF HeldByFrames
<1>2. FrameOK(frames[k]) /\ Single(frames[k]) /\ frames[k] \in Frames
  BY DEF TypeOK, FramesOK, Apart
<1> QED
  BY <1>1, <1>2 DEF FrameOK, Single, FrameOpen, Frames

LEMMA OpenIs ==
  /\ \A b : b \in Open <=> b = cur \/ HeldByLabels(labelBlocks, inserted, b) \/ HeldByFrames(frames, b)
  /\ \A b : (b \in Open <=> b = cur \/ HeldByLabels(labelBlocks, inserted, b) \/ HeldByFrames(frames, b))'
<1>1. \A b : b \in Open <=> b = cur \/ HeldByLabels(labelBlocks, inserted, b) \/ HeldByFrames(frames, b)
  BY DEF Open, HeldByLabels, HeldByFrames
<1>2. \A b : (b \in Open <=> b = cur \/ HeldByLabels(labelBlocks, inserted, b) \/ HeldByFrames(frames, b))'
  BY DEF Open, HeldByLabels, HeldByFrames
<1> QED
  BY <1>1, <1>2
-----------------------------------------------------------------------------
\* The state as block sequences: the instructions, whatever blocks they name.
LEMMA CodeType ==
  ASSUME TypeOK
  PROVE  /\ code \in CodeSeqs /\ Len(code) \in Nat /\ Blocks = 1 .. Len(code)
         /\ inserted \subseteq 1 .. Len(code) /\ cur \in 1 .. Len(code) /\ cur \in inserted
         /\ labelBlocks \in [Labels -> Nat] /\ 0 \notin inserted
         /\ \A l \in Labels : labelBlocks[l] <= Len(code)
         /\ frames \in Seq(Frames) /\ body \in Bodies /\ body \in Seq(Items) /\ pos \in 1 .. Len(body) + 1
<1>1. PICK n \in Nat : n = Len(code)
  BY DEF TypeOK
<1>2. /\ code \in Seq(Seq(Instrs(n))) /\ Blocks = 1 .. n /\ inserted \subseteq 1 .. n /\ cur \in inserted
      /\ labelBlocks \in [Labels -> 1 .. n \cup {0}]
  BY <1>1 DEF TypeOK, Blocks
<1>3. ASSUME NEW x \in Instrs(n)
      PROVE  x \in AnyInstr
  <2>1. x.to \in Seq(1 .. n) /\ 1 .. n \subseteq Nat
    BY <1>3 DEF Instrs
  <2>2. x.to \in Seq(Nat)
    BY <2>1
  <2> QED
    BY <1>3, <2>2 DEF Instrs, AnyInstr
<1>4. code \in CodeSeqs
  <2>1. \A s \in Seq(Instrs(n)) : s \in Seq(AnyInstr)
    BY <1>3
  <2> QED
    BY <1>2, <2>1 DEF CodeSeqs
<1>5. labelBlocks \in [Labels -> Nat] /\ 0 \notin inserted /\ \A l \in Labels : labelBlocks[l] <= n
  BY <1>2
<1>6. frames \in Seq(Frames) /\ body \in Bodies /\ body \in Seq(Items) /\ pos \in 1 .. Len(body) + 1
  BY BodiesAreItems DEF TypeOK, FramesOK
<1> QED
  BY <1>1, <1>2, <1>4, <1>5, <1>6

\* The branch targets of an instruction of the code are blocks.
LEMMA TargetsAreBlocks ==
  ASSUME TypeOK, NEW e \in Content(code), NEW k \in DOMAIN e[2].to
  PROVE  e[2].to[k] \in 1 .. Len(code)
<1>1. PICK c \in 1 .. Len(code) : \E i \in DOMAIN code[c] : e = <<c, code[c][i]>>
  BY DEF Content
<1>2. PICK i \in DOMAIN code[c] : e = <<c, code[c][i]>>
  BY <1>1
<1>3. code[c] \in Seq(Instrs(Len(code))) /\ code[c][i] \in Instrs(Len(code))
  BY <1>2 DEF TypeOK
<1>4. e[2].to \in Seq(1 .. Len(code))
  BY <1>2, <1>3 DEF Instrs
<1> QED
  BY <1>4

\* What statements emit is instructions.
LEMMA InstrIsAny ==
  ASSUME NEW op \in InstrOps, NEW to \in Seq(Nat), NEW at \in Points
  PROVE  /\ Instr(op, to, at) \in AnyInstr
         /\ \A l \in Loops : ForInstr(op, to, at, l) \in AnyInstr
BY DEF Instr, ForInstr, AnyInstr

LEMMA OneInstr ==
  ASSUME NEW x \in AnyInstr, NEW b
  PROVE  /\ <<x>> \in Seq(AnyInstr) /\ Entries(b, <<x>>) = {<<b, x>>}
         /\ x.op \in Terminators => Closing(<<x>>)
         /\ x.op \notin Terminators => Flat(<<x>>)
<1>1. PICK s : s = <<x>>
  OBVIOUS
<1>2. s \in Seq(AnyInstr) /\ Len(s) = 1 /\ DOMAIN s = {1} /\ s[1] = x
  BY <1>1
<1>3. Entries(b, s) = {<<b, x>>}
  BY ONLY <1>2 DEF Entries
<1>4. x.op \in Terminators => Closing(s)
  BY ONLY <1>2 DEF Closing
<1>5. x.op \notin Terminators => Flat(s)
  BY ONLY <1>2 DEF Flat
<1> QED
  BY <1>1, <1>2, <1>3, <1>4, <1>5

LEMMA BrIsAny ==
  ASSUME NEW t \in Nat, NEW at \in Points, NEW b
  PROVE  /\ Br(t, at) \in Seq(AnyInstr) /\ Closing(Br(t, at))
         /\ Entries(b, Br(t, at)) = {<<b, Instr("br", <<t>>, at)>>}
<1>1. "br" \in InstrOps /\ "br" \in Terminators /\ <<t>> \in Seq(Nat)
  BY DEF InstrOps, Terminators
<1>2. Instr("br", <<t>>, at) \in AnyInstr /\ Instr("br", <<t>>, at).op = "br"
  BY <1>1, InstrIsAny DEF Instr
<1> QED
  BY <1>1, <1>2, OneInstr DEF Br

\* One before a branch that is no terminator.
LEMMA ThenBr ==
  ASSUME NEW x \in AnyInstr, x.op \notin Terminators, NEW t \in Nat, NEW at \in Points, NEW b
  PROVE  /\ <<x>> \o Br(t, at) \in Seq(AnyInstr) /\ Closing(<<x>> \o Br(t, at))
         /\ Entries(b, <<x>> \o Br(t, at)) = {<<b, x>>, <<b, Instr("br", <<t>>, at)>>}
<1>1. PICK y : y = Instr("br", <<t>>, at)
  OBVIOUS
<1>2. <<x>> \in Seq(AnyInstr) /\ Flat(<<x>>) /\ Br(t, at) = <<y>> /\ <<y>> \in Seq(AnyInstr) /\ Closing(<<y>>)
  BY <1>1, OneInstr, BrIsAny DEF Br
<1>3. PICK s : s = <<x>> \o <<y>>
  OBVIOUS
<1>4. s \in Seq(AnyInstr) /\ Len(s) = 2 /\ s[1] = x /\ s[2] = y /\ DOMAIN s = {1, 2}
  BY <1>2, <1>3
<1>5. Entries(b, s) = {<<b, x>>, <<b, y>>}
  BY ONLY <1>4 DEF Entries
<1>6. Closing(s)
  BY <1>2, <1>3, ConcatEnds
<1> QED
  BY <1>1, <1>2, <1>3, <1>4, <1>5, <1>6

LEMMA NoInstr ==
  ASSUME NEW b
  PROVE  <<>> \in Seq(AnyInstr) /\ Entries(b, <<>>) = {}
BY DEF Entries
\* The two of them, for the blocks of a function.
LEMMA EmptyBlock ==
  ASSUME NEW blocks \in CodeSeqs
  PROVE  /\ Append(blocks, <<>>) \in CodeSeqs /\ Len(Append(blocks, <<>>)) = Len(blocks) + 1
         /\ Content(Append(blocks, <<>>)) = Content(blocks)
         /\ Finished(Append(blocks, <<>>)) = Finished(blocks)
         /\ EndsOnly(blocks) => EndsOnly(Append(blocks, <<>>))
<1>1. blocks \in Seq(Seq(AnyInstr)) /\ <<>> \in Seq(AnyInstr)
  BY DEF CodeSeqs
<1>2. Entries(Len(blocks) + 1, <<>>) = {}
  BY DEF Entries
<1>3. /\ Append(blocks, <<>>) \in Seq(Seq(AnyInstr)) /\ Len(Append(blocks, <<>>)) = Len(blocks) + 1
      /\ Content(Append(blocks, <<>>)) = Content(blocks) \cup Entries(Len(blocks) + 1, <<>>)
      /\ Finished(Append(blocks, <<>>)) = Finished(blocks)
      /\ EndsOnly(blocks) => EndsOnly(Append(blocks, <<>>))
  BY ONLY <1>1, AppendBlock
<1> QED
  BY <1>2, <1>3 DEF CodeSeqs

LEMMA EmitInCode ==
  ASSUME NEW blocks \in CodeSeqs, NEW b \in 1 .. Len(blocks), NEW xs \in Seq(AnyInstr)
  PROVE  /\ Emit(blocks, b, xs) \in CodeSeqs /\ Len(Emit(blocks, b, xs)) = Len(blocks)
         /\ Content(Emit(blocks, b, xs)) = Content(blocks) \cup Entries(b, xs)
         /\ EndsOnly(blocks) /\ b \notin Finished(blocks) =>
              /\ Closing(xs) => /\ EndsOnly(Emit(blocks, b, xs))
                                /\ Finished(Emit(blocks, b, xs)) = Finished(blocks) \cup {b}
              /\ Flat(xs) => /\ EndsOnly(Emit(blocks, b, xs))
                             /\ Finished(Emit(blocks, b, xs)) = Finished(blocks)
<1>1. blocks \in Seq(Seq(AnyInstr))
  BY DEF CodeSeqs
<1>2. Emit(blocks, b, xs) \in Seq(Seq(AnyInstr)) /\ Len(Emit(blocks, b, xs)) = Len(blocks)
  BY <1>1, EmitAt
<1>3. Content(Emit(blocks, b, xs)) = Content(blocks) \cup Entries(b, xs)
  BY <1>1, EmitContent
<1>4. ASSUME EndsOnly(blocks), b \notin Finished(blocks)
      PROVE  /\ Closing(xs) => /\ EndsOnly(Emit(blocks, b, xs))
                               /\ Finished(Emit(blocks, b, xs)) = Finished(blocks) \cup {b}
             /\ Flat(xs) => /\ EndsOnly(Emit(blocks, b, xs))
                            /\ Finished(Emit(blocks, b, xs)) = Finished(blocks)
  BY <1>1, <1>4, EmitEnds
<1> QED
  BY <1>2, <1>3, <1>4 DEF CodeSeqs

LEMMA Ending ==
  ASSUME NEW blocks \in CodeSeqs, NEW b, b \in 1 .. Len(blocks), NEW xs \in Seq(AnyInstr), Closing(xs),
         NEW after, after = Emit(blocks, b, xs), NEW es, Entries(b, xs) = es
  PROVE  /\ after \in CodeSeqs /\ Len(after) = Len(blocks) /\ Content(after) = Content(blocks) \cup es
         /\ EndsOnly(blocks) /\ b \notin Finished(blocks) =>
              EndsOnly(after) /\ Finished(after) = Finished(blocks) \cup {b}
BY EmitInCode

LEMMA GoingOn ==
  ASSUME NEW blocks \in CodeSeqs, NEW b, b \in 1 .. Len(blocks), NEW xs \in Seq(AnyInstr), Flat(xs),
         NEW after, after = Emit(blocks, b, xs), NEW es, Entries(b, xs) = es
  PROVE  /\ after \in CodeSeqs /\ Len(after) = Len(blocks) /\ Content(after) = Content(blocks) \cup es
         /\ EndsOnly(blocks) /\ b \notin Finished(blocks) =>
              EndsOnly(after) /\ Finished(after) = Finished(blocks)
BY EmitInCode

\* A block is added that is complete.
LEMMA WholeBlock ==
  ASSUME NEW blocks \in CodeSeqs, NEW xs \in Seq(AnyInstr), Closing(xs),
         NEW m, m = Len(blocks) + 1, NEW es, Entries(m, xs) = es
  PROVE  /\ Append(blocks, xs) \in CodeSeqs /\ Len(Append(blocks, xs)) = m
         /\ Content(Append(blocks, xs)) = Content(blocks) \cup es
         /\ Finished(Append(blocks, xs)) = Finished(blocks) \cup {m}
         /\ EndsOnly(blocks) => EndsOnly(Append(blocks, xs))
<1>1. blocks \in Seq(Seq(AnyInstr))
  BY DEF CodeSeqs
<1>2. /\ Append(blocks, xs) \in Seq(Seq(AnyInstr)) /\ Len(Append(blocks, xs)) = Len(blocks) + 1
      /\ Content(Append(blocks, xs)) = Content(blocks) \cup Entries(Len(blocks) + 1, xs)
      /\ EndsOnly(blocks) => EndsOnly(Append(blocks, xs))
      /\ Finished(Append(blocks, xs)) = Finished(blocks) \cup {Len(blocks) + 1}
  BY <1>1, AppendBlock
<1> QED
  BY <1>2 DEF CodeSeqs

-----------------------------------------------------------------------------
\* A label gets one block, which no other label has and which is empty when new.
LEMMA LabelEffect ==
  ASSUME TypeOK, LabelsMet, NEW l \in Labels
  PROVE  /\ WithLabelBlock(l) \in CodeSeqs /\ Len(WithLabelBlock(l)) \in Nat
         /\ Len(code) <= Len(WithLabelBlock(l))
         /\ Content(WithLabelBlock(l)) = Content(code)
         /\ Finished(WithLabelBlock(l)) = Finished(code)
         /\ EndsOnly(code) => EndsOnly(WithLabelBlock(l))
         /\ LabelBlock(l) \in 1 .. Len(WithLabelBlock(l))
         /\ LabelTable(l) \in [Labels -> Nat] /\ LabelTable(l)[l] = LabelBlock(l)
         /\ \A m \in Labels : LabelTable(l)[m] <= Len(WithLabelBlock(l))
         /\ \A m \in Labels : labelBlocks[m] # 0 => LabelTable(l)[m] = labelBlocks[m]
         /\ \A m \in Labels \ {l} : LabelTable(l)[m] = labelBlocks[m]
         /\ Injective(LabelTable(l))
         /\ \A m \in Labels : LabelTable(l)[m] \in inserted <=> labelBlocks[m] \in inserted
         /\ \A b \in 1 .. Len(WithLabelBlock(l)) :
              /\ b \in 1 .. Len(code) => (HeldByLabels(LabelTable(l), inserted, b) <=> HeldByLabels(labelBlocks, inserted, b))
              /\ b \notin 1 .. Len(code) => b = LabelBlock(l) /\ HeldByLabels(LabelTable(l), inserted, b)
<1>1. PICK n \in Nat : n = Len(code)
  BY CodeType
<1>2. /\ code \in CodeSeqs /\ labelBlocks \in [Labels -> Nat] /\ inserted \subseteq 1 .. n
      /\ \A m \in Labels : labelBlocks[m] <= n
  BY <1>1, CodeType
<1>3. Injective(labelBlocks)
  BY DEF LabelsMet
<1>4. PICK table : table = LabelTable(l)
  OBVIOUS
<1>5. CASE labelBlocks[l] # 0
  <2>1. LabelBlock(l) = labelBlocks[l] /\ WithLabelBlock(l) = code /\ LabelBlock(l) \in 1 .. n
    BY <1>2, <1>5 DEF LabelBlock, WithLabelBlock
  <2>2. table = labelBlocks
    BY <1>2, <1>4, <2>1 DEF LabelTable
  <2> QED
    BY <1>1, <1>2, <1>3, <1>4, <2>1, <2>2
<1>6. CASE labelBlocks[l] = 0
  <2>1. LabelBlock(l) = n + 1 /\ WithLabelBlock(l) = Append(code, <<>>)
    BY <1>1, <1>6 DEF LabelBlock, WithLabelBlock
  <2>2. /\ table \in [Labels -> Nat] /\ table[l] = n + 1
        /\ \A m \in Labels \ {l} : table[m] = labelBlocks[m]
    BY <1>2, <1>4, <2>1 DEF LabelTable
  <2>3. /\ Append(code, <<>>) \in CodeSeqs /\ Len(Append(code, <<>>)) = n + 1
        /\ Content(Append(code, <<>>)) = Content(code) /\ Finished(Append(code, <<>>)) = Finished(code)
        /\ EndsOnly(code) => EndsOnly(Append(code, <<>>))
    BY <1>1, <1>2, EmptyBlock
  <2>4. Injective(table)
    <3>1. ASSUME NEW m \in Labels, NEW k \in Labels, table[m] # 0, table[m] = table[k]
          PROVE  m = k
      BY <1>2, <1>3, <2>2, <3>1 DEF Injective
    <3> QED
      BY <3>1 DEF Injective
  <2>5. \A m \in Labels : table[m] <= n + 1 /\ (table[m] \in inserted <=> labelBlocks[m] \in inserted)
    <3>1. ASSUME NEW m \in Labels
          PROVE  table[m] <= n + 1 /\ (table[m] \in inserted <=> labelBlocks[m] \in inserted)
      <4>1. CASE m = l
        BY <1>2, <1>6, <2>2, <4>1
      <4>2. CASE m # l
        <5>1. table[m] = labelBlocks[m] /\ labelBlocks[m] <= n /\ labelBlocks[m] \in Nat
          BY <1>2, <2>2, <4>2
        <5> QED
          BY <5>1
      <4> QED
        BY <4>1, <4>2
    <3> QED
      BY <3>1
  <2>6. ASSUME NEW b \in 1 .. n
        PROVE  HeldByLabels(table, inserted, b) <=> HeldByLabels(labelBlocks, inserted, b)
    BY <1>2, <1>6, <2>2, <2>6 DEF HeldByLabels
  <2>7. HeldByLabels(table, inserted, n + 1)
    BY <1>2, <2>2 DEF HeldByLabels
  <2>8. \A b \in 1 .. n + 1 : b \notin 1 .. n => b = n + 1
    OBVIOUS
  <2> QED
    BY <1>1, <1>4, <1>6, <2>1, <2>2, <2>3, <2>4, <2>5, <2>6, <2>7, <2>8
<1> QED
  BY <1>5, <1>6

\* Blocks that are added with a parent are not those of labels.
LEMMA LabelsStay ==
  ASSUME TypeOK, TypeOK', LabelsMet, labelBlocks' = labelBlocks, body' = body, pos' = pos + 1,
         body[pos].op # "label", inserted \subseteq inserted', inserted' \cap Blocks = inserted
  PROVE  /\ LabelsMet'
         /\ \A b \in Blocks : HeldByLabels(labelBlocks', inserted', b) <=> HeldByLabels(labelBlocks, inserted, b)
         /\ \A b \in Blocks' \ Blocks : ~HeldByLabels(labelBlocks', inserted', b)
<1>1. /\ Blocks = 1 .. Len(code) /\ Len(code) \in Nat /\ labelBlocks \in [Labels -> Nat]
      /\ inserted \subseteq Blocks /\ pos \in Nat /\ pos \in 1 .. Len(body) + 1
      /\ \A l \in Labels : labelBlocks[l] <= Len(code)
  BY CodeType
<1>2. \A l \in Labels : labelBlocks[l] \in Blocks \/ labelBlocks[l] = 0
  BY <1>1
<1>3. 0 \notin inserted' /\ 0 \notin inserted /\ 0 \notin Blocks'
  BY DEF TypeOK, Blocks
<1>4. \A l \in Labels : labelBlocks[l] \in inserted' <=> labelBlocks[l] \in inserted
  BY <1>1, <1>2, <1>3
<1>5. \A i \in DOMAIN body : Met(i, {"label"})' <=> Met(i, {"label"})
  <2>1. body \in Seq(Items) /\ \A i \in DOMAIN body : i < pos + 1 <=> i < pos \/ i = pos
    BY <1>1, CodeType
  <2> QED
    BY <2>1 DEF Met
<1>6. LabelsMet'
  BY <1>4, <1>5 DEF LabelsMet, Injective
<1> QED
  BY <1>1, <1>2, <1>3, <1>4, <1>6 DEF HeldByLabels
-----------------------------------------------------------------------------
\* What the statements met so far have left stays, and one more is met.
LEMMA JumpsKeep ==
  ASSUME TypeOK, JumpsAreThere, body' = body, pos' = pos + 1, pos \in DOMAIN body,
         Content(code) \subseteq Content(code'), inserted \subseteq inserted',
         \A l \in Labels : labelBlocks[l] # 0 => labelBlocks'[l] = labelBlocks[l],
         ~Crashes(body[pos]),
         body[pos].op = "exitfunction" =>
           \E e \in Content(code') : e[1] \in inserted' /\ e[2].op = "retvalue",
         body[pos].op \in {"goto", "gosub"} =>
           /\ labelBlocks'[body[pos].arg] # 0
           /\ \E e \in Content(code') :
                e[1] \in inserted' /\ \E k \in DOMAIN e[2].to : e[2].to[k] = labelBlocks'[body[pos].arg]
  PROVE  JumpsAreThere'
<1>1. body \in Seq(Items) /\ pos \in Nat /\ \A i \in DOMAIN body : i < pos + 1 <=> i < pos \/ i = pos
  BY CodeType
<1>2. ASSUME NEW i \in DOMAIN body, i < pos
      PROVE  /\ ~Crashes(body[i])
             /\ body[i].op = "exitfunction" => \E e \in Content(code') : e[1] \in inserted' /\ e[2].op = "retvalue"
             /\ body[i].op \in {"goto", "gosub"} =>
                  /\ labelBlocks'[body[i].arg] # 0
                  /\ \E e \in Content(code') :
                       e[1] \in inserted' /\ \E k \in DOMAIN e[2].to : e[2].to[k] = labelBlocks'[body[i].arg]
  <2>1. ~Crashes(body[i])
    BY <1>2 DEF JumpsAreThere
  <2>2. body[i].op \in {"goto", "gosub"} => body[i].arg \in Labels
    BY <2>1, CodeType, BodiesAreItems DEF Crashes, HasLabel
  <2>3. /\ body[i].op = "exitfunction" => \E e \in Content(code) : e[1] \in inserted /\ e[2].op = "retvalue"
        /\ body[i].op \in {"goto", "gosub"} =>
             /\ labelBlocks[body[i].arg] # 0
             /\ \E e \in Content(code) :
                  e[1] \in inserted /\ \E k \in DOMAIN e[2].to : e[2].to[k] = labelBlocks[body[i].arg]
    BY <1>2 DEF JumpsAreThere
  <2> QED
    BY <2>1, <2>2, <2>3
<1>3. \A i \in DOMAIN body : i < pos' <=> i < pos \/ i = pos
  BY <1>1
<1> QED
  BY <1>2, <1>3 DEF JumpsAreThere, Crashes

LEMMA NothingElseKeeps ==
  ASSUME TypeOK, NothingElse, body' = body, pos' \in Nat, pos <= pos', inserted \subseteq inserted',
         \A l \in Labels : labelBlocks[l] # 0 => labelBlocks'[l] = labelBlocks[l],
         JumpsAreThere,
         \A e \in Content(code') : e \in Content(code) \/ ForCause(e[2])'
  PROVE  NothingElse'
<1>1. body \in Seq(Items) /\ pos \in Nat /\ \A i \in DOMAIN body : i < pos => i < pos'
  BY CodeType
<1>2. \A i, ops : Met(i, ops) => Met(i, ops)'
  BY <1>1 DEF Met
<1>3. ASSUME NEW b \in 1 .. Len(code), InsideOrJump(b)
      PROVE  InsideOrJump(b)'
  <2>1. CASE b \in inserted
    BY <2>1 DEF InsideOrJump
  <2>2. CASE \E i \in DOMAIN body : Met(i, {"goto", "gosub"}) /\ labelBlocks[body[i].arg] = b
    <3>1. PICK i \in DOMAIN body : Met(i, {"goto", "gosub"}) /\ labelBlocks[body[i].arg] = b
      BY <2>2
    <3>2. ~Crashes(body[i]) /\ body[i].op \in {"goto", "gosub"}
      BY <3>1 DEF JumpsAreThere, Met
    <3>3. body[i].arg \in Labels
      BY <3>2, CodeType, BodiesAreItems DEF Crashes, HasLabel
    <3>4. labelBlocks'[body[i].arg] = b
      BY <3>1, <3>3
    <3> QED
      BY <1>2, <3>1, <3>4 DEF InsideOrJump
  <2> QED
    BY <1>3, <2>1, <2>2 DEF InsideOrJump
<1>4. ASSUME NEW e \in Content(code)
      PROVE  ForCause(e[2])'
  <2>1. ForCause(e[2])
    BY DEF NothingElse
  <2>2. \A k \in DOMAIN e[2].to : InsideOrJump(e[2].to[k])'
    BY <1>3, <2>1, TargetsAreBlocks DEF ForCause
  <2>3. e[2].op = "retvalue" => \E i \in DOMAIN body' : Met(i, {"exitfunction"})'
    BY <1>2, <2>1 DEF ForCause
  <2> QED
    BY <2>2, <2>3 DEF ForCause
<1> QED
  BY <1>4 DEF NothingElse

\* A statement that is neither a label, nor a jump to one, nor exitfunction.
LEMMA PlainStep ==
  ASSUME Building, TypeOK', NEW op, AtOp(op), Advance,
         op \notin {"label", "goto", "gosub", "exitfunction", "unhandled"},
         labelBlocks' = labelBlocks, inserted \subseteq inserted', inserted' \cap Blocks = inserted,
         Content(code) \subseteq Content(code'),
         \A e \in Content(code') :
           \/ e \in Content(code)
           \/ e[2].op # "retvalue" /\ \A k \in DOMAIN e[2].to : e[2].to[k] \in inserted',
         HeldOnce',
         NoExit /\ EndsOnly(code) /\ Finished(code) = Blocks \ Open =>
           /\ EndsOnly(code')
           /\ \A b \in Blocks' :
                b \in Finished(code') <=>
                  ~(\/ b = cur'
                    \/ b \in Blocks /\ HeldByLabels(labelBlocks, inserted, b)
                    \/ HeldByFrames(frames', b))
  PROVE  Building'
<1>1. /\ body' = body /\ pos' = pos + 1 /\ status' = "generate" /\ status = "generate"
      /\ pos \in DOMAIN body /\ body[pos].op = op
  BY CodeType DEF Advance, AtOp, Building
<1>2. /\ LabelsMet'
      /\ \A b \in Blocks : HeldByLabels(labelBlocks', inserted', b) <=> HeldByLabels(labelBlocks, inserted, b)
      /\ \A b \in Blocks' \ Blocks : ~HeldByLabels(labelBlocks', inserted', b)
  BY <1>1, LabelsStay DEF Building
<1>3. JumpsAreThere'
  <2>1. ~Crashes(body[pos])
    BY <1>1 DEF Crashes
  <2> QED
    BY <1>1, <2>1, JumpsKeep DEF Building
<1>4. NothingElse'
  <2>1. \A e \in Content(code') : e \in Content(code) \/ ForCause(e[2])'
    BY DEF ForCause, InsideOrJump
  <2>2. pos' \in Nat /\ pos <= pos'
    BY <1>1, CodeType DEF Building
  <2> QED
    BY <1>1, <2>1, <2>2, NothingElseKeeps DEF Building
<1>5. ASSUME NoExit
      PROVE  EndsOnly(code') /\ Finished(code') = Blocks' \ Open'
  <2>1. EndsOnly(code) /\ Finished(code) = Blocks \ Open
    BY <1>1, <1>5 DEF Building, Ended
  <2>2. \A b \in Blocks' :
          b \in Finished(code') <=> ~(b = cur' \/ HeldByLabels(labelBlocks', inserted', b) \/ HeldByFrames(frames', b))
    BY <1>2, <1>5, <2>1
  <2>3. Finished(code') \subseteq Blocks'
    BY DEF Finished, Blocks
  <2> QED
    BY <1>5, <2>1, <2>2, <2>3, OpenIs
<1>6. Ended' /\ Verdict'
  BY <1>1, <1>5 DEF Ended, NoExit, Verdict
<1> QED
  BY <1>2, <1>3, <1>4, <1>6 DEF Building
\* The builder's block is open, and nobody else holds it.
LEMMA CurIsOpen ==
  ASSUME Building
  PROVE  /\ Finished(code) = Blocks \ Open => cur \notin Finished(code)
         /\ ~HeldByLabels(labelBlocks, inserted, cur) /\ ~HeldByFrames(frames, cur)
         /\ \A b : HeldByFrames(frames, b) /\ b # 0 => b \in inserted
         /\ \A b : HeldByFrames(frames, b) => ~HeldByLabels(labelBlocks, inserted, b) \/ b = 0
<1>1. cur \in inserted
  BY CodeType DEF Building
<1>2. \A b : HeldByFrames(frames, b) /\ b # 0 => b \in inserted
  BY HeldIsInserted DEF Building, HeldOnce
<1> QED
  BY <1>1, <1>2, OpenIs DEF Building, HeldOnce, HeldByLabels

\* The builder's block ends and it goes on in a new one.
LEMMA DeadBlock ==
  ASSUME Building, TypeOK', NEW op, AtOp(op), Advance,
         op \notin {"label", "goto", "gosub", "exitfunction", "unhandled"},
         UNCHANGED <<frames, labelBlocks>>,
         NEW xs \in Seq(AnyInstr), Closing(xs),
         code' = Append(Emit(code, cur, xs), <<>>),
         inserted' = inserted \cup {Len(code) + 1}, cur' = Len(code) + 1,
         \A e \in Entries(cur, xs) :
           e[2].op # "retvalue" /\ \A k \in DOMAIN e[2].to : e[2].to[k] \in inserted'
  PROVE  Building'
<1>1. PICK n \in Nat : n = Len(code)
  BY CodeType DEF Building
<1>2. /\ code \in CodeSeqs /\ Blocks = 1 .. n /\ inserted \subseteq 1 .. n /\ cur \in 1 .. n /\ cur \in inserted
  BY <1>1, CodeType DEF Building
<1>3. PICK mid : mid = Emit(code, cur, xs)
  OBVIOUS
<1>4. /\ mid \in CodeSeqs /\ Len(mid) = n /\ Content(mid) = Content(code) \cup Entries(cur, xs)
      /\ EndsOnly(code) /\ cur \notin Finished(code) => EndsOnly(mid) /\ Finished(mid) = Finished(code) \cup {cur}
  BY <1>1, <1>2, <1>3, EmitInCode
<1>5. /\ Len(code') = n + 1 /\ Content(code') = Content(code) \cup Entries(cur, xs)
      /\ Finished(code') = Finished(mid)
      /\ EndsOnly(mid) => EndsOnly(code')
  BY <1>3, <1>4, EmptyBlock
<1>6. Blocks' = 1 .. n + 1 /\ inserted' = inserted \cup {n + 1} /\ cur' = n + 1
  BY <1>1, <1>5 DEF Blocks
<1>7. \A b \in 1 .. n : b # n + 1
  OBVIOUS
<1>8. inserted \subseteq inserted' /\ inserted' \cap Blocks = inserted
  BY <1>2, <1>6, <1>7
<1>9. ~HeldByFrames(frames, n + 1)
  BY <1>2, <1>7, CurIsOpen
<1>10. HeldOnce'
  BY <1>6, <1>9 DEF Building, HeldOnce
<1>11. ASSUME NoExit, EndsOnly(code), Finished(code) = Blocks \ Open
       PROVE  /\ EndsOnly(code')
              /\ \A b \in Blocks' :
                   b \in Finished(code') <=>
                     ~(\/ b = cur'
                       \/ b \in Blocks /\ HeldByLabels(labelBlocks, inserted, b)
                       \/ HeldByFrames(frames', b))
  <2>1. cur \notin Finished(code)
    BY <1>11, CurIsOpen
  <2>2. EndsOnly(code') /\ Finished(code') = Finished(code) \cup {cur}
    BY <1>4, <1>5, <1>11, <2>1
  <2>3. \A b \in 1 .. n : b \in Finished(code) <=>
          ~(b = cur \/ HeldByLabels(labelBlocks, inserted, b) \/ HeldByFrames(frames, b))
    BY <1>2, <1>11, OpenIs
  <2>4. \A b \in 1 .. n + 1 : b \in 1 .. n \/ b = n + 1
    OBVIOUS
  <2>5. n + 1 \notin Finished(code')
    BY <1>2, <1>7, <1>11, <2>2
  <2>6. ~HeldByLabels(labelBlocks, inserted, cur) /\ ~HeldByFrames(frames, cur)
    BY CurIsOpen
  <2>7. ASSUME NEW b \in 1 .. n
        PROVE  b \in Finished(code') <=> ~(HeldByLabels(labelBlocks, inserted, b) \/ HeldByFrames(frames, b))
    BY <2>2, <2>3, <2>6
  <2> QED
    BY <1>2, <1>6, <1>7, <2>2, <2>4, <2>5, <2>7
<1> QED
  BY <1>5, <1>8, <1>10, <1>11, PlainStep

LEMMA ReturnBuilds == ASSUME Building, TypeOK', GenReturn PROVE Building'
<1>1. PICK x : x = Instr("indirectbr", <<>>, Here)
  OBVIOUS
<1>2. x \in AnyInstr /\ x.op = "indirectbr" /\ x.to = <<>> /\ x.op \in Terminators
  <2>1. Here \in Points /\ "indirectbr" \in InstrOps /\ "indirectbr" \in Terminators /\ <<>> \in Seq(Nat)
    BY AtType DEF Building, GenReturn, InstrOps, Terminators
  <2> QED
    BY <1>1, <2>1, InstrIsAny DEF Instr
<1>3. /\ <<x>> \in Seq(AnyInstr) /\ Closing(<<x>>) /\ Entries(cur, <<x>>) = {<<cur, x>>}
  BY <1>2, OneInstr
<1>4. /\ AtOp("return") /\ Advance /\ UNCHANGED <<frames, labelBlocks>>
      /\ code' = Append(Emit(code, cur, <<x>>), <<>>)
      /\ inserted' = inserted \cup {Len(code) + 1} /\ cur' = Len(code) + 1
  BY <1>1 DEF GenReturn, symtab
<1>5. \A e \in Entries(cur, <<x>>) :
        e[2].op # "retvalue" /\ \A k \in DOMAIN e[2].to : e[2].to[k] \in inserted'
  BY <1>2, <1>3
<1> QED
  BY <1>3, <1>4, <1>5, DeadBlock

LEMMA EndBuilds == ASSUME Building, TypeOK', GenEnd PROVE Building'
<1>1. PICK x : x = Instr("ret", <<>>, Here)
  OBVIOUS
<1>2. x \in AnyInstr /\ x.op = "ret" /\ x.to = <<>> /\ x.op \in Terminators
  <2>1. Here \in Points /\ "ret" \in InstrOps /\ "ret" \in Terminators /\ <<>> \in Seq(Nat)
    BY AtType DEF Building, GenEnd, InstrOps, Terminators
  <2> QED
    BY <1>1, <2>1, InstrIsAny DEF Instr
<1>3. /\ <<x>> \in Seq(AnyInstr) /\ Closing(<<x>>) /\ Entries(cur, <<x>>) = {<<cur, x>>}
  BY <1>2, OneInstr
<1>4. /\ AtOp("end") /\ Advance /\ UNCHANGED <<frames, labelBlocks>>
      /\ code' = Append(Emit(code, cur, <<x>>), <<>>)
      /\ inserted' = inserted \cup {Len(code) + 1} /\ cur' = Len(code) + 1
  BY <1>1 DEF GenEnd, symtab
<1>5. \A e \in Entries(cur, <<x>>) :
        e[2].op # "retvalue" /\ \A k \in DOMAIN e[2].to : e[2].to[k] \in inserted'
  BY <1>2, <1>3
<1> QED
  BY <1>3, <1>4, <1>5, DeadBlock

LEMMA ExitBuilds == ASSUME Building, TypeOK', GenExit PROVE Building'
<1>1. PICK t : t = loopExit[Arg]
  OBVIOUS
<1>2. t \in inserted /\ t \in Nat /\ Here \in Points
  <2>1. Arg \in Loops /\ Here \in Points
    BY AtType DEF Building, GenExit, HasLoop
  <2>2. loopExit \in [Loops -> inserted \cup {0}] /\ inserted \subseteq 1 .. Len(code)
    BY CodeType DEF Building, TypeOK
  <2> QED
    BY <1>1, <2>1, <2>2 DEF GenExit
<1>3. /\ Br(t, Here) \in Seq(AnyInstr) /\ Closing(Br(t, Here))
      /\ Entries(cur, Br(t, Here)) = {<<cur, Instr("br", <<t>>, Here)>>}
  BY <1>2, BrIsAny
<1>4. PICK x : x = Instr("br", <<t>>, Here)
  OBVIOUS
<1>5. x.op = "br" /\ x.to = <<t>>
  BY <1>4 DEF Instr
<1>6. \A k \in DOMAIN x.to : x.to[k] = t
  BY <1>5
<1>7. /\ AtOp("exit") /\ Advance /\ UNCHANGED <<frames, labelBlocks>>
      /\ code' = Append(Emit(code, cur, Br(t, Here)), <<>>)
      /\ inserted' = inserted \cup {Len(code) + 1} /\ cur' = Len(code) + 1
  BY <1>1 DEF GenExit, symtab
<1>8. \A e \in Entries(cur, Br(t, Here)) :
        e[2].op # "retvalue" /\ \A k \in DOMAIN e[2].to : e[2].to[k] \in inserted'
  BY <1>2, <1>3, <1>4, <1>5, <1>6, <1>7
<1> QED
  BY <1>3, <1>7, <1>8, DeadBlock
\* What is open, by its holders.
LEMMA UnfinishedIsHeld ==
  ASSUME Building, Finished(code) = Blocks \ Open
  PROVE  \A b \in 1 .. Len(code) :
           b \in Finished(code) <=>
             ~(b = cur \/ HeldByLabels(labelBlocks, inserted, b) \/ HeldByFrames(frames, b))
BY OpenIs DEF Blocks

LEMMA ExecBuilds == ASSUME Building, TypeOK', GenExec PROVE Building'
<1>1. PICK x : x = Instr("exec", <<>>, Here)
  OBVIOUS
<1>2. x \in AnyInstr /\ x.op = "exec" /\ x.to = <<>> /\ x.op \notin Terminators
  <2>1. Here \in Points /\ "exec" \in InstrOps /\ "exec" \notin Terminators /\ <<>> \in Seq(Nat)
    BY AtType DEF Building, GenExec, InstrOps, Terminators
  <2> QED
    BY <1>1, <2>1, InstrIsAny DEF Instr
<1>3. /\ <<x>> \in Seq(AnyInstr) /\ Flat(<<x>>) /\ Entries(cur, <<x>>) = {<<cur, x>>}
  BY <1>2, OneInstr
<1>4. /\ AtOp("exec") /\ Advance /\ UNCHANGED <<frames, labelBlocks, inserted, cur>>
      /\ code' = Emit(code, cur, <<x>>)
  BY <1>1 DEF GenExec, symtab
<1>5. /\ code \in CodeSeqs /\ cur \in 1 .. Len(code) /\ Blocks = 1 .. Len(code)
      /\ inserted \subseteq Blocks
  BY CodeType DEF Building
<1>6. /\ Len(code') = Len(code) /\ Content(code') = Content(code) \cup {<<cur, x>>}
      /\ EndsOnly(code) /\ cur \notin Finished(code) => EndsOnly(code') /\ Finished(code') = Finished(code)
  <2>1. PICK xs : xs \in Seq(AnyInstr) /\ xs = <<x>> /\ Flat(xs) /\ Entries(cur, xs) = {<<cur, x>>}
    BY <1>3
  <2>2. code' = Emit(code, cur, xs)
    BY <1>4, <2>1
  <2>3. cur \in 1 .. Len(code)
    BY <1>5
  <2>4. xs \in Seq(AnyInstr) /\ Flat(xs) /\ Entries(cur, xs) = {<<cur, x>>}
    BY <2>1
  <2>5. PICK after : after = code'
    OBVIOUS
  <2>6. after = Emit(code, cur, xs)
    BY <2>2, <2>5
  <2>7. /\ Len(after) = Len(code) /\ Content(after) = Content(code) \cup {<<cur, x>>}
        /\ EndsOnly(code) /\ cur \notin Finished(code) => EndsOnly(after) /\ Finished(after) = Finished(code)
    BY ONLY <1>5, <2>3, <2>4, <2>6, GoingOn
  <2> QED
    BY <2>5, <2>7
<1>7. Blocks' = Blocks
  BY <1>6 DEF Blocks
<1>8. HeldOnce'
  BY <1>4 DEF Building, HeldOnce
<1>9. \A e \in Content(code') :
        \/ e \in Content(code)
        \/ e[2].op # "retvalue" /\ \A k \in DOMAIN e[2].to : e[2].to[k] \in inserted'
  BY <1>2, <1>6
<1>10. ASSUME NoExit, EndsOnly(code), Finished(code) = Blocks \ Open
       PROVE  /\ EndsOnly(code')
              /\ \A b \in Blocks' :
                   b \in Finished(code') <=>
                     ~(\/ b = cur'
                       \/ b \in Blocks /\ HeldByLabels(labelBlocks, inserted, b)
                       \/ HeldByFrames(frames', b))
  <2>1. EndsOnly(code') /\ Finished(code') = Finished(code)
    BY <1>6, <1>10, CurIsOpen
  <2> QED
    BY <1>4, <1>5, <1>7, <1>10, <2>1, UnfinishedIsHeld
<1>11. inserted \subseteq inserted' /\ inserted' \cap Blocks = inserted
  BY <1>4, <1>5
<1> QED
  BY <1>4, <1>6, <1>8, <1>9, <1>10, <1>11, PlainStep

\* A nested block begins in a new block, and the builder waits where it is.
LEMMA IfBuilds == ASSUME Building, TypeOK', GenIf PROVE Building'
<1>1. PICK n \in Nat : n = Len(code)
  BY CodeType DEF Building
<1>2. /\ code \in CodeSeqs /\ Blocks = 1 .. n /\ inserted \subseteq 1 .. n /\ cur \in 1 .. n /\ cur \in inserted
      /\ frames \in Seq(Frames)
  BY <1>1, CodeType DEF Building
<1>3. PICK g : g = Frame("if", n + 1, 0)
  OBVIOUS
<1>4. /\ AtOp("if") /\ Advance /\ labelBlocks' = labelBlocks
      /\ code' = Append(code, <<>>) /\ frames' = Append(frames, g)
      /\ inserted' = inserted \cup {n + 1} /\ cur' = n + 1
  BY <1>1, <1>3 DEF GenIf, Push, symtab
<1>5. g \in Frames /\ Single(g) /\ FrameOpen(g) = {cur, 0}
  <2>1. pos \in Nat /\ cur \in Nat
    BY <1>2, CodeType DEF Building
  <2> QED
    BY <1>3, <2>1 DEF Frame, Frames, Single, FrameOpen
<1>6. Len(code') = n + 1 /\ Blocks' = 1 .. n + 1
  BY <1>1, <1>2, <1>4, EmptyBlock DEF Blocks
<1>7. /\ Content(code') = Content(code) /\ Finished(code') = Finished(code)
      /\ EndsOnly(code) => EndsOnly(code')
  BY <1>2, <1>4, EmptyBlock
<1>8. /\ \A b : HeldByFrames(frames', b) <=> HeldByFrames(frames, b) \/ b \in {cur, 0}
      /\ Apart(frames')
  <2>1. \A b \in FrameOpen(g) : b = 0 \/ ~HeldByFrames(frames, b)
    BY <1>5, CurIsOpen
  <2> QED
    BY <1>2, <1>4, <1>5, <2>1, PushHolds DEF Building, HeldOnce
<1>9. /\ \A b \in 1 .. n : b # n + 1 /\ b # 0
      /\ n + 1 # 0 /\ 1 .. n + 1 = 1 .. n \cup {n + 1}
  OBVIOUS
<1>10. HeldOnce'
  <2>1. ~HeldByFrames(frames, n + 1)
    BY <1>2, <1>9, CurIsOpen
  <2> QED
    BY <1>2, <1>4, <1>8, <1>9, <2>1 DEF HeldOnce
<1>11. ASSUME NoExit, EndsOnly(code), Finished(code) = Blocks \ Open
       PROVE  /\ EndsOnly(code')
              /\ \A b \in Blocks' :
                   b \in Finished(code') <=>
                     ~(\/ b = cur'
                       \/ b \in Blocks /\ HeldByLabels(labelBlocks, inserted, b)
                       \/ HeldByFrames(frames', b))
  <2>1. \A b \in 1 .. n : b \in Finished(code) <=>
          ~(b = cur \/ HeldByLabels(labelBlocks, inserted, b) \/ HeldByFrames(frames, b))
    BY <1>1, <1>11, UnfinishedIsHeld
  <2>2. Finished(code) \subseteq 1 .. n
    BY <1>2, <1>11
  <2> QED
    BY <1>2, <1>4, <1>6, <1>7, <1>8, <1>9, <1>11, <2>1, <2>2
<1>12. inserted \subseteq inserted' /\ inserted' \cap Blocks = inserted
  BY <1>2, <1>4, <1>9
<1> QED
  BY <1>4, <1>7, <1>10, <1>11, <1>12, PlainStep

LEMMA LoopBuilds == ASSUME Building, TypeOK', GenLoop PROVE Building'
<1>1. PICK n \in Nat : n = Len(code)
  BY CodeType DEF Building
<1>2. /\ code \in CodeSeqs /\ Blocks = 1 .. n /\ inserted \subseteq 1 .. n /\ cur \in 1 .. n /\ cur \in inserted
      /\ frames \in Seq(Frames)
  BY <1>1, CodeType DEF Building
<1>3. PICK g : g = Frame("loop", n + 1, n + 2)
  OBVIOUS
<1>4. /\ AtOp("loop") /\ Advance /\ labelBlocks' = labelBlocks
      /\ code' = code \o << <<>>, <<>> >> /\ frames' = Append(frames, g)
      /\ inserted' = inserted \cup {n + 1, n + 2} /\ cur' = n + 1
  BY <1>1, <1>3 DEF GenLoop, Push
<1>5. g \in Frames /\ Single(g) /\ FrameOpen(g) = {cur, n + 2}
  <2>1. pos \in Nat /\ cur \in Nat /\ cur # n + 2 /\ n + 1 \in Nat /\ n + 2 \in Nat
    BY <1>2, CodeType DEF Building
  <2> QED
    BY <1>3, <2>1 DEF Frame, Frames, Single, FrameOpen
<1>6. /\ Len(code') = n + 2 /\ Blocks' = 1 .. n + 2
      /\ Content(code') = Content(code) /\ Finished(code') = Finished(code)
      /\ EndsOnly(code) => EndsOnly(code')
  <2>1. PICK mid : mid = Append(code, <<>>)
    OBVIOUS
  <2>2. code' = Append(mid, <<>>)
    <3>1. code \in Seq(Seq(AnyInstr)) /\ <<>> \in Seq(AnyInstr)
      BY <1>2 DEF CodeSeqs
    <3> QED
      BY <1>4, <2>1, <3>1, TwoBlocks
  <2>3. /\ mid \in CodeSeqs /\ Len(mid) = n + 1 /\ Content(mid) = Content(code) /\ Finished(mid) = Finished(code)
        /\ EndsOnly(code) => EndsOnly(mid)
    BY <1>1, <1>2, <2>1, EmptyBlock
  <2>4. /\ Len(code') = n + 1 + 1 /\ Content(code') = Content(code) /\ Finished(code') = Finished(code)
        /\ EndsOnly(code) => EndsOnly(code')
    BY <2>2, <2>3, EmptyBlock
  <2> QED
    BY <2>4 DEF Blocks
<1>7. /\ \A b : HeldByFrames(frames', b) <=> HeldByFrames(frames, b) \/ b \in {cur, n + 2}
      /\ Apart(frames')
  <2>1. ~HeldByFrames(frames, cur) /\ ~HeldByFrames(frames, n + 2)
    <3>1. n + 2 \notin 1 .. n /\ n + 2 # 0
      OBVIOUS
    <3> QED
      BY <1>2, <3>1, CurIsOpen
  <2> QED
    BY <1>2, <1>4, <1>5, <2>1, PushHolds DEF Building, HeldOnce
<1>8. /\ \A b \in 1 .. n : b # n + 1 /\ b # n + 2
      /\ n + 1 # 0 /\ n + 1 # n + 2 /\ 1 .. n + 2 = 1 .. n \cup {n + 1, n + 2}
  OBVIOUS
<1>9. ~HeldByFrames(frames, n + 1)
  BY <1>2, <1>8, CurIsOpen
<1>10. HeldOnce'
  BY <1>2, <1>4, <1>7, <1>8, <1>9 DEF HeldOnce
<1>11. ASSUME NoExit, EndsOnly(code), Finished(code) = Blocks \ Open
       PROVE  /\ EndsOnly(code')
              /\ \A b \in Blocks' :
                   b \in Finished(code') <=>
                     ~(\/ b = cur'
                       \/ b \in Blocks /\ HeldByLabels(labelBlocks, inserted, b)
                       \/ HeldByFrames(frames', b))
  <2>1. \A b \in 1 .. n : b \in Finished(code) <=>
          ~(b = cur \/ HeldByLabels(labelBlocks, inserted, b) \/ HeldByFrames(frames, b))
    BY <1>1, <1>11, UnfinishedIsHeld
  <2>2. Finished(code) \subseteq 1 .. n
    BY <1>2, <1>11
  <2> QED
    BY <1>2, <1>4, <1>6, <1>7, <1>8, <1>11, <2>1, <2>2
<1>12. inserted \subseteq inserted' /\ inserted' \cap Blocks = inserted
  BY <1>2, <1>4, <1>8
<1> QED
  BY <1>4, <1>6, <1>10, <1>11, <1>12, PlainStep
LEMMA ElseBuilds == ASSUME Building, TypeOK', GenElse PROVE Building'
<1>1. PICK n \in Nat : n = Len(code)
  BY CodeType DEF Building
<1>2. /\ code \in CodeSeqs /\ Blocks = 1 .. n /\ inserted \subseteq 1 .. n /\ cur \in 1 .. n /\ cur \in inserted
      /\ frames \in Seq(Frames)
  BY <1>1, CodeType DEF Building
<1>3. /\ frames # <<>> /\ Top \in Frames /\ FrameOK(Top) /\ Top.kind = "if"
      /\ Top = frames[Len(frames)] /\ pos \in Nat
  <2>1. frames # <<>>
    BY DEF GenElse, Closes
  <2> QED
    BY <2>1, TopType, CodeType DEF Building, GenElse, Closes, Top
<1>4. PICK rest : rest = SubSeq(frames, 1, Len(frames) - 1)
  OBVIOUS
<1>5. /\ rest \in Seq(Frames) /\ Apart(rest) /\ Single(Top)
      /\ \A b : HeldByFrames(frames, b) <=> HeldByFrames(rest, b) \/ b \in FrameOpen(Top)
      /\ \A b \in FrameOpen(Top) : b = 0 \/ ~HeldByFrames(rest, b)
  BY <1>2, <1>3, <1>4, PopHolds DEF Building, HeldOnce
<1>6. PICK outer : outer = Top.outer
  OBVIOUS
<1>7. outer \in inserted /\ FrameOpen(Top) = {outer, 0}
  BY <1>3, <1>5, <1>6 DEF FrameOK, FrameOpen, Single
<1>8. PICK g : g = [kind |-> "else", at |-> Top.at, outer |-> Top.outer, first |-> Top.first,
                    second |-> n + 1, done |-> cur, mid |-> pos]
  OBVIOUS
<1>9. /\ AtOp("else") /\ Advance /\ labelBlocks' = labelBlocks
      /\ code' = Append(code, <<>>) /\ frames' = [frames EXCEPT ![Len(frames)] = g]
      /\ inserted' = inserted \cup {n + 1} /\ cur' = n + 1
  BY <1>1, <1>8 DEF GenElse, symtab
<1>10. outer # cur
  BY <1>5, <1>7, CurIsOpen
<1>11. g \in Frames /\ Single(g) /\ FrameOpen(g) = {outer, cur}
  <2>1. cur \in Nat
    BY <1>2
  <2> QED
    BY <1>3, <1>6, <1>8, <1>10, <2>1 DEF Frames, Single, FrameOpen
<1>12. frames' = Append(rest, g)
  BY <1>2, <1>3, <1>4, <1>9, <1>11, ReplaceIsPopPush
<1>13. /\ \A b : HeldByFrames(frames', b) <=> HeldByFrames(rest, b) \/ b \in {outer, cur}
       /\ Apart(frames')
  <2>1. ~HeldByFrames(rest, cur)
    BY <1>5, CurIsOpen
  <2>2. \A b \in FrameOpen(g) : b = 0 \/ ~HeldByFrames(rest, b)
    BY <1>5, <1>7, <1>11, <2>1
  <2> QED
    BY <1>5, <1>11, <1>12, <2>2, PushHolds
<1>14. /\ \A b \in 1 .. n : b # n + 1 /\ b # 0
       /\ n + 1 # 0 /\ 1 .. n + 1 = 1 .. n \cup {n + 1}
  OBVIOUS
<1>15. HeldOnce'
  <2>1. ~HeldByFrames(frames, n + 1)
    BY <1>2, <1>14, CurIsOpen
  <2> QED
    BY <1>2, <1>5, <1>7, <1>9, <1>13, <1>14, <2>1 DEF HeldOnce
<1>16. /\ Len(code') = n + 1 /\ Blocks' = 1 .. n + 1
       /\ Content(code') = Content(code) /\ Finished(code') = Finished(code)
       /\ EndsOnly(code) => EndsOnly(code')
  BY <1>1, <1>2, <1>9, EmptyBlock DEF Blocks
<1>17. ASSUME NoExit, EndsOnly(code), Finished(code) = Blocks \ Open
       PROVE  /\ EndsOnly(code')
              /\ \A b \in Blocks' :
                   b \in Finished(code') <=>
                     ~(\/ b = cur'
                       \/ b \in Blocks /\ HeldByLabels(labelBlocks, inserted, b)
                       \/ HeldByFrames(frames', b))
  <2>1. \A b \in 1 .. n : b \in Finished(code) <=>
          ~(b = cur \/ HeldByLabels(labelBlocks, inserted, b) \/ HeldByFrames(frames, b))
    BY <1>1, <1>17, UnfinishedIsHeld
  <2>2. Finished(code) \subseteq 1 .. n
    BY <1>2, <1>17
  <2>3. \A b \in 1 .. n : b = cur \/ HeldByFrames(frames, b) <=> HeldByFrames(frames', b)
    BY <1>5, <1>7, <1>13, <1>14
  <2> QED
    BY <1>2, <1>9, <1>14, <1>16, <1>17, <2>1, <2>2, <2>3
<1>18. inserted \subseteq inserted' /\ inserted' \cap Blocks = inserted
  BY <1>2, <1>9, <1>14
<1> QED
  BY <1>9, <1>15, <1>16, <1>17, <1>18, PlainStep

\* A nested block ends: the builder that waited is where it was, or behind it.
LEMMA EndifBuilds == ASSUME Building, TypeOK', GenEndif PROVE Building'
<1>1. PICK n \in Nat : n = Len(code)
  BY CodeType DEF Building
<1>2. /\ code \in CodeSeqs /\ Blocks = 1 .. n /\ inserted \subseteq 1 .. n /\ cur \in 1 .. n /\ cur \in inserted
      /\ frames \in Seq(Frames)
  BY <1>1, CodeType DEF Building
<1>3. /\ frames # <<>> /\ Top \in Frames /\ FrameOK(Top) /\ Top.kind = "else"
      /\ Top = frames[Len(frames)]
  <2>1. frames # <<>>
    BY DEF GenEndif, Closes
  <2> QED
    BY <2>1, TopType, CodeType DEF Building, GenEndif, Closes, Top
<1>4. /\ frames' \in Seq(Frames) /\ Apart(frames') /\ Single(Top)
      /\ \A b : HeldByFrames(frames, b) <=> HeldByFrames(frames', b) \/ b \in FrameOpen(Top)
      /\ \A b \in FrameOpen(Top) : b = 0 \/ ~HeldByFrames(frames', b)
  <2>1. frames' = SubSeq(frames, 1, Len(frames) - 1)
    BY DEF GenEndif, Pop
  <2> QED
    BY <1>2, <1>3, <2>1, PopHolds DEF Building, HeldOnce
<1>5. PICK t : t = Top
  OBVIOUS
<1>6. /\ t.outer \in inserted /\ t.done \in inserted /\ t.outer # t.done /\ FrameOpen(Top) = {t.outer, t.done}
      /\ t.first \in inserted /\ t.second \in inserted /\ t.at \in Nat /\ t.mid \in Nat
  BY <1>3, <1>4, <1>5 DEF FrameOK, FrameOpen, Single, Frames
<1>7. PICK x : x = Instr("choice", <<t.first, t.second>>, Stmt(t.at))
  OBVIOUS
<1>8. PICK y : y = Br(n + 1, Stmt(t.mid))
  OBVIOUS
<1>9. PICK z : z = Br(n + 1, Here)
  OBVIOUS
<1>10. PICK c0 : c0 = Append(code, <<>>)
  OBVIOUS
<1>11. PICK c1 : c1 = Emit(c0, t.outer, <<x>>)
  OBVIOUS
<1>12. PICK c2 : c2 = Emit(c1, t.done, y)
  OBVIOUS
<1>13. /\ AtOp("endif") /\ Advance /\ labelBlocks' = labelBlocks
       /\ code' = Emit(c2, cur, z)
       /\ inserted' = inserted \cup {n + 1} /\ cur' = n + 1
  BY <1>1, <1>5, <1>7, <1>8, <1>9, <1>10, <1>11, <1>12 DEF GenEndif, symtab
<1>14. /\ x \in AnyInstr /\ x.op = "choice" /\ x.to = <<t.first, t.second>> /\ x.op \in Terminators
       /\ \A k \in DOMAIN x.to : x.to[k] \in inserted
  <2>1. Stmt(t.at) \in Points /\ "choice" \in InstrOps /\ "choice" \in Terminators
    BY <1>6 DEF Stmt, Points, InstrOps, Terminators
  <2>2. <<t.first, t.second>> \in Seq(Nat)
    <3>1. t.first \in Nat /\ t.second \in Nat
      BY <1>2, <1>6, 1 .. n \subseteq Nat
    <3> QED
      BY <3>1
  <2>3. x \in AnyInstr /\ x.op = "choice" /\ x.to = <<t.first, t.second>>
    BY <1>7, <2>1, <2>2, InstrIsAny DEF Instr
  <2> QED
    BY <1>6, <2>1, <2>3
<1>15. PICK xs : xs \in Seq(AnyInstr) /\ xs = <<x>> /\ Closing(xs) /\ Entries(t.outer, xs) = {<<t.outer, x>>}
  BY <1>14, OneInstr
<1>16. PICK u : u = Instr("br", <<n + 1>>, Stmt(t.mid))
  OBVIOUS
<1>17. PICK v : v = Instr("br", <<n + 1>>, Here)
  OBVIOUS
<1>18. /\ y \in Seq(AnyInstr) /\ Closing(y) /\ Entries(t.done, y) = {<<t.done, u>>}
       /\ z \in Seq(AnyInstr) /\ Closing(z) /\ Entries(cur, z) = {<<cur, v>>}
  <2>1. Stmt(t.mid) \in Points /\ Here \in Points /\ n + 1 \in Nat
    BY <1>6, <1>13, AtType DEF Stmt, Points, Building
  <2> QED
    BY <1>8, <1>9, <1>16, <1>17, <2>1, BrIsAny
<1>19. u.op = "br" /\ v.op = "br" /\ (\A k \in DOMAIN u.to : u.to[k] = n + 1) /\ (\A k \in DOMAIN v.to : v.to[k] = n + 1)
  BY <1>16, <1>17 DEF Instr
<1>20. /\ \A b \in 1 .. n : b # n + 1 /\ b # 0 /\ b \in 1 .. n + 1
       /\ n + 1 # 0 /\ 1 .. n + 1 = 1 .. n \cup {n + 1}
  OBVIOUS
<1>21. /\ c0 \in CodeSeqs /\ Len(c0) = n + 1 /\ Content(c0) = Content(code) /\ Finished(c0) = Finished(code)
       /\ EndsOnly(code) => EndsOnly(c0)
  BY <1>1, <1>2, <1>10, EmptyBlock
<1>22. t.outer \in 1 .. n + 1 /\ t.done \in 1 .. n + 1 /\ cur \in 1 .. n + 1
  BY <1>2, <1>6, <1>20
<1>23. /\ c1 \in CodeSeqs /\ Len(c1) = n + 1 /\ Content(c1) = Content(code) \cup {<<t.outer, x>>}
       /\ EndsOnly(code) /\ t.outer \notin Finished(code) => EndsOnly(c1) /\ Finished(c1) = Finished(code) \cup {t.outer}
  <2>1. c1 = Emit(c0, t.outer, xs)
    BY <1>11, <1>15
  <2>2. t.outer \in 1 .. Len(c0)
    BY <1>21, <1>22
  <2>3. /\ c1 \in CodeSeqs /\ Len(c1) = Len(c0) /\ Content(c1) = Content(c0) \cup {<<t.outer, x>>}
        /\ EndsOnly(c0) /\ t.outer \notin Finished(c0) => EndsOnly(c1) /\ Finished(c1) = Finished(c0) \cup {t.outer}
    <3>1. xs \in Seq(AnyInstr) /\ Closing(xs) /\ Entries(t.outer, xs) = {<<t.outer, x>>}
      BY <1>15
    <3> QED
      BY ONLY <1>21, <2>1, <2>2, <3>1, Ending
  <2> QED
    BY <1>21, <2>3
<1>24. /\ c2 \in CodeSeqs /\ Len(c2) = n + 1 /\ Content(c2) = Content(code) \cup {<<t.outer, x>>, <<t.done, u>>}
       /\ EndsOnly(c1) /\ t.done \notin Finished(c1) => EndsOnly(c2) /\ Finished(c2) = Finished(c1) \cup {t.done}
  <2>1. /\ c2 \in CodeSeqs /\ Len(c2) = n + 1 /\ Content(c2) = Content(c1) \cup {<<t.done, u>>}
        /\ EndsOnly(c1) /\ t.done \notin Finished(c1) => EndsOnly(c2) /\ Finished(c2) = Finished(c1) \cup {t.done}
    <3>1. t.done \in 1 .. Len(c1)
      BY <1>22, <1>23
    <3> QED
      BY ONLY <1>12, <1>18, <1>23, <3>1, Ending
  <2> QED
    BY <1>23, <2>1
<1>25. /\ Len(code') = n + 1
       /\ Content(code') = Content(code) \cup {<<t.outer, x>>, <<t.done, u>>, <<cur, v>>}
       /\ EndsOnly(c2) /\ cur \notin Finished(c2) => EndsOnly(code') /\ Finished(code') = Finished(c2) \cup {cur}
  <2>1. /\ Len(code') = n + 1 /\ Content(code') = Content(c2) \cup {<<cur, v>>}
        /\ EndsOnly(c2) /\ cur \notin Finished(c2) => EndsOnly(code') /\ Finished(code') = Finished(c2) \cup {cur}
    <3>1. cur \in 1 .. Len(c2) /\ code' = Emit(c2, cur, z)
      BY <1>13, <1>22, <1>24
    <3>2. PICK after : after = code'
      OBVIOUS
    <3>3. after = Emit(c2, cur, z)
      BY <3>1, <3>2
    <3>4. /\ Len(after) = Len(c2) /\ Content(after) = Content(c2) \cup {<<cur, v>>}
          /\ EndsOnly(c2) /\ cur \notin Finished(c2) => EndsOnly(after) /\ Finished(after) = Finished(c2) \cup {cur}
      BY ONLY SMTT(30), <1>18, <1>24, <3>1, <3>3, Ending
    <3> QED
      BY <1>24, <3>2, <3>4
  <2> QED
    BY <1>24, <2>1
<1>26. Blocks' = 1 .. n + 1
  BY <1>25 DEF Blocks
<1>27. ~HeldByFrames(frames, cur) /\ t.outer # cur /\ t.done # cur
  BY <1>4, <1>6, CurIsOpen
<1>28. HeldOnce'
  <2>1. ~HeldByFrames(frames, n + 1)
    BY <1>2, <1>20, CurIsOpen
  <2> QED
    BY <1>4, <1>13, <2>1 DEF HeldOnce
<1>29. ASSUME NoExit, EndsOnly(code), Finished(code) = Blocks \ Open
       PROVE  /\ EndsOnly(code')
              /\ \A b \in Blocks' :
                   b \in Finished(code') <=>
                     ~(\/ b = cur'
                       \/ b \in Blocks /\ HeldByLabels(labelBlocks, inserted, b)
                       \/ HeldByFrames(frames', b))
  <2>1. \A b \in 1 .. n : b \in Finished(code) <=>
          ~(b = cur \/ HeldByLabels(labelBlocks, inserted, b) \/ HeldByFrames(frames, b))
    BY <1>1, <1>29, UnfinishedIsHeld
  <2>2. Finished(code) \subseteq 1 .. n
    BY <1>2, <1>29
  <2>3. t.outer \notin Finished(code) /\ t.done \notin Finished(code) /\ cur \notin Finished(code)
    BY <1>2, <1>4, <1>6, <2>1
  <2>4. EndsOnly(code') /\ Finished(code') = Finished(code) \cup {t.outer, t.done, cur}
    BY <1>6, <1>23, <1>24, <1>25, <1>27, <1>29, <2>3
  <2>5. ~HeldByFrames(frames', t.outer) /\ ~HeldByFrames(frames', t.done) /\ ~HeldByFrames(frames', cur)
    BY <1>2, <1>4, <1>6, <1>20, <1>27
  <2>6. \A b \in {t.outer, t.done, cur} : ~HeldByLabels(labelBlocks, inserted, b)
    BY <1>2, <1>6 DEF HeldByLabels
  <2> QED
    BY <1>2, <1>4, <1>6, <1>13, <1>20, <1>26, <2>1, <2>2, <2>4, <2>5, <2>6
<1>30. inserted \subseteq inserted' /\ inserted' \cap Blocks = inserted
  BY <1>2, <1>13, <1>20
<1>31. \A e \in Content(code') :
         \/ e \in Content(code)
         \/ e[2].op # "retvalue" /\ \A k \in DOMAIN e[2].to : e[2].to[k] \in inserted'
  BY <1>13, <1>14, <1>19, <1>25
<1> QED
  BY <1>13, <1>25, <1>28, <1>29, <1>30, <1>31, PlainStep
LEMMA EndloopBuilds == ASSUME Building, TypeOK', GenEndloop PROVE Building'
<1>1. PICK n \in Nat : n = Len(code)
  BY CodeType DEF Building
<1>2. /\ code \in CodeSeqs /\ Blocks = 1 .. n /\ inserted \subseteq 1 .. n /\ cur \in 1 .. n /\ cur \in inserted
      /\ frames \in Seq(Frames)
  BY <1>1, CodeType DEF Building
<1>3. /\ frames # <<>> /\ Top \in Frames /\ FrameOK(Top) /\ Top.kind = "loop"
      /\ Top = frames[Len(frames)]
  <2>1. frames # <<>>
    BY DEF GenEndloop, Closes
  <2> QED
    BY <2>1, TopType, CodeType DEF Building, GenEndloop, Closes, Top
<1>4. /\ frames' \in Seq(Frames) /\ Apart(frames') /\ Single(Top)
      /\ \A b : HeldByFrames(frames, b) <=> HeldByFrames(frames', b) \/ b \in FrameOpen(Top)
      /\ \A b \in FrameOpen(Top) : b = 0 \/ ~HeldByFrames(frames', b)
  <2>1. frames' = SubSeq(frames, 1, Len(frames) - 1)
    BY DEF GenEndloop, Pop
  <2> QED
    BY <1>2, <1>3, <2>1, PopHolds DEF Building, HeldOnce
<1>5. PICK t : t = Top
  OBVIOUS
<1>6. /\ t.outer \in inserted /\ t.second \in inserted /\ t.outer # t.second
      /\ FrameOpen(Top) = {t.outer, t.second} /\ t.first \in inserted /\ t.at \in Nat
  BY <1>3, <1>4, <1>5 DEF FrameOK, FrameOpen, Single, Frames
<1>7. PICK y : y = Br(t.first, Stmt(t.at))
  OBVIOUS
<1>8. PICK z : z = Br(t.first, Here)
  OBVIOUS
<1>9. PICK c1 : c1 = Emit(code, t.outer, y)
  OBVIOUS
<1>10. PICK c2 : c2 = Emit(c1, cur, z)
  OBVIOUS
<1>11. /\ AtOp("endloop") /\ Advance /\ labelBlocks' = labelBlocks /\ inserted' = inserted
       /\ code' = c2 /\ cur' = t.second
  BY <1>5, <1>7, <1>8, <1>9, <1>10 DEF GenEndloop, symtab
<1>12. PICK u : u = Instr("br", <<t.first>>, Stmt(t.at))
  OBVIOUS
<1>13. PICK v : v = Instr("br", <<t.first>>, Here)
  OBVIOUS
<1>14. /\ y \in Seq(AnyInstr) /\ Closing(y) /\ Entries(t.outer, y) = {<<t.outer, u>>}
       /\ z \in Seq(AnyInstr) /\ Closing(z) /\ Entries(cur, z) = {<<cur, v>>}
  <2>1. Stmt(t.at) \in Points /\ Here \in Points /\ t.first \in Nat
    <3>1. t.first \in 1 .. n
      BY <1>2, <1>6
    <3> QED
      BY <1>6, <1>11, <3>1, AtType DEF Stmt, Points, Building
  <2> QED
    BY <1>7, <1>8, <1>12, <1>13, <2>1, BrIsAny
<1>15. /\ u.op = "br" /\ v.op = "br"
       /\ (\A k \in DOMAIN u.to : u.to[k] = t.first) /\ (\A k \in DOMAIN v.to : v.to[k] = t.first)
  BY <1>12, <1>13 DEF Instr
<1>16. /\ c1 \in CodeSeqs /\ Len(c1) = n /\ Content(c1) = Content(code) \cup {<<t.outer, u>>}
       /\ EndsOnly(code) /\ t.outer \notin Finished(code) => EndsOnly(c1) /\ Finished(c1) = Finished(code) \cup {t.outer}
  <2>1. t.outer \in 1 .. Len(code)
    BY <1>1, <1>2, <1>6
  <2>2. /\ c1 \in CodeSeqs /\ Len(c1) = Len(code) /\ Content(c1) = Content(code) \cup {<<t.outer, u>>}
        /\ EndsOnly(code) /\ t.outer \notin Finished(code) => EndsOnly(c1) /\ Finished(c1) = Finished(code) \cup {t.outer}
    BY ONLY <1>2, <1>9, <1>14, <2>1, Ending
  <2> QED
    BY <1>1, <2>2
<1>17. /\ c2 \in CodeSeqs /\ Len(c2) = n /\ Content(c2) = Content(code) \cup {<<t.outer, u>>, <<cur, v>>}
       /\ EndsOnly(c1) /\ cur \notin Finished(c1) => EndsOnly(c2) /\ Finished(c2) = Finished(c1) \cup {cur}
  <2>1. cur \in 1 .. Len(c1)
    BY <1>2, <1>16
  <2>2. /\ c2 \in CodeSeqs /\ Len(c2) = Len(c1) /\ Content(c2) = Content(c1) \cup {<<cur, v>>}
        /\ EndsOnly(c1) /\ cur \notin Finished(c1) => EndsOnly(c2) /\ Finished(c2) = Finished(c1) \cup {cur}
    <3>1. c1 \in CodeSeqs /\ z \in Seq(AnyInstr) /\ Closing(z) /\ Entries(cur, z) = {<<cur, v>>}
      BY <1>14, <1>16
    <3> QED
      BY ONLY <1>10, <2>1, <3>1, Ending
  <2> QED
    BY <1>16, <2>2
<1>18. Blocks' = 1 .. n
  BY <1>11, <1>17 DEF Blocks
<1>19. ~HeldByFrames(frames, cur) /\ t.outer # cur /\ t.second # cur /\ \A b \in 1 .. n : b # 0
  BY <1>4, <1>6, CurIsOpen
<1>20. ~HeldByFrames(frames', t.second) /\ ~HeldByFrames(frames', t.outer) /\ ~HeldByFrames(frames', cur)
  BY <1>2, <1>4, <1>6, <1>19
<1>21. HeldOnce'
  BY <1>4, <1>11, <1>20 DEF HeldOnce
<1>22. ASSUME NoExit, EndsOnly(code), Finished(code) = Blocks \ Open
       PROVE  /\ EndsOnly(code')
              /\ \A b \in Blocks' :
                   b \in Finished(code') <=>
                     ~(\/ b = cur'
                       \/ b \in Blocks /\ HeldByLabels(labelBlocks, inserted, b)
                       \/ HeldByFrames(frames', b))
  <2>1. \A b \in 1 .. n : b \in Finished(code) <=>
          ~(b = cur \/ HeldByLabels(labelBlocks, inserted, b) \/ HeldByFrames(frames, b))
    BY <1>1, <1>22, UnfinishedIsHeld
  <2>2. t.outer \notin Finished(code) /\ cur \notin Finished(code)
    BY <1>2, <1>4, <1>6, <2>1
  <2>3. EndsOnly(code') /\ Finished(code') = Finished(code) \cup {t.outer, cur}
    BY <1>11, <1>16, <1>17, <1>19, <1>22, <2>2
  <2>4. \A b \in {t.outer, t.second, cur} : ~HeldByLabels(labelBlocks, inserted, b)
    BY <1>2, <1>6 DEF HeldByLabels
  <2> QED
    BY <1>2, <1>4, <1>6, <1>11, <1>18, <1>19, <1>20, <2>1, <2>3, <2>4
<1>23. inserted \subseteq inserted' /\ inserted' \cap Blocks = inserted
  BY <1>2, <1>11
<1>24. \A e \in Content(code') :
         \/ e \in Content(code)
         \/ e[2].op # "retvalue" /\ \A k \in DOMAIN e[2].to : e[2].to[k] \in inserted'
  BY <1>6, <1>11, <1>15, <1>17
<1> QED
  BY <1>11, <1>17, <1>21, <1>22, <1>23, <1>24, PlainStep

LEMMA NextBuilds == ASSUME Building, TypeOK', GenNext PROVE Building'
<1>1. PICK n \in Nat : n = Len(code)
  BY CodeType DEF Building
<1>2. /\ code \in CodeSeqs /\ Blocks = 1 .. n /\ inserted \subseteq 1 .. n /\ cur \in 1 .. n /\ cur \in inserted
      /\ frames \in Seq(Frames)
  BY <1>1, CodeType DEF Building
<1>3. /\ frames # <<>> /\ Top \in Frames /\ FrameOK(Top) /\ Top.kind = "for"
      /\ Top = frames[Len(frames)]
  <2>1. frames # <<>>
    BY DEF GenNext, Closes
  <2> QED
    BY <2>1, TopType, CodeType DEF Building, GenNext, Closes, Top
<1>4. /\ frames' \in Seq(Frames) /\ Apart(frames')
      /\ \A b : HeldByFrames(frames, b) <=> HeldByFrames(frames', b) \/ b \in FrameOpen(Top)
      /\ \A b \in FrameOpen(Top) : b = 0 \/ ~HeldByFrames(frames', b)
  <2>1. frames' = SubSeq(frames, 1, Len(frames) - 1)
    BY DEF GenNext, Pop
  <2> QED
    BY <1>2, <1>3, <2>1, PopHolds DEF Building, HeldOnce
<1>5. PICK t : t = Top
  OBVIOUS
<1>6. /\ t.second \in inserted /\ FrameOpen(Top) = {t.second} /\ t.first \in inserted /\ t.at \in Nat
      /\ body[t.at].arg \in Loops
  BY <1>3, <1>5, CodeType, BodiesAreItems DEF FrameOK, FrameOpen, Frames, Building, HasLoop
<1>7. PICK x : x = ForInstr("step", <<>>, Here, body[t.at].arg)
  OBVIOUS
<1>8. PICK y : y = Br(n + 1, Here)
  OBVIOUS
<1>9. PICK z : z = <<x>> \o Br(t.first, Test(t.at))
  OBVIOUS
<1>10. PICK c1 : c1 = Emit(code, cur, y)
  OBVIOUS
<1>11. PICK c2 : c2 = Append(c1, z)
  OBVIOUS
<1>12. /\ AtOp("next") /\ Advance /\ labelBlocks' = labelBlocks /\ inserted' = inserted \cup {n + 1}
       /\ code' = c2 /\ cur' = t.second
  BY <1>1, <1>5, <1>7, <1>8, <1>9, <1>10, <1>11 DEF GenNext, BackEdge, symtab
<1>13. PICK u : u = Instr("br", <<n + 1>>, Here)
  OBVIOUS
<1>14. PICK v : v = Instr("br", <<t.first>>, Test(t.at))
  OBVIOUS
<1>15. /\ x \in AnyInstr /\ x.op = "step" /\ x.to = <<>>
       /\ y \in Seq(AnyInstr) /\ Closing(y) /\ Entries(cur, y) = {<<cur, u>>}
       /\ z \in Seq(AnyInstr) /\ Closing(z) /\ Entries(n + 1, z) = {<<n + 1, x>>, <<n + 1, v>>}
  <2>1. Test(t.at) \in Points /\ Here \in Points /\ t.first \in Nat /\ n + 1 \in Nat
    <3>1. t.first \in 1 .. n
      BY <1>2, <1>6
    <3> QED
      BY <1>6, <1>12, <3>1, AtType DEF Test, Points, Building
  <2>2. "step" \in InstrOps /\ "step" \notin Terminators /\ <<>> \in Seq(Nat)
    BY DEF InstrOps, Terminators
  <2>3. x \in AnyInstr /\ x.op = "step" /\ x.to = <<>>
    BY <1>6, <1>7, <2>1, <2>2, InstrIsAny DEF ForInstr
  <2>4. x.op \notin Terminators
    BY <2>2, <2>3
  <2>5. z \in Seq(AnyInstr) /\ Closing(z) /\ Entries(n + 1, z) = {<<n + 1, x>>, <<n + 1, v>>}
    BY ZenonT(60), <1>9, <1>14, <2>1, <2>3, <2>4, ThenBr
  <2> QED
    BY <1>8, <1>13, <2>1, <2>3, <2>5, BrIsAny
<1>16. /\ u.op = "br" /\ v.op = "br"
       /\ (\A k \in DOMAIN u.to : u.to[k] = n + 1) /\ (\A k \in DOMAIN v.to : v.to[k] = t.first)
  BY <1>13, <1>14 DEF Instr
<1>17. /\ c1 \in CodeSeqs /\ Len(c1) = n /\ Content(c1) = Content(code) \cup {<<cur, u>>}
       /\ EndsOnly(code) /\ cur \notin Finished(code) => EndsOnly(c1) /\ Finished(c1) = Finished(code) \cup {cur}
  <2>1. cur \in 1 .. Len(code)
    BY <1>1, <1>2
  <2>2. /\ c1 \in CodeSeqs /\ Len(c1) = Len(code) /\ Content(c1) = Content(code) \cup {<<cur, u>>}
        /\ EndsOnly(code) /\ cur \notin Finished(code) => EndsOnly(c1) /\ Finished(c1) = Finished(code) \cup {cur}
    BY ONLY <1>2, <1>10, <1>15, <2>1, Ending
  <2> QED
    BY <1>1, <2>2
<1>18. /\ c2 \in CodeSeqs /\ Len(c2) = n + 1
       /\ Content(c2) = Content(code) \cup {<<cur, u>>, <<n + 1, x>>, <<n + 1, v>>}
       /\ Finished(c2) = Finished(c1) \cup {n + 1}
       /\ EndsOnly(c1) => EndsOnly(c2)
  <2>1. PICK es : es = {<<n + 1, x>>, <<n + 1, v>>}
    OBVIOUS
  <2>2. PICK m : m = n + 1
    OBVIOUS
  <2>3. /\ c1 \in CodeSeqs /\ z \in Seq(AnyInstr) /\ Closing(z) /\ m = Len(c1) + 1
        /\ Entries(m, z) = es
    BY <1>15, <1>17, <2>1, <2>2
  <2>4. /\ c2 \in CodeSeqs /\ Len(c2) = m /\ Content(c2) = Content(c1) \cup es
        /\ Finished(c2) = Finished(c1) \cup {m}
        /\ EndsOnly(c1) => EndsOnly(c2)
    <3>1. /\ Append(c1, z) \in CodeSeqs /\ Len(Append(c1, z)) = m
          /\ Content(Append(c1, z)) = Content(c1) \cup es
          /\ Finished(Append(c1, z)) = Finished(c1) \cup {m}
          /\ EndsOnly(c1) => EndsOnly(Append(c1, z))
      BY ONLY <2>3, WholeBlock
    <3> QED
      BY ONLY <1>11, <3>1, Zenon
  <2> QED
    BY <1>17, <2>1, <2>2, <2>4
<1>19. /\ Blocks' = 1 .. n + 1
       /\ \A b \in 1 .. n : b # n + 1 /\ b # 0
       /\ n + 1 # 0 /\ 1 .. n + 1 = 1 .. n \cup {n + 1}
  BY <1>12, <1>18 DEF Blocks
<1>20. ~HeldByFrames(frames, cur) /\ t.second # cur /\ ~HeldByFrames(frames, n + 1)
  <2>1. n + 1 \notin inserted /\ n + 1 # 0
    BY <1>2, <1>19
  <2> QED
    BY <1>4, <1>6, <2>1, CurIsOpen
<1>21. ~HeldByFrames(frames', t.second) /\ ~HeldByFrames(frames', cur) /\ ~HeldByFrames(frames', n + 1)
  BY <1>2, <1>4, <1>6, <1>19, <1>20
<1>22. HeldOnce'
  BY <1>4, <1>12, <1>21 DEF HeldOnce
<1>23. ASSUME NoExit, EndsOnly(code), Finished(code) = Blocks \ Open
       PROVE  /\ EndsOnly(code')
              /\ \A b \in Blocks' :
                   b \in Finished(code') <=>
                     ~(\/ b = cur'
                       \/ b \in Blocks /\ HeldByLabels(labelBlocks, inserted, b)
                       \/ HeldByFrames(frames', b))
  <2>1. \A b \in 1 .. n : b \in Finished(code) <=>
          ~(b = cur \/ HeldByLabels(labelBlocks, inserted, b) \/ HeldByFrames(frames, b))
    BY <1>1, <1>23, UnfinishedIsHeld
  <2>2. cur \notin Finished(code)
    BY <1>2, <2>1
  <2>3. EndsOnly(code') /\ Finished(code') = Finished(code) \cup {cur, n + 1}
    BY <1>12, <1>17, <1>18, <1>23, <2>2
  <2>4. \A b \in {t.second, cur} : ~HeldByLabels(labelBlocks, inserted, b)
    BY <1>2, <1>6 DEF HeldByLabels
  <2>5. \A b \in 1 .. n : b \in Finished(code') <=>
          ~(b = cur' \/ HeldByLabels(labelBlocks, inserted, b) \/ HeldByFrames(frames', b))
    BY <1>2, <1>4, <1>6, <1>12, <1>19, <1>20, <1>21, <2>1, <2>3, <2>4
  <2>6. n + 1 \in Finished(code') /\ n + 1 # cur' /\ n + 1 \notin Blocks
    BY <1>2, <1>6, <1>12, <1>19, <2>3
  <2> QED
    BY <1>2, <1>19, <1>21, <2>3, <2>5, <2>6
<1>24. inserted \subseteq inserted' /\ inserted' \cap Blocks = inserted
  BY <1>2, <1>12, <1>19
<1>25. \A e \in Content(code') :
         \/ e \in Content(code)
         \/ e[2].op # "retvalue" /\ \A k \in DOMAIN e[2].to : e[2].to[k] \in inserted'
  BY <1>6, <1>12, <1>15, <1>16, <1>18
<1> QED
  BY <1>12, <1>18, <1>22, <1>23, <1>24, <1>25, PlainStep
\* A for loop leaves the builder's block for its condition, which is complete.
LEMMA ForCode ==
  ASSUME Building, GenFor, NEW n \in Nat, n = Len(code)
  PROVE  /\ Len(code') = n + 6
         /\ Content(code) \subseteq Content(code')
         /\ \A e \in Content(code') :
              e \in Content(code) \/ (e[2].op # "retvalue" /\ \A k \in DOMAIN e[2].to : e[2].to[k] \in n + 1 .. n + 6)
         /\ EndsOnly(code) /\ cur \notin Finished(code) =>
              EndsOnly(code') /\ Finished(code') = Finished(code) \cup {cur, n + 1, n + 2, n + 3, n + 4}
<1>1. /\ Test(pos) \in Points /\ Here \in Points /\ Arg \in Loops
      /\ code \in CodeSeqs /\ cur \in 1 .. n
  BY AtType, CodeType DEF Building, GenFor, HasLoop
<1>2. PICK at : at = Test(pos)
  OBVIOUS
<1>3. PICK l : l = Arg
  OBVIOUS
<1>4. PICK x : x = ForInstr("init", <<>>, Here, l)
  OBVIOUS
<1>5. PICK xs : xs = <<x>> \o Br(n + 1, at)
  OBVIOUS
<1>6. PICK y : y = Instr("br", <<n + 1>>, at)
  OBVIOUS
<1>7. PICK w1 : w1 = ForInstr("positive", <<n + 2, n + 3>>, at, l)
  OBVIOUS
<1>8. PICK w2 : w2 = ForInstr("notAbove", <<n + 5, n + 6>>, at, l)
  OBVIOUS
<1>9. PICK w3 : w3 = ForInstr("negative", <<n + 4, n + 6>>, at, l)
  OBVIOUS
<1>10. PICK w4 : w4 = ForInstr("notBelow", <<n + 5, n + 6>>, at, l)
  OBVIOUS
<1>11. /\ n + 1 \in Nat /\ n + 2 \in Nat /\ n + 3 \in Nat /\ n + 4 \in Nat /\ n + 5 \in Nat /\ n + 6 \in Nat
       /\ {n + 1, n + 2, n + 3, n + 4, n + 5, n + 6} \subseteq n + 1 .. n + 6
  OBVIOUS
<1>12. /\ x \in AnyInstr /\ x.op = "init" /\ x.to = <<>>
       /\ xs \in Seq(AnyInstr) /\ Closing(xs) /\ Entries(cur, xs) = {<<cur, x>>, <<cur, y>>}
  <2>1. "init" \in InstrOps /\ "init" \notin Terminators /\ <<>> \in Seq(Nat)
    BY DEF InstrOps, Terminators
  <2>2. x \in AnyInstr /\ x.op = "init" /\ x.to = <<>>
    BY <1>1, <1>3, <1>4, <2>1, InstrIsAny DEF ForInstr
  <2>3. x.op \notin Terminators /\ at \in Points
    BY <1>1, <1>2, <2>1, <2>2
  <2>4. PICK t : t = n + 1
    OBVIOUS
  <2>5. x \in AnyInstr /\ x.op \notin Terminators /\ t \in Nat /\ at \in Points
    BY <1>11, <2>2, <2>3, <2>4
  <2>6. /\ <<x>> \o Br(t, at) \in Seq(AnyInstr) /\ Closing(<<x>> \o Br(t, at))
        /\ Entries(cur, <<x>> \o Br(t, at)) = {<<cur, x>>, <<cur, Instr("br", <<t>>, at)>>}
    BY ONLY <2>5, ThenBr, ZenonT(60)
  <2> QED
    BY ONLY <1>5, <1>6, <2>2, <2>4, <2>6, Zenon
<1>13. y.op = "br" /\ \A k \in DOMAIN y.to : y.to[k] = n + 1
  BY <1>6 DEF Instr
<1>14. /\ <<w1>> \in Seq(AnyInstr) /\ Closing(<<w1>>) /\ Entries(n + 1, <<w1>>) = {<<n + 1, w1>>}
       /\ w1.op # "retvalue" /\ \A k \in DOMAIN w1.to : w1.to[k] \in {n + 2, n + 3}
  <2>1. PICK to : to = <<n + 2, n + 3>>
    OBVIOUS
  <2>2. to \in Seq(Nat) /\ \A k \in DOMAIN to : to[k] \in {n + 2, n + 3}
    BY <1>11, <2>1
  <2>3. "positive" \in InstrOps /\ "positive" \in Terminators
    BY DEF InstrOps, Terminators
  <2>4. w1 = ForInstr("positive", to, at, l) /\ at \in Points /\ l \in Loops
    BY <1>1, <1>2, <1>3, <1>7, <2>1, Zenon
  <2>5. w1 \in AnyInstr /\ w1.op = "positive" /\ w1.to = to
    BY ONLY <2>2, <2>3, <2>4 DEF ForInstr, AnyInstr
  <2>6. PICK b : b = n + 1
    OBVIOUS
  <2>7. <<w1>> \in Seq(AnyInstr) /\ Closing(<<w1>>) /\ Entries(b, <<w1>>) = {<<b, w1>>}
    BY ONLY <2>3, <2>5, OneInstr
  <2>8. w1.op # "retvalue" /\ \A k \in DOMAIN w1.to : w1.to[k] \in {n + 2, n + 3}
    BY ONLY <2>2, <2>5
  <2> QED
    BY ONLY <2>6, <2>7, <2>8, Zenon
<1>15. /\ <<w2>> \in Seq(AnyInstr) /\ Closing(<<w2>>) /\ Entries(n + 2, <<w2>>) = {<<n + 2, w2>>}
       /\ w2.op # "retvalue" /\ \A k \in DOMAIN w2.to : w2.to[k] \in {n + 5, n + 6}
  <2>1. PICK to : to = <<n + 5, n + 6>>
    OBVIOUS
  <2>2. to \in Seq(Nat) /\ \A k \in DOMAIN to : to[k] \in {n + 5, n + 6}
    BY <1>11, <2>1
  <2>3. "notAbove" \in InstrOps /\ "notAbove" \in Terminators
    BY DEF InstrOps, Terminators
  <2>4. w2 = ForInstr("notAbove", to, at, l) /\ at \in Points /\ l \in Loops
    BY <1>1, <1>2, <1>3, <1>8, <2>1, Zenon
  <2>5. w2 \in AnyInstr /\ w2.op = "notAbove" /\ w2.to = to
    BY ONLY <2>2, <2>3, <2>4 DEF ForInstr, AnyInstr
  <2>6. PICK b : b = n + 2
    OBVIOUS
  <2>7. <<w2>> \in Seq(AnyInstr) /\ Closing(<<w2>>) /\ Entries(b, <<w2>>) = {<<b, w2>>}
    BY ONLY <2>3, <2>5, OneInstr
  <2>8. w2.op # "retvalue" /\ \A k \in DOMAIN w2.to : w2.to[k] \in {n + 5, n + 6}
    BY ONLY <2>2, <2>5
  <2> QED
    BY ONLY <2>6, <2>7, <2>8, Zenon
<1>16. /\ <<w3>> \in Seq(AnyInstr) /\ Closing(<<w3>>) /\ Entries(n + 3, <<w3>>) = {<<n + 3, w3>>}
       /\ w3.op # "retvalue" /\ \A k \in DOMAIN w3.to : w3.to[k] \in {n + 4, n + 6}
  <2>1. PICK to : to = <<n + 4, n + 6>>
    OBVIOUS
  <2>2. to \in Seq(Nat) /\ \A k \in DOMAIN to : to[k] \in {n + 4, n + 6}
    BY <1>11, <2>1
  <2>3. "negative" \in InstrOps /\ "negative" \in Terminators
    BY DEF InstrOps, Terminators
  <2>4. w3 = ForInstr("negative", to, at, l) /\ at \in Points /\ l \in Loops
    BY <1>1, <1>2, <1>3, <1>9, <2>1, Zenon
  <2>5. w3 \in AnyInstr /\ w3.op = "negative" /\ w3.to = to
    BY ONLY <2>2, <2>3, <2>4 DEF ForInstr, AnyInstr
  <2>6. PICK b : b = n + 3
    OBVIOUS
  <2>7. <<w3>> \in Seq(AnyInstr) /\ Closing(<<w3>>) /\ Entries(b, <<w3>>) = {<<b, w3>>}
    BY ONLY <2>3, <2>5, OneInstr
  <2>8. w3.op # "retvalue" /\ \A k \in DOMAIN w3.to : w3.to[k] \in {n + 4, n + 6}
    BY ONLY <2>2, <2>5
  <2> QED
    BY ONLY <2>6, <2>7, <2>8, Zenon
<1>17. /\ <<w4>> \in Seq(AnyInstr) /\ Closing(<<w4>>) /\ Entries(n + 4, <<w4>>) = {<<n + 4, w4>>}
       /\ w4.op # "retvalue" /\ \A k \in DOMAIN w4.to : w4.to[k] \in {n + 5, n + 6}
  <2>1. PICK to : to = <<n + 5, n + 6>>
    OBVIOUS
  <2>2. to \in Seq(Nat) /\ \A k \in DOMAIN to : to[k] \in {n + 5, n + 6}
    BY <1>11, <2>1
  <2>3. "notBelow" \in InstrOps /\ "notBelow" \in Terminators
    BY DEF InstrOps, Terminators
  <2>4. w4 = ForInstr("notBelow", to, at, l) /\ at \in Points /\ l \in Loops
    BY <1>1, <1>2, <1>3, <1>10, <2>1, Zenon
  <2>5. w4 \in AnyInstr /\ w4.op = "notBelow" /\ w4.to = to
    BY ONLY <2>2, <2>3, <2>4 DEF ForInstr, AnyInstr
  <2>6. PICK b : b = n + 4
    OBVIOUS
  <2>7. <<w4>> \in Seq(AnyInstr) /\ Closing(<<w4>>) /\ Entries(b, <<w4>>) = {<<b, w4>>}
    BY ONLY <2>3, <2>5, OneInstr
  <2>8. w4.op # "retvalue" /\ \A k \in DOMAIN w4.to : w4.to[k] \in {n + 5, n + 6}
    BY ONLY <2>2, <2>5
  <2> QED
    BY ONLY <2>6, <2>7, <2>8, Zenon
<1>18. PICK c0 : c0 = Emit(code, cur, xs)
  OBVIOUS
<1>19. PICK c1 : c1 = Append(c0, <<w1>>)
  OBVIOUS
<1>20. PICK c2 : c2 = Append(c1, <<w2>>)
  OBVIOUS
<1>21. PICK c3 : c3 = Append(c2, <<w3>>)
  OBVIOUS
<1>22. PICK c4 : c4 = Append(c3, <<w4>>)
  OBVIOUS
<1>23. /\ c0 \in CodeSeqs /\ Len(c0) = n /\ Content(c0) = Content(code) \cup {<<cur, x>>, <<cur, y>>}
       /\ EndsOnly(code) /\ cur \notin Finished(code) => EndsOnly(c0) /\ Finished(c0) = Finished(code) \cup {cur}
  <2>1. cur \in 1 .. Len(code)
    BY <1>1
  <2>2. /\ c0 \in CodeSeqs /\ Len(c0) = Len(code) /\ Content(c0) = Content(code) \cup {<<cur, x>>, <<cur, y>>}
        /\ EndsOnly(code) /\ cur \notin Finished(code) => EndsOnly(c0) /\ Finished(c0) = Finished(code) \cup {cur}
    BY ONLY <1>1, <1>12, <1>18, <2>1, Ending
  <2> QED
    BY <2>2
<1>24. /\ c1 \in CodeSeqs /\ Len(c1) = n + 1 /\ Content(c1) = Content(c0) \cup {<<n + 1, w1>>}
       /\ Finished(c1) = Finished(c0) \cup {n + 1}
       /\ EndsOnly(c0) => EndsOnly(c1)
  <2>1. PICK s : s = <<w1>>
    OBVIOUS
  <2>2. PICK m : m = n + 1
    OBVIOUS
  <2>3. PICK es : es = {<<n + 1, w1>>}
    OBVIOUS
  <2>4. c0 \in CodeSeqs /\ s \in Seq(AnyInstr) /\ Closing(s) /\ m = Len(c0) + 1 /\ Entries(m, s) = es
    BY <1>14, <1>23, <2>1, <2>2, <2>3
  <2>5. /\ Append(c0, s) \in CodeSeqs /\ Len(Append(c0, s)) = m /\ Content(Append(c0, s)) = Content(c0) \cup es
        /\ Finished(Append(c0, s)) = Finished(c0) \cup {m}
        /\ EndsOnly(c0) => EndsOnly(Append(c0, s))
    BY ONLY <2>4, WholeBlock
  <2> QED
    BY ONLY <1>19, <2>1, <2>2, <2>3, <2>5, Zenon
<1>25. /\ c2 \in CodeSeqs /\ Len(c2) = n + 2 /\ Content(c2) = Content(c1) \cup {<<n + 2, w2>>}
       /\ Finished(c2) = Finished(c1) \cup {n + 2}
       /\ EndsOnly(c1) => EndsOnly(c2)
  <2>1. PICK s : s = <<w2>>
    OBVIOUS
  <2>2. PICK m : m = n + 2
    OBVIOUS
  <2>3. PICK es : es = {<<n + 2, w2>>}
    OBVIOUS
  <2>4. c1 \in CodeSeqs /\ s \in Seq(AnyInstr) /\ Closing(s) /\ m = Len(c1) + 1 /\ Entries(m, s) = es
    BY <1>15, <1>24, <2>1, <2>2, <2>3
  <2>5. /\ Append(c1, s) \in CodeSeqs /\ Len(Append(c1, s)) = m /\ Content(Append(c1, s)) = Content(c1) \cup es
        /\ Finished(Append(c1, s)) = Finished(c1) \cup {m}
        /\ EndsOnly(c1) => EndsOnly(Append(c1, s))
    BY ONLY <2>4, WholeBlock
  <2> QED
    BY ONLY <1>20, <2>1, <2>2, <2>3, <2>5, Zenon
<1>26. /\ c3 \in CodeSeqs /\ Len(c3) = n + 3 /\ Content(c3) = Content(c2) \cup {<<n + 3, w3>>}
       /\ Finished(c3) = Finished(c2) \cup {n + 3}
       /\ EndsOnly(c2) => EndsOnly(c3)
  <2>1. PICK s : s = <<w3>>
    OBVIOUS
  <2>2. PICK m : m = n + 3
    OBVIOUS
  <2>3. PICK es : es = {<<n + 3, w3>>}
    OBVIOUS
  <2>4. c2 \in CodeSeqs /\ s \in Seq(AnyInstr) /\ Closing(s) /\ m = Len(c2) + 1 /\ Entries(m, s) = es
    BY <1>16, <1>25, <2>1, <2>2, <2>3
  <2>5. /\ Append(c2, s) \in CodeSeqs /\ Len(Append(c2, s)) = m /\ Content(Append(c2, s)) = Content(c2) \cup es
        /\ Finished(Append(c2, s)) = Finished(c2) \cup {m}
        /\ EndsOnly(c2) => EndsOnly(Append(c2, s))
    BY ONLY <2>4, WholeBlock
  <2> QED
    BY ONLY <1>21, <2>1, <2>2, <2>3, <2>5, Zenon
<1>27. /\ c4 \in CodeSeqs /\ Len(c4) = n + 4 /\ Content(c4) = Content(c3) \cup {<<n + 4, w4>>}
       /\ Finished(c4) = Finished(c3) \cup {n + 4}
       /\ EndsOnly(c3) => EndsOnly(c4)
  <2>1. PICK s : s = <<w4>>
    OBVIOUS
  <2>2. PICK m : m = n + 4
    OBVIOUS
  <2>3. PICK es : es = {<<n + 4, w4>>}
    OBVIOUS
  <2>4. c3 \in CodeSeqs /\ s \in Seq(AnyInstr) /\ Closing(s) /\ m = Len(c3) + 1 /\ Entries(m, s) = es
    BY <1>17, <1>26, <2>1, <2>2, <2>3
  <2>5. /\ Append(c3, s) \in CodeSeqs /\ Len(Append(c3, s)) = m /\ Content(Append(c3, s)) = Content(c3) \cup es
        /\ Finished(Append(c3, s)) = Finished(c3) \cup {m}
        /\ EndsOnly(c3) => EndsOnly(Append(c3, s))
    BY ONLY <2>4, WholeBlock
  <2> QED
    BY ONLY <1>22, <2>1, <2>2, <2>3, <2>5, Zenon
<1>28. PICK c5 : c5 = Append(c4, <<>>)
  OBVIOUS
<1>29. PICK c6 : c6 = Append(c5, <<>>)
  OBVIOUS
<1>30. /\ c5 \in CodeSeqs /\ Len(c5) = n + 5 /\ Content(c5) = Content(c4)
       /\ Finished(c5) = Finished(c4)
       /\ EndsOnly(c4) => EndsOnly(c5)
  BY <1>27, <1>28, EmptyBlock
<1>31. /\ c6 \in CodeSeqs /\ Len(c6) = n + 6 /\ Content(c6) = Content(c4)
       /\ Finished(c6) = Finished(c4)
       /\ EndsOnly(c4) => EndsOnly(c6)
  BY <1>29, <1>30, EmptyBlock
<1>32. code' = c6
  <2>1. code' = c0 \o <<<<w1>>, <<w2>>, <<w3>>, <<w4>>, <<>>, <<>>>>
    BY <1>2, <1>3, <1>4, <1>5, <1>7, <1>8, <1>9, <1>10, <1>18 DEF GenFor
  <2>2. c0 \in Seq(Seq(AnyInstr)) /\ <<>> \in Seq(AnyInstr)
    BY <1>23 DEF CodeSeqs
  <2>3. c0 \o <<<<w1>>, <<w2>>, <<w3>>, <<w4>>, <<>>, <<>>>> =
          Append(Append(Append(Append(Append(Append(c0, <<w1>>), <<w2>>), <<w3>>), <<w4>>), <<>>), <<>>)
    <3>1. PICK a1 : a1 = <<w1>>
      OBVIOUS
    <3>2. PICK a2 : a2 = <<w2>>
      OBVIOUS
    <3>3. PICK a3 : a3 = <<w3>>
      OBVIOUS
    <3>4. PICK a4 : a4 = <<w4>>
      OBVIOUS
    <3>5. PICK none : none = <<>> /\ none \in Seq(AnyInstr)
      BY <2>2
    <3>6. PICK S : S = Seq(AnyInstr)
      OBVIOUS
    <3>7. c0 \in Seq(S) /\ a1 \in S /\ a2 \in S /\ a3 \in S /\ a4 \in S /\ none \in S
      BY ONLY <1>14, <1>15, <1>16, <1>17, <2>2, <3>1, <3>2, <3>3, <3>4, <3>5, <3>6, Zenon
    <3>8. c0 \o <<a1, a2, a3, a4, none, none>> =
            Append(Append(Append(Append(Append(Append(c0, a1), a2), a3), a4), none), none)
      BY ONLY SMTT(30), <3>7, SixBlocks
    <3> QED
      BY ONLY <3>1, <3>2, <3>3, <3>4, <3>5, <3>8, Zenon
  <2> QED
    BY ONLY <1>19, <1>20, <1>21, <1>22, <1>28, <1>29, <2>1, <2>3, Zenon
<1>33. Content(code') = Content(code) \cup {<<cur, x>>, <<cur, y>>, <<n + 1, w1>>, <<n + 2, w2>>,
                                            <<n + 3, w3>>, <<n + 4, w4>>}
  BY <1>23, <1>24, <1>25, <1>26, <1>27, <1>31, <1>32
<1>34. \A e \in Content(code') :
         e \in Content(code) \/ (e[2].op # "retvalue" /\ \A k \in DOMAIN e[2].to : e[2].to[k] \in n + 1 .. n + 6)
  <2>1. x.op # "retvalue" /\ \A k \in DOMAIN x.to : x.to[k] \in n + 1 .. n + 6
    BY ONLY <1>12
  <2>2. y.op # "retvalue" /\ \A k \in DOMAIN y.to : y.to[k] \in n + 1 .. n + 6
    BY <1>11, <1>13
  <2>3. w1.op # "retvalue" /\ \A k \in DOMAIN w1.to : w1.to[k] \in n + 1 .. n + 6
    BY <1>11, <1>14
  <2>4. w2.op # "retvalue" /\ \A k \in DOMAIN w2.to : w2.to[k] \in n + 1 .. n + 6
    BY <1>11, <1>15
  <2>5. w3.op # "retvalue" /\ \A k \in DOMAIN w3.to : w3.to[k] \in n + 1 .. n + 6
    BY <1>11, <1>16
  <2>6. w4.op # "retvalue" /\ \A k \in DOMAIN w4.to : w4.to[k] \in n + 1 .. n + 6
    BY <1>11, <1>17
  <2>7. ASSUME NEW e \in Content(code')
        PROVE  e \in Content(code) \/ e[2] \in {x, y, w1, w2, w3, w4}
    BY <1>33
  <2> QED
    BY ONLY <2>1, <2>2, <2>3, <2>4, <2>5, <2>6, <2>7
<1>35. EndsOnly(code) /\ cur \notin Finished(code) =>
         EndsOnly(code') /\ Finished(code') = Finished(code) \cup {cur, n + 1, n + 2, n + 3, n + 4}
  BY <1>23, <1>24, <1>25, <1>26, <1>27, <1>31, <1>32
<1> QED
  BY <1>31, <1>32, <1>33, <1>34, <1>35

LEMMA ForBuilds == ASSUME Building, TypeOK', GenFor PROVE Building'
<1>1. PICK n \in Nat : n = Len(code)
  BY CodeType DEF Building
<1>2. /\ code \in CodeSeqs /\ Blocks = 1 .. n /\ inserted \subseteq 1 .. n /\ cur \in 1 .. n /\ cur \in inserted
      /\ frames \in Seq(Frames)
  BY <1>1, CodeType DEF Building
<1>3. PICK g : g = Frame("for", n + 1, n + 6)
  OBVIOUS
<1>4. /\ AtOp("for") /\ Advance /\ labelBlocks' = labelBlocks
      /\ frames' = Append(frames, g)
      /\ inserted' = inserted \cup n + 1 .. n + 6 /\ cur' = n + 5
  BY <1>1, <1>3 DEF GenFor, Push
<1>5. g \in Frames /\ Single(g) /\ FrameOpen(g) = {n + 6}
  <2>1. pos \in Nat /\ cur \in Nat /\ n + 1 \in Nat /\ n + 6 \in Nat
    BY <1>2, CodeType DEF Building
  <2> QED
    BY <1>3, <2>1 DEF Frame, Frames, Single, FrameOpen
<1>6. /\ Len(code') = n + 6
      /\ Content(code) \subseteq Content(code')
      /\ \A e \in Content(code') :
           e \in Content(code) \/ (e[2].op # "retvalue" /\ \A k \in DOMAIN e[2].to : e[2].to[k] \in n + 1 .. n + 6)
      /\ EndsOnly(code) /\ cur \notin Finished(code) =>
           EndsOnly(code') /\ Finished(code') = Finished(code) \cup {cur, n + 1, n + 2, n + 3, n + 4}
  BY <1>1, ForCode
<1>7. Blocks' = 1 .. n + 6
  BY <1>6 DEF Blocks
<1>8. /\ \A b \in 1 .. n : b \notin n + 1 .. n + 6 /\ b # 0
      /\ \A b \in n + 1 .. n + 6 : b \in {n + 1, n + 2, n + 3, n + 4, n + 5, n + 6} /\ b # 0 /\ b \notin 1 .. n
      /\ n + 5 \notin {n + 1, n + 2, n + 3, n + 4, n + 6} /\ n + 6 \notin {n + 1, n + 2, n + 3, n + 4}
      /\ n + 5 \in n + 1 .. n + 6 /\ n + 6 \in n + 1 .. n + 6
      /\ 1 .. n + 6 = 1 .. n \cup n + 1 .. n + 6
  OBVIOUS
<1>9. \A b \in n + 1 .. n + 6 : ~HeldByFrames(frames, b)
  BY <1>2, <1>8, CurIsOpen
<1>10. /\ \A b : HeldByFrames(frames', b) <=> HeldByFrames(frames, b) \/ b = n + 6
       /\ Apart(frames')
  <2>1. \A b \in FrameOpen(g) : b = 0 \/ ~HeldByFrames(frames, b)
    BY <1>5, <1>8, <1>9
  <2> QED
    BY <1>2, <1>4, <1>5, <2>1, PushHolds DEF Building, HeldOnce
<1>11. HeldOnce'
  BY <1>4, <1>8, <1>9, <1>10 DEF HeldOnce
<1>12. ASSUME NoExit, EndsOnly(code), Finished(code) = Blocks \ Open
       PROVE  /\ EndsOnly(code')
              /\ \A b \in Blocks' :
                   b \in Finished(code') <=>
                     ~(\/ b = cur'
                       \/ b \in Blocks /\ HeldByLabels(labelBlocks, inserted, b)
                       \/ HeldByFrames(frames', b))
  <2>1. \A b \in 1 .. n : b \in Finished(code) <=>
          ~(b = cur \/ HeldByLabels(labelBlocks, inserted, b) \/ HeldByFrames(frames, b))
    BY <1>1, <1>12, UnfinishedIsHeld
  <2>2. Finished(code) \subseteq 1 .. n /\ cur \notin Finished(code)
    BY <1>2, <1>12, <2>1
  <2>3. EndsOnly(code') /\ Finished(code') = Finished(code) \cup {cur, n + 1, n + 2, n + 3, n + 4}
    BY <1>6, <1>12, <2>2
  <2>4. ~HeldByLabels(labelBlocks, inserted, cur) /\ ~HeldByFrames(frames, cur)
    BY CurIsOpen
  <2>5. ASSUME NEW b \in 1 .. n
        PROVE  b \in Finished(code') <=>
                 ~(b = cur' \/ HeldByLabels(labelBlocks, inserted, b) \/ HeldByFrames(frames', b))
    <3>1. b \in Finished(code') <=> b \in Finished(code) \/ b = cur
      BY <1>8, <2>3
    <3>2. b # cur' /\ (HeldByFrames(frames', b) <=> HeldByFrames(frames, b))
      BY <1>4, <1>8, <1>10
    <3> QED
      BY <2>1, <2>4, <3>1, <3>2
  <2>6. ASSUME NEW b \in n + 1 .. n + 6
        PROVE  b \in Finished(code') <=> ~(b = cur' \/ HeldByFrames(frames', b))
    <3>1. b \in Finished(code') <=> b \in {n + 1, n + 2, n + 3, n + 4}
      BY <1>2, <1>8, <2>2, <2>3
    <3>2. HeldByFrames(frames', b) <=> b = n + 6
      BY <1>9, <1>10
    <3> QED
      BY <1>4, <1>8, <3>1, <3>2
  <2> QED
    BY <1>2, <1>7, <1>8, <2>3, <2>5, <2>6
<1>13. inserted \subseteq inserted' /\ inserted' \cap Blocks = inserted
  BY <1>2, <1>4, <1>8
<1>14. \A e \in Content(code') :
         \/ e \in Content(code)
         \/ e[2].op # "retvalue" /\ \A k \in DOMAIN e[2].to : e[2].to[k] \in inserted'
  BY <1>4, <1>6
<1> QED
  BY <1>4, <1>6, <1>11, <1>12, <1>13, <1>14, PlainStep
-----------------------------------------------------------------------------
\* A jump leaves the builder's block for that of its label, which it may create
\* without a parent; the builder goes on in a new one.
LEMMA JumpStep ==
  ASSUME Building, TypeOK', NEW op \in {"goto", "gosub"}, AtOp(op), Arg # NULL, Advance,
         frames' = frames, NEW xs \in Seq(AnyInstr), Closing(xs),
         code' = Append(Emit(WithLabelBlock(Arg), cur, xs), <<>>),
         labelBlocks' = LabelTable(Arg),
         inserted' = inserted \cup {Len(WithLabelBlock(Arg)) + 1},
         cur' = Len(WithLabelBlock(Arg)) + 1,
         \A e \in Entries(cur, xs) :
           /\ e[2].op # "retvalue"
           /\ \A k \in DOMAIN e[2].to : e[2].to[k] = LabelBlock(Arg) \/ e[2].to[k] \in inserted',
         \E e \in Entries(cur, xs) : \E k \in DOMAIN e[2].to : e[2].to[k] = LabelBlock(Arg)
  PROVE  Building'
<1>1. PICK n \in Nat : n = Len(code)
  BY CodeType DEF Building
<1>2. /\ code \in CodeSeqs /\ Blocks = 1 .. n /\ inserted \subseteq 1 .. n /\ cur \in 1 .. n /\ cur \in inserted
      /\ frames \in Seq(Frames)
  BY <1>1, CodeType DEF Building
<1>3. /\ pos \in DOMAIN body /\ body[pos].op = op /\ pos \in Nat /\ pos' = pos + 1 /\ body' = body
      /\ status = "generate" /\ status' = "generate" /\ body \in Seq(Items)
  BY AtType, CodeType DEF Building, AtOp, Advance
<1>4. PICK l \in Labels : l = Arg /\ l = body[pos].arg
  BY AtType DEF Building, HasLabel, Arg
<1>5. PICK w : w = WithLabelBlock(l)
  OBVIOUS
<1>6. PICK b : b = LabelBlock(l)
  OBVIOUS
<1>7. PICK table : table = LabelTable(l)
  OBVIOUS
<1>8. PICK m \in Nat : m = Len(w)
  BY <1>5, LabelEffect DEF Building
<1>9. /\ w \in CodeSeqs /\ n <= m /\ Content(w) = Content(code) /\ Finished(w) = Finished(code)
      /\ EndsOnly(code) => EndsOnly(w)
      /\ b \in 1 .. m /\ table \in [Labels -> Nat] /\ table[l] = b
      /\ \A k \in Labels : table[k] <= m
      /\ \A k \in Labels : labelBlocks[k] # 0 => table[k] = labelBlocks[k]
      /\ Injective(table)
      /\ \A k \in Labels : table[k] \in inserted <=> labelBlocks[k] \in inserted
      /\ \A c \in 1 .. m :
           /\ c \in 1 .. n => (HeldByLabels(table, inserted, c) <=> HeldByLabels(labelBlocks, inserted, c))
           /\ c \notin 1 .. n => HeldByLabels(table, inserted, c)
  BY <1>1, <1>5, <1>6, <1>7, <1>8, LabelEffect DEF Building
<1>10. /\ code' = Append(Emit(w, cur, xs), <<>>) /\ labelBlocks' = table
       /\ inserted' = inserted \cup {m + 1} /\ cur' = m + 1
  BY <1>4, <1>5, <1>7, <1>8
<1>11. /\ cur \in 1 .. m /\ 1 .. n \subseteq 1 .. m /\ 1 .. m + 1 = 1 .. m \cup {m + 1} /\ m + 1 # 0
       /\ \A c \in 1 .. m : c # m + 1
       /\ \A c \in Nat : c <= m => c # m + 1
  <2>1. n \in Nat /\ m \in Nat /\ n <= m /\ cur \in 1 .. n
    BY <1>2, <1>9
  <2> QED
    BY ONLY <2>1
<1>12. PICK mid : mid = Emit(w, cur, xs)
  OBVIOUS
<1>13. /\ mid \in CodeSeqs /\ Len(mid) = m /\ Content(mid) = Content(code) \cup Entries(cur, xs)
       /\ EndsOnly(w) /\ cur \notin Finished(w) => EndsOnly(mid) /\ Finished(mid) = Finished(w) \cup {cur}
  BY <1>8, <1>9, <1>11, <1>12, EmitInCode
<1>14. /\ Len(code') = m + 1 /\ Content(code') = Content(code) \cup Entries(cur, xs)
       /\ Finished(code') = Finished(mid)
       /\ EndsOnly(mid) => EndsOnly(code')
  BY <1>10, <1>12, <1>13, EmptyBlock
<1>15. Blocks' = 1 .. m + 1
  BY <1>14 DEF Blocks
<1>16. HeldOnce'
  <2>1. m + 1 \notin inserted
    BY <1>2, <1>11
  <2>2. ~HeldByFrames(frames, m + 1)
    BY <1>11, <2>1, CurIsOpen
  <2> QED
    BY <1>10, <2>2 DEF Building, HeldOnce
<1>17. \A c \in 1 .. m : HeldByLabels(labelBlocks', inserted', c) <=> HeldByLabels(table, inserted, c)
  BY <1>10, <1>11 DEF HeldByLabels
<1>18. LabelsMet'
  <2>1. \A k \in Labels : labelBlocks'[k] \in inserted' <=> labelBlocks[k] \in inserted
    BY <1>9, <1>10, <1>11
  <2>2. \A i \in DOMAIN body : Met(i, {"label"})' <=> Met(i, {"label"})
    <3>1. \A i \in DOMAIN body : i < pos + 1 <=> i < pos \/ i = pos
      BY <1>3
    <3> QED
      BY <1>3, <3>1 DEF Met
  <2>3. Injective(labelBlocks)'
    BY <1>9, <1>10 DEF Injective
  <2> QED
    BY <1>3, <2>1, <2>2, <2>3 DEF Building, LabelsMet
<1>19. JumpsAreThere'
  <2>1. ~Crashes(body[pos])
    BY <1>3, <1>4, NullIsNoArg DEF Crashes
  <2>2. \E e \in Content(code') :
          e[1] \in inserted' /\ \E k \in DOMAIN e[2].to : e[2].to[k] = labelBlocks'[body[pos].arg]
    <3>1. PICK e \in Entries(cur, xs) : \E k \in DOMAIN e[2].to : e[2].to[k] = b
      BY <1>4, <1>6
    <3>2. e[1] = cur
      BY <3>1 DEF Entries
    <3>3. e \in Content(code') /\ e[1] \in inserted'
      BY <1>2, <1>10, <1>14, <3>1, <3>2
    <3>4. labelBlocks'[body[pos].arg] = b
      BY <1>4, <1>9, <1>10
    <3> QED
      BY <3>1, <3>3, <3>4, Zenon
  <2>3. labelBlocks'[body[pos].arg] # 0
    BY <1>4, <1>9, <1>10
  <2> QED
    BY <1>3, <1>9, <1>10, <1>14, <2>1, <2>2, <2>3, JumpsKeep DEF Building
<1>20. NothingElse'
  <2>1. ASSUME NEW e \in Entries(cur, xs)
        PROVE  ForCause(e[2])'
    <3>1. InsideOrJump(b)'
      <4>1. PICK i \in DOMAIN body : i = pos
        BY <1>3
      <4>2. Met(i, {"goto", "gosub"})'
        BY <1>3, <4>1 DEF Met
      <4>3. (labelBlocks[body[i].arg] = b)'
        BY <1>3, <1>4, <1>9, <1>10, <4>1
      <4> QED
        BY <1>3, <4>1, <4>2, <4>3 DEF InsideOrJump
    <3>2. \A k \in DOMAIN e[2].to : InsideOrJump(e[2].to[k])'
      BY <1>4, <1>6, <3>1 DEF InsideOrJump
    <3> QED
      BY <3>2 DEF ForCause
  <2>2. \A e \in Content(code') : e \in Content(code) \/ ForCause(e[2])'
    BY <1>14, <2>1
  <2>3. pos' \in Nat /\ pos <= pos'
    BY <1>3
  <2> QED
    BY <1>3, <1>9, <1>10, <2>2, <2>3, NothingElseKeeps DEF Building
<1>21. ASSUME NoExit
       PROVE  EndsOnly(code') /\ Finished(code') = Blocks' \ Open'
  <2>1. EndsOnly(code) /\ Finished(code) = Blocks \ Open
    BY <1>3, <1>21 DEF Building, Ended
  <2>2. \A c \in 1 .. n : c \in Finished(code) <=>
          ~(c = cur \/ HeldByLabels(labelBlocks, inserted, c) \/ HeldByFrames(frames, c))
    BY <1>1, <2>1, UnfinishedIsHeld
  <2>3. Finished(code) \subseteq 1 .. n /\ cur \notin Finished(code)
    BY <1>2, <2>1, <2>2
  <2>4. EndsOnly(code') /\ Finished(code') = Finished(code) \cup {cur}
    BY <1>9, <1>13, <1>14, <2>1, <2>3
  <2>5. ~HeldByLabels(labelBlocks, inserted, cur) /\ ~HeldByFrames(frames, cur)
    BY CurIsOpen
  <2>6. ASSUME NEW c \in 1 .. m
        PROVE  c \in Finished(code') <=> ~(HeldByLabels(labelBlocks', inserted', c) \/ HeldByFrames(frames', c))
    <3>1. CASE c \in 1 .. n
      BY <1>9, <1>17, <2>2, <2>4, <2>5, <3>1
    <3>2. CASE c \notin 1 .. n
      BY <1>2, <1>9, <1>17, <2>3, <2>4, <3>2
    <3> QED
      BY <3>1, <3>2
  <2>7. m + 1 \notin Finished(code')
    BY <1>11, <2>3, <2>4
  <2>8. \A c \in Blocks' : c \in Finished(code') <=>
          ~(c = cur' \/ HeldByLabels(labelBlocks', inserted', c) \/ HeldByFrames(frames', c))
    BY <1>10, <1>11, <1>15, <2>6, <2>7
  <2>9. Finished(code') \subseteq Blocks'
    BY DEF Finished, Blocks
  <2> QED
    BY <2>4, <2>8, <2>9, OpenIs
<1>22. Ended' /\ Verdict'
  BY <1>3, <1>21 DEF Ended, NoExit, Verdict
<1> QED
  BY <1>16, <1>18, <1>19, <1>20, <1>22 DEF Building

LEMMA GotoBuilds == ASSUME Building, TypeOK', GenGoto PROVE Building'
<1>1. PICK t : t = LabelBlock(Arg)
  OBVIOUS
<1>2. AtOp("goto") /\ Arg # NULL /\ Advance /\ frames' = frames /\ Here \in Points /\ Arg \in Labels
  BY AtType DEF GenGoto, HasLabel, Building
<1>3. t \in Nat
  BY <1>1, <1>2, LabelEffect DEF Building
<1>4. PICK x : x = Instr("br", <<t>>, Here)
  OBVIOUS
<1>5. PICK xs : xs = Br(t, Here)
  OBVIOUS
<1>6. xs \in Seq(AnyInstr) /\ Closing(xs) /\ Entries(cur, xs) = {<<cur, x>>}
  BY <1>2, <1>3, <1>4, <1>5, BrIsAny
<1>7. x.op = "br" /\ DOMAIN x.to = {1} /\ x.to[1] = t
  BY <1>4 DEF Instr
<1>8. /\ code' = Append(Emit(WithLabelBlock(Arg), cur, xs), <<>>)
      /\ labelBlocks' = LabelTable(Arg)
      /\ inserted' = inserted \cup {Len(WithLabelBlock(Arg)) + 1}
      /\ cur' = Len(WithLabelBlock(Arg)) + 1
  BY <1>1, <1>5 DEF GenGoto
<1>9. \A e \in Entries(cur, xs) :
        /\ e[2].op # "retvalue"
        /\ \A k \in DOMAIN e[2].to : e[2].to[k] = LabelBlock(Arg) \/ e[2].to[k] \in inserted'
  BY <1>1, <1>6, <1>7
<1>10. \E e \in Entries(cur, xs) : \E k \in DOMAIN e[2].to : e[2].to[k] = LabelBlock(Arg)
  BY <1>1, <1>6, <1>7
<1> QED
  BY <1>2, <1>6, <1>8, <1>9, <1>10, JumpStep

LEMMA GosubBuilds == ASSUME Building, TypeOK', GenGosub PROVE Building'
<1>1. PICK t : t = LabelBlock(Arg)
  OBVIOUS
<1>2. AtOp("gosub") /\ Arg # NULL /\ Advance /\ frames' = frames /\ Here \in Points /\ Arg \in Labels
  BY AtType DEF GenGosub, HasLabel, Building
<1>3. t \in Nat
  BY <1>1, <1>2, LabelEffect DEF Building
<1>4. PICK x : x = Instr("br", <<t>>, Here)
  OBVIOUS
<1>5. PICK p \in Nat : p = Len(WithLabelBlock(Arg)) + 1
  <2>1. Len(WithLabelBlock(Arg)) \in Nat
    BY <1>2, LabelEffect DEF Building
  <2> QED
    BY <2>1
<1>6. PICK y : y = Instr("push", <<p>>, Here)
  OBVIOUS
<1>7. PICK xs : xs = <<y>> \o Br(t, Here)
  OBVIOUS
<1>8. y \in AnyInstr /\ y.op = "push" /\ y.op \notin Terminators /\ DOMAIN y.to = {1} /\ y.to[1] = p
  <2>1. "push" \in InstrOps /\ "push" \notin Terminators /\ <<p>> \in Seq(Nat)
    BY DEF InstrOps, Terminators
  <2>2. y \in AnyInstr
    BY <1>2, <1>6, <2>1, InstrIsAny
  <2> QED
    BY <1>6, <2>1, <2>2 DEF Instr
<1>9. xs \in Seq(AnyInstr) /\ Closing(xs) /\ Entries(cur, xs) = {<<cur, y>>, <<cur, x>>}
  <2>1. PICK at : at = Here
    OBVIOUS
  <2>2. y \in AnyInstr /\ y.op \notin Terminators /\ t \in Nat /\ at \in Points
    BY <1>2, <1>3, <1>8, <2>1
  <2>3. /\ <<y>> \o Br(t, at) \in Seq(AnyInstr) /\ Closing(<<y>> \o Br(t, at))
        /\ Entries(cur, <<y>> \o Br(t, at)) = {<<cur, y>>, <<cur, Instr("br", <<t>>, at)>>}
    BY ONLY <2>2, ThenBr, ZenonT(60)
  <2> QED
    BY ONLY <1>4, <1>7, <2>1, <2>3, Zenon
<1>10. x.op = "br" /\ DOMAIN x.to = {1} /\ x.to[1] = t
  BY <1>4 DEF Instr
<1>11. /\ code' = Append(Emit(WithLabelBlock(Arg), cur, xs), <<>>)
       /\ labelBlocks' = LabelTable(Arg)
       /\ inserted' = inserted \cup {Len(WithLabelBlock(Arg)) + 1}
       /\ cur' = Len(WithLabelBlock(Arg)) + 1
  BY <1>1, <1>5, <1>6, <1>7 DEF GenGosub
<1>12. \A e \in Entries(cur, xs) :
         /\ e[2].op # "retvalue"
         /\ \A k \in DOMAIN e[2].to : e[2].to[k] = LabelBlock(Arg) \/ e[2].to[k] \in inserted'
  BY <1>1, <1>5, <1>8, <1>9, <1>10, <1>11
<1>13. \E e \in Entries(cur, xs) : \E k \in DOMAIN e[2].to : e[2].to[k] = LabelBlock(Arg)
  BY <1>1, <1>9, <1>10
<1> QED
  BY <1>2, <1>9, <1>11, <1>12, <1>13, JumpStep

\* A label ends the builder's block and gives its own the function as parent; it
\* had none, as no other statement is this label.
LEMMA LabelBuilds == ASSUME Building, TypeOK', GenLabel PROVE Building'
<1>1. PICK n \in Nat : n = Len(code)
  BY CodeType DEF Building
<1>2. /\ code \in CodeSeqs /\ Blocks = 1 .. n /\ inserted \subseteq 1 .. n /\ cur \in 1 .. n /\ cur \in inserted
      /\ frames \in Seq(Frames) /\ labelBlocks \in [Labels -> Nat]
  BY <1>1, CodeType DEF Building
<1>3. /\ pos \in DOMAIN body /\ body[pos].op = "label" /\ pos \in Nat /\ pos' = pos + 1 /\ body' = body
      /\ status = "generate" /\ status' = "generate" /\ body \in Seq(Items) /\ body \in Bodies
  BY AtType, CodeType DEF Building, GenLabel, AtOp, Advance
<1>4. PICK l \in Labels : l = Arg /\ l = body[pos].arg
  BY AtType DEF Building, GenLabel, Arg
<1>5. PICK w : w = WithLabelBlock(l)
  OBVIOUS
<1>6. PICK b : b = LabelBlock(l)
  OBVIOUS
<1>7. PICK table : table = LabelTable(l)
  OBVIOUS
<1>8. PICK m \in Nat : m = Len(w)
  BY <1>5, LabelEffect DEF Building
<1>9. /\ w \in CodeSeqs /\ n <= m /\ Content(w) = Content(code) /\ Finished(w) = Finished(code)
      /\ EndsOnly(code) => EndsOnly(w)
      /\ b \in 1 .. m /\ table \in [Labels -> Nat] /\ table[l] = b
      /\ \A k \in Labels : labelBlocks[k] # 0 => table[k] = labelBlocks[k]
      /\ Injective(table)
      /\ \A k \in Labels : table[k] \in inserted <=> labelBlocks[k] \in inserted
      /\ \A c \in 1 .. m :
           /\ c \in 1 .. n => (HeldByLabels(table, inserted, c) <=> HeldByLabels(labelBlocks, inserted, c))
           /\ c \notin 1 .. n => c = b
  BY <1>1, <1>5, <1>6, <1>7, <1>8, LabelEffect DEF Building
<1>10. PICK x : x = Instr("br", <<b>>, Here)
  OBVIOUS
<1>11. PICK xs : xs = Br(b, Here)
  OBVIOUS
<1>12. xs \in Seq(AnyInstr) /\ Closing(xs) /\ Entries(cur, xs) = {<<cur, x>>}
  <2>1. b \in Nat /\ Here \in Points
    BY <1>9, AtType DEF Building, GenLabel
  <2> QED
    BY <1>10, <1>11, <2>1, BrIsAny
<1>13. x.op = "br" /\ DOMAIN x.to = {1} /\ x.to[1] = b
  BY <1>10 DEF Instr
<1>14. /\ code' = Emit(w, cur, xs) /\ labelBlocks' = table /\ frames' = frames
       /\ inserted' = inserted \cup {b} /\ cur' = b
  BY <1>4, <1>5, <1>6, <1>7, <1>11 DEF GenLabel, InsertInto
<1>15. b \notin inserted
  <2>1. labelBlocks[l] \notin inserted
    <3>1. ASSUME NEW i \in DOMAIN body, Met(i, {"label"}), body[i].arg = l
          PROVE  FALSE
      <4>1. i = pos
        BY <1>3, <1>4, <3>1, LabelsStandOnce DEF Met
      <4> QED
        BY <1>3, <3>1, <4>1 DEF Met
    <3> QED
      BY <3>1 DEF Building, LabelsMet
  <2> QED
    BY <1>9, <2>1
<1>16. cur \in 1 .. m /\ 1 .. n \subseteq 1 .. m /\ b # 0 /\ cur # b
  <2>1. n \in Nat /\ m \in Nat /\ n <= m /\ cur \in 1 .. n /\ b \in 1 .. m
    BY <1>2, <1>9
  <2>2. cur # b
    BY <1>2, <1>15
  <2> QED
    BY ONLY <2>1, <2>2
<1>17. PICK after : after = code'
  OBVIOUS
<1>18. /\ Len(after) = m /\ Content(after) = Content(code) \cup {<<cur, x>>}
       /\ EndsOnly(w) /\ cur \notin Finished(w) => EndsOnly(after) /\ Finished(after) = Finished(w) \cup {cur}
  <2>1. cur \in 1 .. Len(w) /\ after = Emit(w, cur, xs)
    BY <1>8, <1>14, <1>16, <1>17
  <2>2. /\ Len(after) = Len(w) /\ Content(after) = Content(w) \cup {<<cur, x>>}
        /\ EndsOnly(w) /\ cur \notin Finished(w) => EndsOnly(after) /\ Finished(after) = Finished(w) \cup {cur}
    BY ONLY <1>9, <1>12, <2>1, Ending
  <2> QED
    BY <1>8, <1>9, <2>2
<1>19. Blocks' = 1 .. m
  BY <1>17, <1>18 DEF Blocks
<1>20. HeldOnce'
  BY <1>14, <1>15, <1>16, CurIsOpen DEF Building, HeldOnce
<1>21. LabelsMet'
  <2>1. \A k \in Labels : labelBlocks'[k] \in inserted' <=> labelBlocks[k] \in inserted \/ k = l
    <3>1. \A k \in Labels : table[k] = b => k = l
      BY <1>9, <1>16 DEF Injective
    <3> QED
      BY <1>9, <1>14, <3>1
  <2>2. \A i \in DOMAIN body : Met(i, {"label"})' <=> Met(i, {"label"}) \/ i = pos
    <3>1. \A i \in DOMAIN body : i < pos + 1 <=> i < pos \/ i = pos
      BY <1>3
    <3> QED
      BY <1>3, <3>1 DEF Met
  <2>3. Injective(labelBlocks)'
    BY <1>9, <1>14 DEF Injective
  <2>4. ASSUME NEW k \in Labels
        PROVE  labelBlocks'[k] \in inserted' <=> \E i \in DOMAIN body : Met(i, {"label"})' /\ body[i].arg = k
    <3>1. labelBlocks[k] \in inserted <=> \E i \in DOMAIN body : Met(i, {"label"}) /\ body[i].arg = k
      BY DEF Building, LabelsMet
    <3> QED
      BY <1>3, <1>4, <2>1, <2>2, <3>1
  <2> QED
    BY <1>3, <2>3, <2>4 DEF LabelsMet
<1>22. JumpsAreThere'
  <2>1. ~Crashes(body[pos])
    BY <1>3 DEF Crashes
  <2>2. Content(code) \subseteq Content(code') /\ inserted \subseteq inserted'
    BY <1>14, <1>17, <1>18
  <2> QED
    BY <1>3, <1>9, <1>14, <2>1, <2>2, JumpsKeep DEF Building
<1>23. NothingElse'
  <2>1. \A e \in Content(code') : e \in Content(code) \/ ForCause(e[2])'
    <3>1. InsideOrJump(b)'
      BY <1>14 DEF InsideOrJump
    <3>2. ForCause(x)'
      BY <1>13, <3>1 DEF ForCause
    <3> QED
      BY <1>17, <1>18, <3>2
  <2>2. pos' \in Nat /\ pos <= pos'
    BY <1>3
  <2> QED
    BY <1>3, <1>9, <1>14, <2>1, <2>2, NothingElseKeeps DEF Building
<1>24. ASSUME NoExit
       PROVE  EndsOnly(code') /\ Finished(code') = Blocks' \ Open'
  <2>1. EndsOnly(code) /\ Finished(code) = Blocks \ Open
    BY <1>3, <1>24 DEF Building, Ended
  <2>2. \A c \in 1 .. n : c \in Finished(code) <=>
          ~(c = cur \/ HeldByLabels(labelBlocks, inserted, c) \/ HeldByFrames(frames, c))
    BY <1>1, <2>1, UnfinishedIsHeld
  <2>3. Finished(code) \subseteq 1 .. n /\ cur \notin Finished(code)
    BY <1>2, <2>1, <2>2
  <2>4. EndsOnly(code') /\ Finished(code') = Finished(code) \cup {cur}
    BY <1>9, <1>17, <1>18, <2>1, <2>3
  <2>5. ~HeldByLabels(labelBlocks, inserted, cur) /\ ~HeldByFrames(frames, cur)
    BY CurIsOpen
  <2>6. b \notin Finished(code')
    <3>1. b \in 1 .. n => HeldByLabels(labelBlocks, inserted, b)
      <4>1. HeldByLabels(table, inserted, b)
        BY <1>9, <1>15 DEF HeldByLabels
      <4> QED
        BY <1>9, <4>1
    <3> QED
      BY <1>16, <2>2, <2>3, <2>4, <3>1
  <2>7. ASSUME NEW c \in 1 .. m, c # b
        PROVE  c \in Finished(code') <=> ~(HeldByLabels(labelBlocks', inserted', c) \/ HeldByFrames(frames', c))
    <3>1. c \in 1 .. n
      BY <1>9, <2>7
    <3>2. HeldByLabels(labelBlocks', inserted', c) <=> HeldByLabels(table, inserted, c)
      BY <1>14, <2>7 DEF HeldByLabels
    <3> QED
      BY <1>9, <1>14, <2>2, <2>4, <2>5, <3>1, <3>2
  <2>8. \A c \in Blocks' : c \in Finished(code') <=>
          ~(c = cur' \/ HeldByLabels(labelBlocks', inserted', c) \/ HeldByFrames(frames', c))
    BY <1>14, <1>19, <2>6, <2>7
  <2>9. Finished(code') \subseteq Blocks'
    BY DEF Finished, Blocks
  <2> QED
    BY <2>4, <2>8, <2>9, OpenIs
<1>25. Ended' /\ Verdict'
  BY <1>3, <1>24 DEF Ended, NoExit, Verdict
<1> QED
  BY <1>20, <1>21, <1>22, <1>23, <1>25 DEF Building

\* The builder stays behind the return of exitfunction.
LEMMA ExitFunctionBuilds == ASSUME Building, TypeOK', GenExitFunction PROVE Building'
<1>1. PICK x : x = Instr("retvalue", <<>>, Here)
  OBVIOUS
<1>2. x \in AnyInstr /\ x.op = "retvalue" /\ x.to = <<>>
  <2>1. Here \in Points /\ "retvalue" \in InstrOps /\ <<>> \in Seq(Nat)
    BY AtType DEF Building, GenExitFunction, InstrOps, Terminators
  <2> QED
    BY <1>1, <2>1, InstrIsAny DEF Instr
<1>3. /\ pos \in DOMAIN body /\ body[pos].op = "exitfunction" /\ pos \in Nat /\ pos' = pos + 1 /\ body' = body
      /\ status' = "generate" /\ UNCHANGED <<frames, inserted, cur, labelBlocks>>
  BY AtType, CodeType DEF Building, GenExitFunction, AtOp, Advance, symtab
<1>4. Content(code') = Content(code) \cup {<<cur, x>>}
  <2>1. PICK xs : xs = <<x>>
    OBVIOUS
  <2>2. xs \in Seq(AnyInstr) /\ Entries(cur, xs) = {<<cur, x>>}
    BY <1>2, <2>1, OneInstr
  <2>3. code' = Emit(code, cur, xs)
    BY <1>1, <2>1 DEF GenExitFunction
  <2> QED
    BY <2>2, <2>3, CodeType, EmitInCode DEF Building
<1>5. HeldOnce'
  BY <1>3 DEF Building, HeldOnce
<1>6. LabelsMet'
  <2>1. inserted \subseteq inserted' /\ inserted' \cap Blocks = inserted
    BY <1>3, CodeType DEF Building
  <2> QED
    BY <1>3, <2>1, LabelsStay DEF Building
<1>7. JumpsAreThere'
  <2>1. ~Crashes(body[pos])
    BY <1>3 DEF Crashes
  <2>2. \E e \in Content(code') : e[1] \in inserted' /\ e[2].op = "retvalue"
    <3>1. PICK e : e = <<cur, x>>
      OBVIOUS
    <3>2. e \in Content(code') /\ e[1] = cur /\ e[2] = x
      BY <1>4, <3>1
    <3>3. e[1] \in inserted' /\ e[2].op = "retvalue"
      BY <1>2, <1>3, <3>2, CodeType DEF Building
    <3> QED
      BY <3>2, <3>3
  <2> QED
    BY <1>3, <1>4, <2>1, <2>2, JumpsKeep DEF Building
<1>8. NothingElse'
  <2>1. PICK i \in DOMAIN body : i = pos
    BY <1>3
  <2>2. Met(i, {"exitfunction"})'
    BY <1>3, <2>1 DEF Met
  <2>3. ForCause(x)'
    BY <1>2, <1>3, <2>1, <2>2 DEF ForCause
  <2>4. \A e \in Content(code') : e \in Content(code) \/ ForCause(e[2])'
    BY <1>4, <2>3
  <2>5. pos' \in Nat /\ pos <= pos'
    BY <1>3
  <2> QED
    BY <1>3, <2>4, <2>5, NothingElseKeeps DEF Building
<1>9. Ended' /\ Verdict'
  BY <1>3 DEF Ended, NoExit, Verdict
<1> QED
  BY <1>5, <1>6, <1>7, <1>8, <1>9 DEF Building

\* The parts of the invariant do not depend on the rest of the state.
LEMMA SameFunction ==
  ASSUME UNCHANGED <<body, pos, frames, inserted, cur, labelBlocks>>
  PROVE  /\ HeldOnce' <=> HeldOnce
         /\ LabelsMet' <=> LabelsMet
         /\ UNCHANGED code => (JumpsAreThere' <=> JumpsAreThere) /\ (NothingElse' <=> NothingElse)
         /\ UNCHANGED code => (WellFormed' <=> WellFormed)
<1>1. HeldOnce' <=> HeldOnce
  BY DEF HeldOnce
<1>2. LabelsMet' <=> LabelsMet
  BY DEF LabelsMet, Met
<1>3. ASSUME UNCHANGED code
      PROVE  JumpsAreThere' <=> JumpsAreThere
  BY <1>3 DEF JumpsAreThere, Crashes
<1>4. ASSUME UNCHANGED code
      PROVE  NothingElse' <=> NothingElse
  BY <1>4 DEF NothingElse, ForCause, InsideOrJump, Met
<1>5. ASSUME UNCHANGED code
      PROVE  WellFormed' <=> WellFormed
  BY <1>5 DEF WellFormed
<1> QED
  BY <1>1, <1>2, <1>3, <1>4, <1>5

LEMMA CrashBuilds == ASSUME Building, TypeOK', GenCrash PROVE Building'
<1>1. /\ UNCHANGED <<body, pos, frames, inserted, cur, labelBlocks, code>>
      /\ status' = "crashed" /\ status = "generate"
  BY DEF GenCrash, AtOp, symtab
<1>2. pos \in DOMAIN body /\ Crashes(body[pos])
  BY AtType DEF Building, GenCrash, AtOp, Crashes, Arg
<1>3. Ended'
  BY <1>1 DEF Building, Ended, NoExit
<1>4. Verdict'
  BY <1>1, <1>2 DEF Verdict, Crashes
<1> QED
  BY <1>1, <1>3, <1>4, SameFunction DEF Building

\* At the end of the function the last block gets its return; nothing else is open.
LEMMA FinishBuilds == ASSUME Building, TypeOK', GenFinish PROVE Building'
<1>1. /\ UNCHANGED <<body, pos, frames, inserted, cur, labelBlocks>>
      /\ status' = "verify" /\ status = "generate" /\ pos > Len(body) /\ frames = <<>>
  BY DEF GenFinish, symtab
<1>2. /\ code \in CodeSeqs /\ Blocks = 1 .. Len(code) /\ inserted \subseteq 1 .. Len(code)
      /\ cur \in 1 .. Len(code) /\ pos \in Nat
  BY CodeType DEF Building
<1>3. PICK x : x = Instr("ret", <<>>, Here)
  OBVIOUS
<1>4. x \in AnyInstr /\ x.op = "ret" /\ x.to = <<>> /\ x.op \in Terminators
  <2>1. Here \in Points /\ "ret" \in InstrOps /\ "ret" \in Terminators /\ <<>> \in Seq(Nat)
    BY <1>2 DEF Here, Stmt, Points, InstrOps, Terminators
  <2> QED
    BY <1>3, <2>1, InstrIsAny DEF Instr
<1>5. PICK xs : xs = <<x>>
  OBVIOUS
<1>6. xs \in Seq(AnyInstr) /\ Closing(xs) /\ Entries(cur, xs) = {<<cur, x>>}
  BY <1>4, <1>5, OneInstr
<1>7. PICK ended : ended = Emit(code, cur, xs)
  OBVIOUS
<1>8. /\ Content(ended) = Content(code) \cup {<<cur, x>>}
      /\ EndsOnly(code) /\ cur \notin Finished(code) => EndsOnly(ended) /\ Finished(ended) = Finished(code) \cup {cur}
  BY ONLY <1>2, <1>6, <1>7, Ending
<1>9. code' = IF IsTerminated(code[cur]) THEN code ELSE ended
  BY <1>3, <1>5, <1>7 DEF GenFinish
<1>10. Content(code) \subseteq Content(code')
  BY <1>8, <1>9
<1>11. JumpsAreThere'
  BY <1>1, <1>10 DEF Building, JumpsAreThere, Crashes
<1>12. NothingElse'
  <2>1. ForCause(x)'
    BY <1>4 DEF ForCause
  <2>2. \A e \in Content(code') : e \in Content(code) \/ ForCause(e[2])'
    BY <1>8, <1>9, <2>1
  <2>3. pos' \in Nat /\ pos <= pos'
    BY <1>1, <1>2
  <2> QED
    BY <1>1, <2>2, <2>3, NothingElseKeeps DEF Building
<1>13. ASSUME NoExit
       PROVE  EndsOnly(code') /\ inserted \subseteq Finished(code')
  <2>1. EndsOnly(code) /\ Finished(code) = Blocks \ Open
    BY <1>1, <1>13 DEF Building, Ended
  <2>2. cur \notin Finished(code)
    BY <2>1, CurIsOpen
  <2>3. ~IsTerminated(code[cur])
    <3>1. Flat(code[cur])
      BY <1>2, <2>1, <2>2 DEF EndsOnly, Finished
    <3>2. code[cur] \in Seq(AnyInstr)
      BY <1>2 DEF CodeSeqs
    <3> QED
      BY <3>1, <3>2 DEF Flat, IsTerminated
  <2>4. EndsOnly(code') /\ Finished(code') = Finished(code) \cup {cur}
    BY <1>8, <1>9, <2>1, <2>2, <2>3
  <2>5. ASSUME NEW b \in inserted, b # cur
        PROVE  b \in Finished(code)
    <3>1. ~HeldByFrames(frames, b) /\ ~HeldByLabels(labelBlocks, inserted, b)
      BY <1>1, <2>5 DEF HeldByFrames, HeldByLabels
    <3> QED
      BY <1>2, <2>1, <2>5, <3>1, UnfinishedIsHeld
  <2> QED
    BY <2>4, <2>5
<1>14. Ended' /\ Verdict'
  BY <1>1, <1>13 DEF Ended, NoExit, Verdict
<1> QED
  BY <1>1, <1>11, <1>12, <1>14, SameFunction DEF Building

LEMMA VerifyBuilds == ASSUME Building, TypeOK', Verify PROVE Building'
<1>1. /\ UNCHANGED <<body, pos, frames, inserted, cur, labelBlocks, code>> /\ status = "verify"
      /\ status' = IF WellFormed THEN "accepted" ELSE "rejected"
  BY DEF Verify, symtab
<1>2. Ended'
  BY <1>1 DEF Building, Ended, NoExit
<1>3. Verdict'
  BY <1>1, SameFunction DEF Building, Verdict
<1> QED
  BY <1>1, <1>2, <1>3, SameFunction DEF Building

LEMMA StutterBuilds == ASSUME Building, TypeOK', UNCHANGED genVars PROVE Building'
<1>1. UNCHANGED <<body, pos, frames, inserted, cur, labelBlocks, code, status>>
  BY DEF genVars, symtab
<1>2. Blocks' = Blocks /\ Open' = Open
  BY <1>1 DEF Blocks, Open
<1>3. Ended'
  BY <1>1, <1>2 DEF Building, Ended, NoExit
<1>4. Verdict'
  BY <1>1, SameFunction DEF Building, Verdict, Crashes
<1> QED
  BY <1>1, <1>3, <1>4, SameFunction DEF Building

LEMMA InitBuilds == ASSUME GenInit, TypeOK PROVE Building
<1>1. PICK s : s = <<>>
  OBVIOUS
<1>2. /\ Len(code) = 1 /\ code[1] = s /\ DOMAIN s = {} /\ frames = <<>> /\ pos = 1
      /\ inserted = {1} /\ cur = 1 /\ status = "generate" /\ body \in Seq(Items)
      /\ labelBlocks = [l \in Labels |-> 0]
  BY <1>1, CodeType DEF GenInit
<1>3. 1 .. Len(code) = {1}
  BY <1>2
<1>4. Content(code) = {}
  BY ONLY <1>2, <1>3 DEF Content
<1>5. Flat(s) /\ ~Closing(s)
  BY <1>1 DEF Flat, Closing
<1>6. EndsOnly(code) /\ Finished(code) = {}
  BY ONLY <1>2, <1>3, <1>5 DEF EndsOnly, Finished
<1>7. HeldOnce
  BY <1>2 DEF HeldOnce, Apart, HeldByFrames
<1>8. \A i \in DOMAIN body : ~(i < pos)
  BY <1>2
<1>9. LabelsMet
  BY <1>2, <1>8 DEF LabelsMet, Injective, Met
<1>10. JumpsAreThere /\ NothingElse
  BY <1>4, <1>8 DEF JumpsAreThere, NothingElse
<1>11. Ended /\ Verdict
  BY <1>2, <1>3, <1>6, OpenIs DEF Ended, Verdict, Blocks
<1> QED
  BY <1>7, <1>9, <1>10, <1>11 DEF Building
-----------------------------------------------------------------------------
\* The invariant holds of every generation.
THEOREM BuildingHolds == GenSpec => []Building
<1>1. GenInit /\ TypeOK => Building
  BY InitBuilds
<1>2. Building /\ TypeOK' /\ [GenNextStep]_genVars => Building'
  <2> SUFFICES ASSUME Building, TypeOK', [GenNextStep]_genVars
               PROVE  Building'
    OBVIOUS
  <2>1. CASE GenExec \/ GenLabel \/ GenGoto \/ GenGosub \/ GenReturn \/ GenCrash
    BY <2>1, ExecBuilds, LabelBuilds, GotoBuilds, GosubBuilds, ReturnBuilds, CrashBuilds
  <2>2. CASE GenIf \/ GenElse \/ GenEndif \/ GenLoop \/ GenEndloop \/ GenFor \/ GenNext
    BY <2>2, IfBuilds, ElseBuilds, EndifBuilds, LoopBuilds, EndloopBuilds, ForBuilds, NextBuilds
  <2>3. CASE GenExit \/ GenEnd \/ GenExitFunction \/ GenFinish \/ Verify
    BY <2>3, ExitBuilds, EndBuilds, ExitFunctionBuilds, FinishBuilds, VerifyBuilds
  <2>4. CASE UNCHANGED genVars
    BY <2>4, StutterBuilds
  <2> QED
    BY <2>1, <2>2, <2>3, <2>4 DEF GenNextStep
<1> QED
  BY <1>1, <1>2, TypeCorrect, PTL DEF GenSpec

\* Without exitfunction no block gets an instruction behind its terminator, and
\* the blocks without one are those that the generator, a suspended call of it or
\* a label that was not met yet will still end.
THEOREM TerminatedOnce == GenSpec => []TerminatedExactlyOnce
<1>1. Building => TerminatedExactlyOnce
  <2> SUFFICES ASSUME Building, NoExit, status = "generate", NEW b \in Blocks
               PROVE  /\ IsTerminated(code[b]) <=> b \notin Open
                      /\ \A i \in DOMAIN code[b] : code[b][i].op \in Terminators => i = Len(code[b])
    BY DEF TerminatedExactlyOnce, NoExit
  <2>1. EndsOnly(code) /\ Finished(code) = Blocks \ Open
    BY DEF Building, Ended
  <2>2. code[b] \in Seq(AnyInstr) /\ Blocks = 1 .. Len(code)
    BY CodeType DEF Building, CodeSeqs
  <2>3. Closing(code[b]) <=> b \notin Open
    BY <2>1, <2>2 DEF Finished
  <2>4. Flat(code[b]) \/ Closing(code[b])
    BY <2>1, <2>2 DEF EndsOnly
  <2>5. CASE Closing(code[b])
    <3>1. IsTerminated(code[b])
      BY <2>2, <2>5 DEF Closing, IsTerminated
    <3> QED
      BY <2>3, <2>5, <3>1 DEF Closing
  <2>6. CASE Flat(code[b])
    <3>1. ~IsTerminated(code[b]) /\ ~Closing(code[b])
      BY <2>2, <2>6 DEF Flat, Closing, IsTerminated
    <3> QED
      BY <2>3, <2>6, <3>1 DEF Flat
  <2> QED
    BY <2>4, <2>5, <2>6
<1> QED
  BY <1>1, BuildingHolds, PTL

\* The compiler crashes on a function, or LLVM's verifier accepts or rejects what
\* is generated for it, for reasons that its statements show.
THEOREM VerdictExact == GenSpec => []VerdictIsExact
<1>1. Building => VerdictIsExact
  <2> SUFFICES ASSUME Building
               PROVE  VerdictIsExact
    OBVIOUS
  <2>1. body \in Seq(Items) /\ pos \in Nat /\ inserted \subseteq 1 .. Len(code)
    BY CodeType DEF Building
  <2>2. ASSUME status \in {"verify", "accepted", "rejected"}, NEW i \in DOMAIN body
        PROVE  i < pos /\ ~Crashes(body[i])
    <3>1. i < pos
      BY <2>1, <2>2 DEF Building, Verdict
    <3> QED
      BY <3>1 DEF Building, JumpsAreThere
  <2>3. status # "generate" => (status = "crashed" <=> \E i \in DOMAIN body : Crashes(body[i]))
    <3>1. status \in {"generate", "verify", "accepted", "rejected", "crashed"}
      BY DEF Building, TypeOK
    <3>2. status = "crashed" => \E i \in DOMAIN body : Crashes(body[i])
      BY DEF Building, Verdict
    <3> QED
      BY <2>2, <3>1, <3>2
  <2>4. ASSUME status \in {"accepted", "rejected"}, WellFormed, NEW i \in DOMAIN body
        PROVE  Local(body[i])
    <3>1. i < pos /\ ~Crashes(body[i])
      BY <2>2, <2>4
    <3>2. \A e \in Content(code) : e[1] \in inserted =>
            /\ e[2].op # "retvalue"
            /\ \A k \in DOMAIN e[2].to : e[2].to[k] \in inserted
      BY <2>4 DEF Content, WellFormed
    <3>3. body[i].op # "exitfunction"
      BY <3>1, <3>2 DEF Building, JumpsAreThere
    <3>4. ASSUME body[i].op \in {"goto", "gosub"}
          PROVE  body[i].arg \in OwnLabels
      <4>1. body[i].arg \in Labels
        BY <2>1, <3>1, <3>4, CodeType, BodiesAreItems DEF Building, Crashes, HasLabel
      <4>2. labelBlocks[body[i].arg] \in inserted
        BY <3>1, <3>2, <3>4 DEF Building, JumpsAreThere
      <4> QED
        BY <4>1, <4>2 DEF Building, LabelsMet, Met, OwnLabels
    <3> QED
      BY <3>3, <3>4 DEF Local
  <2>5. ASSUME status \in {"accepted", "rejected"}, \A i \in DOMAIN body : Local(body[i])
        PROVE  WellFormed
    <3>1. NoExit
      BY <2>5 DEF NoExit, Local
    <3>2. EndsOnly(code) /\ inserted \subseteq Finished(code)
      BY <2>5, <3>1 DEF Building, Ended
    <3>3. ASSUME NEW t, InsideOrJump(t)
          PROVE  t \in inserted
      <4>1. SUFFICES ASSUME NEW i \in DOMAIN body, Met(i, {"goto", "gosub"}), labelBlocks[body[i].arg] = t
                     PROVE  t \in inserted
        BY <3>3 DEF InsideOrJump
      <4>2. body[i].arg \in Labels /\ body[i].arg \in OwnLabels
        <5>1. body[i].op \in {"goto", "gosub"} /\ ~Crashes(body[i]) /\ Local(body[i])
          BY <2>2, <2>5, <4>1 DEF Met
        <5>2. body[i].arg \in Labels
          BY <2>1, <5>1, CodeType, BodiesAreItems DEF Building, Crashes, HasLabel
        <5> QED
          BY <5>1, <5>2 DEF Local
      <4>3. PICK j \in DOMAIN body : body[j].op = "label" /\ body[j].arg = body[i].arg
        BY <4>2 DEF OwnLabels
      <4>4. Met(j, {"label"})
        BY <2>2, <2>5, <4>3 DEF Met
      <4> QED
        BY <4>1, <4>2, <4>3, <4>4 DEF Building, LabelsMet
    <3>4. ASSUME NEW b \in inserted, NEW i \in DOMAIN code[b]
          PROVE  /\ code[b][i].op # "retvalue"
                 /\ \A k \in DOMAIN code[b][i].to : code[b][i].to[k] \in inserted
      <4>1. PICK e : e = <<b, code[b][i]>>
        OBVIOUS
      <4>2. e \in Content(code) /\ e[2] = code[b][i]
        BY <2>1, <4>1 DEF Content
      <4>3. ForCause(code[b][i])
        BY <4>2 DEF Building, NothingElse
      <4> QED
        BY <3>1, <3>3, <4>3 DEF ForCause, Met, NoExit
    <3>5. ASSUME NEW b \in inserted
          PROVE  /\ IsTerminated(code[b])
                 /\ \A i \in DOMAIN code[b] : code[b][i].op \in Terminators => i = Len(code[b])
      <4>1. Closing(code[b]) /\ code[b] \in Seq(AnyInstr)
        BY <2>1, <3>2, CodeType DEF Building, CodeSeqs, Finished
      <4> QED
        BY <4>1 DEF Closing, IsTerminated
    <3> QED
      BY <3>4, <3>5 DEF WellFormed
  <2>6. status \in {"accepted", "rejected"} => (status = "accepted" <=> \A i \in DOMAIN body : Local(body[i]))
    BY <2>4, <2>5 DEF Building, Verdict
  <2> QED
    BY <2>3, <2>6 DEF VerdictIsExact
<1> QED
  BY <1>1, BuildingHolds, PTL

-----------------------------------------------------------------------------
(* The brackets of a body, as SourceSemantics counts them.                 *)

Openers == {"if", "loop", "for"}
Closers == {"endif", "endloop", "next"}
Rise(j) == IF body[j].op \in Openers THEN 1 ELSE IF body[j].op \in Closers THEN -1 ELSE 0
\* Those of a kind from i to j.
Those(ops, i, j) == {k \in i .. j : body[k].op \in ops}
Count(ops, i, j) == Cardinality(Those(ops, i, j))

LEMMA SameCardinality == \A S : Semantics!Cardinality(S) = Cardinality(S)
BY DEF Semantics!Cardinality, Cardinality
LEMMA OpenIsCount ==
  \A i, j : Semantics!Open(i, j) = Count(Openers, i, j) - Count(Closers, i, j)
BY SameCardinality DEF Semantics!Open, Count, Those, Openers, Closers

LEMMA CountIsNat ==
  ASSUME NEW ops, NEW i \in Int, NEW j \in Int
  PROVE  Count(ops, i, j) \in Nat /\ IsFiniteSet(Those(ops, i, j))
<1>1. IsFiniteSet(i .. j)
  BY FS_Interval
<1>2. Those(ops, i, j) \in SUBSET (i .. j)
  BY DEF Those
<1>3. IsFiniteSet(Those(ops, i, j))
  BY <1>1, <1>2, FS_Subset
<1> QED
  BY <1>3, FS_CardinalityType DEF Count

\* The count up to one more item ...
LEMMA CountNext ==
  ASSUME NEW ops, NEW i \in Int, NEW j \in Int, i <= j + 1
  PROVE  Count(ops, i, j + 1) = Count(ops, i, j) + IF body[j + 1].op \in ops THEN 1 ELSE 0
<1>1. IsFiniteSet(Those(ops, i, j)) /\ Count(ops, i, j) \in Nat
  BY CountIsNat
<1>2. j + 1 \notin Those(ops, i, j)
  BY DEF Those
<1>3. CASE body[j + 1].op \in ops
  <2>1. Those(ops, i, j + 1) = Those(ops, i, j) \cup {j + 1}
    BY <1>3 DEF Those
  <2> QED
    BY <2>1, <1>1, <1>2, <1>3, FS_AddElement DEF Count
<1>4. CASE body[j + 1].op \notin ops
  <2>1. Those(ops, i, j + 1) = Those(ops, i, j)
    BY <1>4 DEF Those
  <2> QED
    BY <2>1, <1>1, <1>4 DEF Count
<1> QED
  BY <1>3, <1>4

LEMMA CountOfTwo ==
  ASSUME NEW A, NEW B, IsFiniteSet(A), IsFiniteSet(B), A \cap B = {}
  PROVE  Cardinality(A \cup B) = Cardinality(A) + Cardinality(B)
<1>1. Cardinality(A \cup B) = Cardinality(A) + Cardinality(B) - Cardinality(A \cap B)
  BY FS_Union
<1>2. Cardinality(A) \in Nat /\ Cardinality(B) \in Nat
  BY FS_CardinalityType
<1> QED
  BY <1>1, <1>2, FS_EmptySet

\* ... and of two parts.
LEMMA CountSplit ==
  ASSUME NEW ops, NEW i \in Int, NEW m \in Int, NEW j \in Int, i <= m + 1, m <= j
  PROVE  Count(ops, i, j) = Count(ops, i, m) + Count(ops, m + 1, j)
<1> DEFINE A == Those(ops, i, m)
           B == Those(ops, m + 1, j)
<1>1. IsFiniteSet(A) /\ IsFiniteSet(B)
  BY CountIsNat
<1>2. A \cap B = {} /\ Those(ops, i, j) = A \cup B
  BY DEF Those
<1>6. Cardinality(A \cup B) = Cardinality(A) + Cardinality(B)
  BY <1>1, <1>2, CountOfTwo
<1>7. Count(ops, i, j) = Cardinality(A \cup B)
  BY <1>2 DEF Count
<1> QED
  BY <1>6, <1>7 DEF Count

\* Open from one item to the next, ...
LEMMA OpenNext ==
  ASSUME NEW i \in Int, NEW j \in Int, i <= j + 1
  PROVE  /\ Semantics!Open(i, j) \in Int
         /\ Semantics!Open(i, j + 1) = Semantics!Open(i, j) + Rise(j + 1)
         /\ Semantics!Open(i, i - 1) = 0
<1>1. Count(Openers, i, j) \in Nat /\ Count(Closers, i, j) \in Nat
  BY CountIsNat
<1>2. /\ Count(Openers, i, j + 1) = Count(Openers, i, j) + IF body[j + 1].op \in Openers THEN 1 ELSE 0
      /\ Count(Closers, i, j + 1) = Count(Closers, i, j) + IF body[j + 1].op \in Closers THEN 1 ELSE 0
  BY CountNext
<1>3. Openers \cap Closers = {}
  BY DEF Openers, Closers
<1>4. Count(Openers, i, i - 1) = 0 /\ Count(Closers, i, i - 1) = 0
  <2>1. \A ops : Those(ops, i, i - 1) = {}
    BY DEF Those
  <2> QED
    BY <2>1, FS_EmptySet DEF Count
<1> QED
  BY <1>1, <1>2, <1>3, <1>4, OpenIsCount DEF Rise

\* ... and in two parts.
LEMMA OpenSplit ==
  ASSUME NEW i \in Int, NEW m \in Int, NEW j \in Int, i <= m + 1, m <= j
  PROVE  Semantics!Open(i, j) = Semantics!Open(i, m) + Semantics!Open(m + 1, j)
<1>1. /\ Count(Openers, i, m) \in Nat /\ Count(Closers, i, m) \in Nat
      /\ Count(Openers, m + 1, j) \in Nat /\ Count(Closers, m + 1, j) \in Nat
  BY CountIsNat
<1>2. /\ Count(Openers, i, j) = Count(Openers, i, m) + Count(Openers, m + 1, j)
      /\ Count(Closers, i, j) = Count(Closers, i, m) + Count(Closers, m + 1, j)
  BY CountSplit
<1> QED
  BY <1>1, <1>2, OpenIsCount

\* Item j closes what item i opens.
Match(i, j) ==
  /\ i \in DOMAIN body /\ body[i].op \in Openers
  /\ j \in i .. Len(body) /\ Semantics!Open(i, j) = 0
  /\ \A m \in i .. j - 1 : Semantics!Open(i, m) # 0
Balanced == \A i \in DOMAIN body : body[i].op \in Openers => \E j \in DOMAIN body : Match(i, j)

\* First(S) is the element of S below all others.
LEMMA FirstIs ==
  ASSUME NEW S \in SUBSET Int, NEW j \in S, \A k \in S : j <= k
  PROVE  Semantics!First(S) = j
<1>1. \A x \in S : (\A k \in S : x <= k) => x = j
  OBVIOUS
<1> QED
  BY <1>1 DEF Semantics!First

LEMMA MatchIsClose ==
  ASSUME NEW i, NEW j, Match(i, j), body \in Seq(Items)
  PROVE  Semantics!CloseOf(i) = j
<1> DEFINE S == {m \in i .. Len(body) : Semantics!Open(i, m) = 0}
<1>1. i \in Int /\ Len(body) \in Int /\ S \in SUBSET Int /\ j \in S
  BY DEF Match
<1>2. \A m \in S : j <= m
  BY <1>1 DEF Match
<1>3. Semantics!First(S) = j
  BY <1>1, <1>2, FirstIs
<1> QED
  BY <1>3 DEF Semantics!CloseOf

\* An item closes one other.
LEMMA MatchOnce ==
  ASSUME NEW i, NEW k, NEW j, Match(i, j), Match(k, j), body \in Seq(Items)
  PROVE  i = k
<1>1. ASSUME NEW a, NEW b, Match(a, j), Match(b, j), a < b
      PROVE  FALSE
  <2>1. a \in Int /\ b \in Int /\ j \in Int /\ a <= b - 1 /\ b <= j
    BY <1>1 DEF Match
  <2>2. Semantics!Open(a, j) = Semantics!Open(a, b - 1) + Semantics!Open(b - 1 + 1, j)
    BY <2>1, OpenSplit
  <2>3. b - 1 + 1 = b /\ b - 1 \in a .. j - 1
    BY <2>1
  <2>4. Semantics!Open(a, b - 1) \in Int
    BY <2>1, OpenNext
  <2> QED
    BY <2>2, <2>3, <2>4, <1>1 DEF Match
<1>2. i \in Int /\ k \in Int
  <2>1. Len(body) \in Int /\ DOMAIN body = 1 .. Len(body)
    OBVIOUS
  <2> QED
    BY <2>1 DEF Match
<1>3. ~(i < k) /\ ~(k < i)
  BY <1>1
<1> QED
  BY <1>2, <1>3

\* When everything is closed, an item closes what is opened where OpenOf says.
LEMMA MatchIsOpen ==
  ASSUME NEW i, NEW j, Match(i, j), Balanced, body \in Seq(Items)
  PROVE  Semantics!OpenOf(j) = i
<1>1. i \in 1 .. j /\ body[i].op \in Openers /\ Semantics!CloseOf(i) = j
  BY MatchIsClose DEF Match
<1>2. ASSUME NEW k \in 1 .. j, body[k].op \in Openers, Semantics!CloseOf(k) = j
      PROVE  k = i
  <2>1. k \in DOMAIN body
    BY <1>2 DEF Match
  <2>2. PICK m : Match(k, m)
    BY <2>1, <1>2 DEF Balanced
  <2>3. m = j
    BY <2>2, <1>2, MatchIsClose
  <2> QED
    BY <2>2, <2>3, MatchOnce
<1> QED
  BY <1>1, <1>2 DEF Semantics!OpenOf, Openers

LEMMA OpenAt ==
  ASSUME NEW i \in Int, NEW j \in Int, i <= j
  PROVE  /\ Semantics!Open(i, j) = Semantics!Open(i, j - 1) + Rise(j)
         /\ Semantics!Open(i, j - 1) \in Int
         /\ Semantics!Open(j, j - 1) = 0
<1>1. PICK k \in Int : k = j - 1
  OBVIOUS
<1>2. i <= k + 1 /\ k + 1 = j /\ j <= j + 1
  BY <1>1
<1>3. Semantics!Open(i, k + 1) = Semantics!Open(i, k) + Rise(k + 1) /\ Semantics!Open(i, k) \in Int
  BY <1>2, OpenNext
<1>4. Semantics!Open(j, j - 1) = 0
  BY <1>2, OpenNext
<1> QED
  BY <1>1, <1>2, <1>3, <1>4

-----------------------------------------------------------------------------
(* The frames are the brackets that are open.                              *)

\* At item p, frame f has been entered and d levels are open since.
NestedFrame(f, d, p) ==
  /\ f.at \in 1 .. p - 1 /\ f.at \in DOMAIN body /\ body[f.at].op \in Openers
  /\ \A j \in f.at .. p - 1 : Semantics!Open(f.at, j) >= 1
  /\ Semantics!Open(f.at, p - 1) = d
  /\ f.kind = "if" => \A j \in f.at .. p - 1 : ~(body[j].op = "else" /\ Semantics!Open(f.at, j) = 1)
  /\ f.kind = "else" =>
       /\ f.mid \in f.at + 1 .. p - 1 /\ f.mid \in DOMAIN body
       /\ body[f.mid].op = "else" /\ f.mid = Semantics!ElseOf(f.at)
       /\ \A j \in f.mid .. p - 1 : Semantics!Open(f.mid, j) >= 0
       /\ Semantics!Open(f.mid, p - 1) = d - 1
Entered(i, fs) == \E k \in DOMAIN fs : fs[k].at = i
Nested(fs, p) ==
  /\ \A k \in DOMAIN fs : NestedFrame(fs[k], Len(fs) - k + 1, p)
  /\ \A i \in DOMAIN body : i < p /\ body[i].op \in Openers => Entered(i, fs) \/ \E j \in DOMAIN body : Match(i, j)

\* What is said of the body alone stays true: the body is not changed.
LEMMA SameBrackets ==
  ASSUME body' = body
  PROVE  /\ \A i, j : Semantics!Open(i, j)' = Semantics!Open(i, j)
         /\ \A i : Semantics!CloseOf(i)' = Semantics!CloseOf(i)
         /\ \A i : Semantics!ElseOf(i)' = Semantics!ElseOf(i)
         /\ \A i : Semantics!OpenOf(i)' = Semantics!OpenOf(i)
         /\ \A i : Semantics!LoopPos(i)' = Semantics!LoopPos(i)
         /\ \A i : Semantics!LabelPos(i)' = Semantics!LabelPos(i)
         /\ \A i, j : Match(i, j)' <=> Match(i, j)
         /\ Balanced' <=> Balanced
<1>1. \A i, j : Semantics!Open(i, j)' = Semantics!Open(i, j)
  BY DEF Semantics!Open
<1>2. \A i : Semantics!CloseOf(i)' = Semantics!CloseOf(i)
  BY <1>1 DEF Semantics!CloseOf, Semantics!First
<1>3. \A i : Semantics!ElseOf(i)' = Semantics!ElseOf(i)
  BY <1>1 DEF Semantics!ElseOf, Semantics!First
<1>4. \A i : Semantics!OpenOf(i)' = Semantics!OpenOf(i)
  BY <1>2 DEF Semantics!OpenOf
<1>5. \A i : Semantics!LoopPos(i)' = Semantics!LoopPos(i) /\ Semantics!LabelPos(i)' = Semantics!LabelPos(i)
  BY DEF Semantics!LoopPos, Semantics!LabelPos
<1>6. \A i, j : Match(i, j)' <=> Match(i, j)
  BY <1>1 DEF Match
<1>7. Balanced' <=> Balanced
  BY <1>6 DEF Balanced
<1> QED
  BY <1>1, <1>2, <1>3, <1>4, <1>5, <1>6, <1>7

LEMMA SameNesting ==
  ASSUME body' = body
  PROVE  \A fs, p : Nested(fs, p)' <=> Nested(fs, p)
<1>1. \A f, d, p : NestedFrame(f, d, p)' <=> NestedFrame(f, d, p)
  BY SameBrackets DEF NestedFrame
<1> QED
  BY <1>1, SameBrackets DEF Nested

\* One item on: as many levels are open as before, and what the item adds.
LEMMA FrameGoesOn ==
  ASSUME NEW f, NEW d \in Int, NEW p \in Int, NestedFrame(f, d, p), d + Rise(p) >= 1,
         body[p].op = "else" => d # 1 \/ f.kind # "if"
  PROVE  NestedFrame(f, d + Rise(p), p + 1)
<1>1. /\ f.at \in Int /\ f.at <= p - 1 /\ p - 1 + 1 = p /\ p + 1 - 1 = p
      /\ f.kind = "else" => f.mid \in Int /\ f.mid <= p - 1
  BY DEF NestedFrame
<1>2. Semantics!Open(f.at, p) = Semantics!Open(f.at, p - 1) + Rise(p)
  BY ONLY SMTT(30), <1>1, OpenAt, p \in Int
<1>3. Semantics!Open(f.at, p) = d + Rise(p)
  BY <1>1, <1>2 DEF NestedFrame
<1>4. Rise(p) \in {-1, 0, 1} /\ (body[p].op = "else" => Rise(p) = 0)
  BY DEF Rise, Openers, Closers
<1>5. \A j \in f.at .. p : j = p \/ j \in f.at .. p - 1
  BY <1>1
<1>6. \A j \in f.at .. p : Semantics!Open(f.at, j) >= 1
  BY <1>3, <1>5 DEF NestedFrame
<1>7. f.kind = "if" => \A j \in f.at .. p : ~(body[j].op = "else" /\ Semantics!Open(f.at, j) = 1)
  BY <1>3, <1>4, <1>5 DEF NestedFrame
<1>8. ASSUME f.kind = "else"
      PROVE  /\ \A j \in f.mid .. p : Semantics!Open(f.mid, j) >= 0
             /\ Semantics!Open(f.mid, p) = d + Rise(p) - 1
  <2>1. Semantics!Open(f.mid, p) = Semantics!Open(f.mid, p - 1) + Rise(p)
    BY ONLY SMTT(30), <1>1, <1>8, OpenAt, p \in Int
  <2>2. Semantics!Open(f.mid, p) = d - 1 + Rise(p)
    BY <1>1, <1>8, <2>1 DEF NestedFrame
  <2>3. \A j \in f.mid .. p : j = p \/ j \in f.mid .. p - 1
    BY <1>1, <1>8
  <2> QED
    BY <1>4, <1>8, <2>2, <2>3 DEF NestedFrame
<1>9. /\ f.at \in 1 .. p /\ f.at \in DOMAIN body /\ body[f.at].op \in Openers
      /\ f.kind = "else" =>
           /\ f.mid \in f.at + 1 .. p /\ f.mid \in DOMAIN body
           /\ body[f.mid].op = "else" /\ f.mid = Semantics!ElseOf(f.at)
  BY DEF NestedFrame
<1>10. PICK q \in Int : q = p + 1 /\ q - 1 = p
  BY <1>1
<1>11. NestedFrame(f, d + Rise(p), q)
  <2>1. PICK e \in Int : e = d + Rise(p)
    BY <1>4
  <2>2. /\ \A j \in f.at .. q - 1 : Semantics!Open(f.at, j) >= 1
        /\ Semantics!Open(f.at, q - 1) = e
        /\ f.kind = "if" => \A j \in f.at .. q - 1 : ~(body[j].op = "else" /\ Semantics!Open(f.at, j) = 1)
        /\ f.at \in 1 .. q - 1
    BY <1>3, <1>6, <1>7, <1>9, <1>10, <2>1
  <2>3. f.kind = "else" =>
          /\ f.mid \in f.at + 1 .. q - 1
          /\ \A j \in f.mid .. q - 1 : Semantics!Open(f.mid, j) >= 0
          /\ Semantics!Open(f.mid, q - 1) = e - 1
    <3>1. d + Rise(p) - 1 = e - 1
      BY <1>4, <2>1
    <3> QED
      BY <1>8, <1>9, <1>10, <3>1
  <2>4. NestedFrame(f, e, q)
    BY ONLY <1>9, <2>2, <2>3 DEF NestedFrame
  <2> QED
    BY <2>1, <2>4
<1> QED
  BY <1>10, <1>11

\* A statement that opens and closes nothing.
LEMMA NestedPlain ==
  ASSUME NEW p \in Int, p \in DOMAIN body, body \in Seq(Items), NEW fs \in Seq(Frames), Nested(fs, p),
         body[p].op \notin Openers \cup Closers \cup {"else"}
  PROVE  Nested(fs, p + 1)
<1>1. p \in Int /\ Rise(p) = 0 /\ \A i \in DOMAIN body : i < p + 1 => i < p \/ i = p
  BY DEF Rise
<1>2. \A k \in DOMAIN fs : Len(fs) - k + 1 \in Int /\ Len(fs) - k + 1 >= 1
  OBVIOUS
<1>3. ASSUME NEW k \in DOMAIN fs
      PROVE  NestedFrame(fs[k], Len(fs) - k + 1, p + 1)
  <2>1. NestedFrame(fs[k], Len(fs) - k + 1 + Rise(p), p + 1)
    <3>1. PICK d \in Int : d = Len(fs) - k + 1 /\ d >= 1
      BY <1>2
    <3>2. NestedFrame(fs[k], d, p)
      BY <3>1 DEF Nested
    <3>3. d + Rise(p) >= 1 /\ body[p].op # "else"
      BY <1>1, <3>1
    <3> QED
      BY <3>1, <3>2, <3>3, FrameGoesOn
  <2>2. Len(fs) - k + 1 + Rise(p) = Len(fs) - k + 1
    BY <1>1, <1>2
  <2> QED
    BY <2>1, <2>2
<1> QED
  BY <1>1, <1>3 DEF Nested

\* One that opens a level.
LEMMA NestedPush ==
  ASSUME NEW p \in Int, p \in DOMAIN body, body \in Seq(Items), NEW fs \in Seq(Frames), Nested(fs, p),
         body[p].op \in Openers, NEW g \in Frames, g.at = p, g.kind # "else"
  PROVE  Nested(Append(fs, g), p + 1)
<1> DEFINE gs == Append(fs, g)
<1>1. p \in Int /\ Rise(p) = 1 /\ body[p].op # "else"
  BY DEF Rise, Openers
<1>2. Len(gs) = Len(fs) + 1 /\ gs[Len(gs)] = g /\ \A k \in DOMAIN gs : (k \in DOMAIN fs /\ gs[k] = fs[k]) \/ k = Len(gs)
  OBVIOUS
<1>3. ASSUME NEW k \in DOMAIN fs
      PROVE  NestedFrame(fs[k], Len(gs) - k + 1, p + 1)
  <2>1. Len(fs) - k + 1 \in Int /\ Len(fs) - k + 1 >= 1
    OBVIOUS
  <2>2. NestedFrame(fs[k], Len(fs) - k + 1 + Rise(p), p + 1)
    BY <1>1, <2>1, FrameGoesOn DEF Nested
  <2>3. Len(fs) - k + 1 + Rise(p) = Len(gs) - k + 1
    BY <1>1, <1>2, <2>1
  <2> QED
    BY <2>2, <2>3
<1>4. NestedFrame(g, 1, p + 1)
  <2>1. Semantics!Open(p, p - 1) = 0 /\ Semantics!Open(p, p) = Semantics!Open(p, p - 1) + Rise(p)
    <3>1. p \in Int /\ p <= p
      BY <1>1
    <3> QED
      BY ONLY <3>1, OpenAt, Zenon
  <2>2. Semantics!Open(p, p) = 1
    BY <1>1, <2>1
  <2>3. p + 1 - 1 = p /\ p \in 1 .. p
    BY <1>1
  <2>4. \A j \in p .. p : j = p
    BY <1>1
  <2> QED
    BY <1>1, <2>2, <2>3, <2>4 DEF NestedFrame
<1>5. \A k \in DOMAIN gs : NestedFrame(gs[k], Len(gs) - k + 1, p + 1)
  <2>1. Len(gs) - Len(gs) + 1 = 1
    BY <1>2
  <2> QED
    BY <1>2, <1>3, <1>4, <2>1
<1>6. \A i : Entered(i, fs) \/ i = p => Entered(i, gs)
  <2>1. \A k \in DOMAIN fs : k \in DOMAIN gs /\ gs[k] = fs[k]
    OBVIOUS
  <2>2. Len(gs) \in DOMAIN gs /\ gs[Len(gs)].at = p
    BY <1>2
  <2> QED
    BY <2>1, <2>2 DEF Entered
<1>7. \A i \in DOMAIN body : i < p + 1 => i < p \/ i = p
  BY <1>1
<1> QED
  BY <1>5, <1>6, <1>7 DEF Nested

\* The frame on top goes, and p closes what it had opened.
LEMMA NestedPop ==
  ASSUME NEW p \in Int, p \in DOMAIN body, body \in Seq(Items), NEW fs \in Seq(Frames), Nested(fs, p), fs # <<>>,
         body[p].op \in Closers
  PROVE  /\ Nested(SubSeq(fs, 1, Len(fs) - 1), p + 1)
         /\ Match(fs[Len(fs)].at, p)
         /\ fs[Len(fs)].kind = "else" =>
              Semantics!First({j \in fs[Len(fs)].mid .. Len(body) : Semantics!Open(fs[Len(fs)].mid, j) = -1}) = p
<1> DEFINE gs == SubSeq(fs, 1, Len(fs) - 1)
           t == fs[Len(fs)]
<1>1. p \in Int /\ Rise(p) = -1 /\ body[p].op # "else" /\ p <= Len(body) /\ DOMAIN body = 1 .. Len(body) /\ Len(body) \in Int
  BY DEF Rise, Openers, Closers
<1>2. /\ Len(gs) = Len(fs) - 1 /\ DOMAIN gs = 1 .. Len(fs) - 1 /\ Len(fs) \in DOMAIN fs /\ DOMAIN fs = 1 .. Len(fs)
      /\ \A k \in DOMAIN gs : k \in DOMAIN fs /\ gs[k] = fs[k]
      /\ Len(fs) \in Nat
  <2>1. PICK n \in Nat : n = Len(fs)
    OBVIOUS
  <2>2. n # 0 /\ n - 1 \in Nat /\ DOMAIN fs = 1 .. n /\ 1 .. n - 1 \subseteq 1 .. n /\ n \in 1 .. n
    BY <2>1
  <2>3. gs \in Seq(Frames) /\ Len(gs) = n - 1 /\ \A k \in 1 .. n - 1 : gs[k] = fs[k]
    BY <2>1, <2>2
  <2> HIDE DEF gs
  <2>4. DOMAIN gs = 1 .. n - 1
    BY <2>2, <2>3
  <2> QED
    BY ONLY <2>1, <2>2, <2>3, <2>4
<1>3. ASSUME NEW k \in DOMAIN gs
      PROVE  NestedFrame(gs[k], Len(gs) - k + 1, p + 1)
  <2>1. Len(fs) - k + 1 \in Int /\ Len(fs) - k + 1 >= 2
    BY <1>2
  <2>2. NestedFrame(fs[k], Len(fs) - k + 1 + Rise(p), p + 1)
    BY <1>1, <1>2, <2>1, FrameGoesOn DEF Nested
  <2>3. Len(fs) - k + 1 + Rise(p) = Len(gs) - k + 1
    BY <1>1, <1>2, <2>1
  <2> QED
    BY <1>2, <2>2, <2>3
<1>4. NestedFrame(t, 1, p)
  <2>1. Len(fs) - Len(fs) + 1 = 1
    BY <1>2
  <2> QED
    BY <1>2, <2>1 DEF Nested
<1>5. t.at \in Int /\ t.at <= p - 1 /\ p - 1 + 1 = p /\ Semantics!Open(t.at, p - 1) = 1
  BY <1>1, <1>4 DEF NestedFrame
<1>6. Semantics!Open(t.at, p) = 0
  <2>1. Semantics!Open(t.at, p) = Semantics!Open(t.at, p - 1) + Rise(p)
    <3>1. p \in Int /\ t.at \in Int /\ t.at <= p
      BY <1>1, <1>5
    <3> QED
      BY ONLY <3>1, OpenAt, Zenon
  <2> QED
    BY <1>1, <1>5, <2>1
<1>7. Match(t.at, p)
  <2>1. \A m \in t.at .. p - 1 : Semantics!Open(t.at, m) # 0
    BY <1>4 DEF NestedFrame
  <2>2. p \in t.at .. Len(body)
    BY <1>1, <1>5
  <2> QED
    BY <1>4, <1>6, <2>1, <2>2 DEF Match, NestedFrame
<1>8. ASSUME t.kind = "else"
      PROVE  Semantics!First({j \in t.mid .. Len(body) : Semantics!Open(t.mid, j) = -1}) = p
  <2>1. t.mid \in Int /\ t.mid <= p - 1 /\ Semantics!Open(t.mid, p - 1) = 0
    BY <1>1, <1>4, <1>8 DEF NestedFrame
  <2>2. Semantics!Open(t.mid, p) = Semantics!Open(t.mid, p - 1) + Rise(p)
    <3>1. p \in Int /\ t.mid \in Int /\ t.mid <= p
      BY <1>1, <2>1
    <3> QED
      BY ONLY <3>1, OpenAt, Zenon
  <2>3. Semantics!Open(t.mid, p) = -1
    BY <1>1, <1>5, <2>1, <2>2
  <2>4. \A j \in t.mid .. p - 1 : Semantics!Open(t.mid, j) # -1
    BY <1>4, <1>8 DEF NestedFrame
  <2> DEFINE S == {j \in t.mid .. Len(body) : Semantics!Open(t.mid, j) = -1}
  <2>5. S \in SUBSET Int /\ p \in S
    BY <1>1, <2>1, <2>3
  <2>6. \A j \in S : p <= j
    BY <1>1, <2>1, <2>4
  <2> QED
    BY <2>5, <2>6, FirstIs
<1>9. \A i \in DOMAIN body : i < p + 1 /\ body[i].op \in Openers => i < p
  <2>1. body[p].op \notin Openers
    BY DEF Openers, Closers
  <2> QED
    BY <1>1, <2>1
<1>10. \A i : Entered(i, fs) => Entered(i, gs) \/ i = t.at
  <2>1. \A k \in DOMAIN fs : k \in DOMAIN gs \/ k = Len(fs)
    BY <1>2
  <2> QED
    BY <1>2, <2>1 DEF Entered
<1> QED
  BY <1>3, <1>7, <1>8, <1>9, <1>10 DEF Nested

\* The frame on top gets its false branch.
LEMMA NestedElse ==
  ASSUME NEW p \in Int, p \in DOMAIN body, body \in Seq(Items), NEW fs \in Seq(Frames), Nested(fs, p), fs # <<>>,
         body[p].op = "else", fs[Len(fs)].kind = "if",
         NEW g \in Frames, g.kind = "else", g.at = fs[Len(fs)].at, g.mid = p
  PROVE  /\ Nested([fs EXCEPT ![Len(fs)] = g], p + 1)
         /\ Semantics!ElseOf(g.at) = p
<1> DEFINE gs == [fs EXCEPT ![Len(fs)] = g]
<1>1. p \in Int /\ Rise(p) = 0 /\ p <= Len(body) /\ DOMAIN body = 1 .. Len(body) /\ Len(body) \in Int
  BY DEF Rise, Openers, Closers
<1>2. /\ Len(gs) = Len(fs) /\ DOMAIN gs = DOMAIN fs /\ Len(fs) \in DOMAIN fs /\ DOMAIN fs = 1 .. Len(fs)
      /\ \A k \in DOMAIN fs : k # Len(fs) => gs[k] = fs[k]
      /\ gs[Len(fs)] = g /\ Len(fs) \in Nat
  OBVIOUS
<1>3. ASSUME NEW k \in DOMAIN fs, k # Len(fs)
      PROVE  NestedFrame(gs[k], Len(gs) - k + 1, p + 1)
  <2>1. Len(fs) - k + 1 \in Int /\ Len(fs) - k + 1 >= 2
    BY <1>2, <1>3
  <2>2. NestedFrame(fs[k], Len(fs) - k + 1 + Rise(p), p + 1)
    <3>1. PICK d \in Int : d = Len(fs) - k + 1 /\ d # 1
      BY <2>1
    <3>2. NestedFrame(fs[k], d, p)
      BY <3>1 DEF Nested
    <3>3. d + Rise(p) >= 1
      BY <1>1, <2>1, <3>1
    <3> QED
      BY <1>1, <3>1, <3>2, <3>3, FrameGoesOn
  <2>3. Len(fs) - k + 1 + Rise(p) = Len(gs) - k + 1
    BY <1>1, <1>2, <2>1
  <2> QED
    BY <1>2, <1>3, <2>2, <2>3
<1>4. NestedFrame(fs[Len(fs)], 1, p)
  <2>1. Len(fs) - Len(fs) + 1 = 1
    BY <1>2
  <2> QED
    BY <1>2, <2>1 DEF Nested
<1>5. g.at \in Int /\ g.at <= p - 1 /\ p - 1 + 1 = p /\ p + 1 - 1 = p /\ Semantics!Open(g.at, p - 1) = 1
  BY <1>1, <1>4 DEF NestedFrame
<1>6. Semantics!Open(g.at, p) = 1 /\ Semantics!Open(p, p) = 0
  <2>1. Semantics!Open(g.at, p) = Semantics!Open(g.at, p - 1) + Rise(p)
    <3>1. p \in Int /\ g.at \in Int /\ g.at <= p
      BY <1>1, <1>5
    <3> QED
      BY ONLY <3>1, OpenAt, Zenon
  <2>2. Semantics!Open(p, p - 1) = 0 /\ Semantics!Open(p, p) = Semantics!Open(p, p - 1) + Rise(p)
    <3>1. p \in Int /\ p <= p
      BY <1>1
    <3> QED
      BY ONLY <3>1, OpenAt, Zenon
  <2> QED
    BY <1>1, <1>5, <2>1, <2>2
<1>7. Semantics!ElseOf(g.at) = p
  <2> DEFINE S == {j \in g.at .. Len(body) : body[j].op = "else" /\ Semantics!Open(g.at, j) = 1}
  <2>1. S \in SUBSET Int /\ p \in S
    BY <1>1, <1>5, <1>6
  <2>2. \A j \in g.at .. p - 1 : ~(body[j].op = "else" /\ Semantics!Open(g.at, j) = 1)
    BY <1>4 DEF NestedFrame
  <2>3. \A j \in S : p <= j
    BY <1>1, <1>5, <2>2
  <2>4. Semantics!First(S) = p
    BY <2>1, <2>3, FirstIs
  <2> QED
    BY <2>4 DEF Semantics!ElseOf
<1>8. NestedFrame(g, 1, p + 1)
  <2>1. \A j \in g.at .. p : j = p \/ j \in g.at .. p - 1
    BY <1>1, <1>5
  <2>2. \A j \in g.at .. p : Semantics!Open(g.at, j) >= 1
    BY <1>4, <1>6, <2>1 DEF NestedFrame
  <2>3. \A j \in p .. p : j = p
    BY <1>1
  <2>4. g.at \in 1 .. p /\ g.at \in DOMAIN body /\ body[g.at].op \in Openers /\ p \in g.at + 1 .. p
    BY <1>1, <1>4, <1>5 DEF NestedFrame
  <2> QED
    BY <1>5, <1>6, <1>7, <2>2, <2>3, <2>4 DEF NestedFrame
<1>9. \A k \in DOMAIN gs : NestedFrame(gs[k], Len(gs) - k + 1, p + 1)
  <2>1. Len(gs) - Len(gs) + 1 = 1
    BY <1>2
  <2> QED
    BY <1>2, <1>3, <1>8, <2>1
<1>10. \A i : Entered(i, fs) => Entered(i, gs)
  BY <1>2 DEF Entered
<1>11. \A i \in DOMAIN body : i < p + 1 /\ body[i].op \in Openers => i < p
  BY <1>1 DEF Openers
<1> QED
  BY <1>7, <1>9, <1>10, <1>11 DEF Nested

\* At the end nothing is open: everything has been closed.
LEMMA NestedEnd ==
  ASSUME body \in Seq(Items), NEW p \in Int, p > Len(body), Nested(<<>>, p)
  PROVE  Balanced
<1>1. \A i \in DOMAIN body : i < p
  OBVIOUS
<1>2. \A i : ~Entered(i, <<>>)
  BY DEF Entered
<1> QED
  BY <1>1, <1>2 DEF Nested, Balanced

-----------------------------------------------------------------------------
(* The points of the source that the instructions stand for.               *)

\* Between two points of the source, a gosub has pushed its address, and the
\* condition of a for loop has found out the sign of the step.
Spot(x) ==
  IF x.op = "notAbove" THEN <<x.at[1], "rising">>
  ELSE IF x.op = "negative" THEN <<x.at[1], "flat">>
  ELSE IF x.op = "notBelow" THEN <<x.at[1], "falling">>
  ELSE IF x.op = "br" /\ x.at[2] = "at" /\ body[x.at[1]].op = "gosub" THEN <<x.at[1], "pushed">>
  ELSE x.at

\* Where the source is behind an instruction that is no terminator.
Then(x) ==
  IF x.op = "exec" THEN Stmt(x.at[1] + 1)
  ELSE IF x.op = "push" THEN <<x.at[1], "pushed">>
  ELSE IF x.op = "init" THEN Test(x.at[1])
  ELSE Test(Semantics!OpenOf(x.at[1]))

\* "start" has the spot each block begins at.
Starts(start, b, spot) == b \in DOMAIN start /\ start[b] = spot
To1(x, start, spot) == DOMAIN x.to = {1} /\ Starts(start, x.to[1], spot)
To2(x, start, yes, no) ==
  DOMAIN x.to = {1, 2} /\ Starts(start, x.to[1], yes) /\ Starts(start, x.to[2], no)

\* The branch of a statement leads where the source goes on.
EndifOf(i) == Semantics!First({j \in i .. Len(body) : Semantics!Open(i, j) = -1})
BrGoes(i, spot) ==
  \/ body[i].op \in {"label", "loop", "endif"} /\ spot = Stmt(i + 1)
  \/ body[i].op \in {"goto", "gosub"} /\ spot = Stmt(Semantics!LabelPos(body[i].arg) + 1)
  \/ body[i].op = "else" /\ spot = Stmt(EndifOf(i) + 1)
  \/ body[i].op = "endloop" /\ spot = Stmt(Semantics!OpenOf(i) + 1)
  \/ body[i].op = "exit" /\ spot = Stmt(Semantics!CloseOf(Semantics!LoopPos(body[i].arg)) + 1)
  \/ body[i].op = "next" /\ spot = Stmt(i)

OfStmt(x, op) == x.at = Stmt(x.at[1]) /\ x.at[1] \in DOMAIN body /\ body[x.at[1]].op = op
OfTest(x) == x.at = Test(x.at[1]) /\ x.at[1] \in DOMAIN body /\ body[x.at[1]].op = "for"
OfLoop(x) == OfTest(x) /\ x.loop = body[x.at[1]].arg

\* An instruction does what its statement says and leads where that goes on.
Computes(x) ==
  \/ x.op = "exec" /\ OfStmt(x, "exec")
  \/ x.op = "init" /\ OfStmt(x, "for") /\ x.loop = body[x.at[1]].arg
  \/ x.op = "step" /\ OfStmt(x, "next") /\ x.loop = body[Semantics!OpenOf(x.at[1])].arg
Branches(x, start) ==
  /\ x.op = "br"
  /\ \/ /\ x.at = Stmt(x.at[1]) /\ x.at[1] \in DOMAIN body
        /\ \E spot : BrGoes(x.at[1], spot) /\ To1(x, start, spot)
     \/ OfTest(x) /\ To1(x, start, Test(x.at[1]))
Chooses(x, start) ==
  \/ x.op = "choice" /\ OfStmt(x, "if")
       /\ To2(x, start, Stmt(x.at[1] + 1), Stmt(Semantics!ElseOf(x.at[1]) + 1))
  \/ x.op = "positive" /\ OfLoop(x)
       /\ To2(x, start, <<x.at[1], "rising">>, <<x.at[1], "flat">>)
  \/ x.op = "negative" /\ OfLoop(x)
       /\ To2(x, start, <<x.at[1], "falling">>, Stmt(Semantics!CloseOf(x.at[1]) + 1))
  \/ x.op \in {"notAbove", "notBelow"} /\ OfLoop(x)
       /\ To2(x, start, Stmt(x.at[1] + 1), Stmt(Semantics!CloseOf(x.at[1]) + 1))
Returns(x, start) ==
  \/ x.op = "push" /\ OfStmt(x, "gosub") /\ To1(x, start, Stmt(x.at[1] + 1))
  \/ x.op = "indirectbr" /\ OfStmt(x, "return")
  \/ x.op = "ret" /\ (OfStmt(x, "end") \/ x.at = Stmt(Len(body) + 1))
Right(x, start) == Computes(x) \/ Branches(x, start) \/ Chooses(x, start) \/ Returns(x, start)

\* From one instruction of a block to the next; and where it leaves the source.
Chain(xs, s) ==
  /\ xs # <<>> => Spot(xs[1]) = s
  /\ \A i, j \in DOMAIN xs : j = i + 1 => Spot(xs[j]) = Then(xs[i])
Leaves(xs, s) == IF xs = <<>> THEN s ELSE Then(xs[Len(xs)])
Linked(blocks, start) ==
  \A b \in 1 .. Len(blocks) :
    /\ b \in DOMAIN start /\ Chain(blocks[b], start[b])
    /\ \A i \in DOMAIN blocks[b] : Right(blocks[b][i], start)
Stands(blocks, start, b, spot) == b \in 1 .. Len(blocks) /\ Leaves(blocks[b], start[b]) = spot

\* More blocks get a start.
Extends(start, more) == \A b \in DOMAIN start : b \in DOMAIN more /\ more[b] = start[b]
\* Blocks other than those of T stand where they did.
Keeps(blocks, start, after, more, T) ==
  \A b, spot : b \notin T /\ Stands(blocks, start, b, spot) => Stands(after, more, b, spot)

-----------------------------------------------------------------------------
\* None of this changes.
LEMMA SameSpots ==
  ASSUME body' = body
  PROVE  /\ \A x : Spot(x)' = Spot(x) /\ Then(x)' = Then(x)
         /\ \A xs, s : Chain(xs, s)' <=> Chain(xs, s)
         /\ \A xs, s : Leaves(xs, s)' = Leaves(xs, s)
         /\ \A blocks, start, b, spot : Stands(blocks, start, b, spot)' <=> Stands(blocks, start, b, spot)
<1>1. \A x : Spot(x)' = Spot(x)
  BY DEF Spot
<1>2. \A x : Then(x)' = Then(x)
  BY SameBrackets DEF Then, Stmt, Test
<1>3. \A xs, s : Chain(xs, s)' <=> Chain(xs, s)
  BY <1>1, <1>2 DEF Chain
<1>4. \A xs, s : Leaves(xs, s)' = Leaves(xs, s)
  BY <1>2 DEF Leaves
<1>5. \A blocks, start, b, spot : Stands(blocks, start, b, spot)' <=> Stands(blocks, start, b, spot)
  BY <1>4 DEF Stands
<1> QED
  BY <1>1, <1>2, <1>3, <1>4, <1>5

LEMMA SameRight ==
  ASSUME body' = body
  PROVE  /\ \A x, start : Right(x, start)' <=> Right(x, start)
         /\ \A blocks, start : Linked(blocks, start)' <=> Linked(blocks, start)
<1>1. \A i : EndifOf(i)' = EndifOf(i)
  BY SameBrackets DEF EndifOf, Semantics!First
<1>2. \A i, spot : BrGoes(i, spot)' <=> BrGoes(i, spot)
  BY <1>1, SameBrackets DEF BrGoes, Stmt
<1>3. /\ \A x, op : OfStmt(x, op)' <=> OfStmt(x, op)
      /\ \A x : (OfTest(x)' <=> OfTest(x)) /\ (OfLoop(x)' <=> OfLoop(x))
  BY DEF OfStmt, OfTest, OfLoop, Stmt, Test
<1>4. /\ \A x, start, spot : To1(x, start, spot)' <=> To1(x, start, spot)
      /\ \A x, start, yes, no : To2(x, start, yes, no)' <=> To2(x, start, yes, no)
  BY DEF To1, To2, Starts
<1>5. \A x : Computes(x)' <=> Computes(x)
  BY <1>3, SameBrackets DEF Computes
<1>6. \A x, start : Branches(x, start)' <=> Branches(x, start)
  BY <1>2, <1>3, <1>4 DEF Branches, Stmt, Test
<1>7. \A x, start : Chooses(x, start)' <=> Chooses(x, start)
  BY <1>3, <1>4, SameBrackets DEF Chooses, Stmt
<1>8. \A x, start : Returns(x, start)' <=> Returns(x, start)
  BY <1>3, <1>4 DEF Returns, Stmt
<1>9. \A x, start : Right(x, start)' <=> Right(x, start)
  BY <1>5, <1>6, <1>7, <1>8 DEF Right
<1> QED
  BY <1>9, SameSpots DEF Linked

\* A block that leads somewhere still does so when others get a start.
LEMMA StartsGrow ==
  ASSUME NEW start, NEW more, Extends(start, more)
  PROVE  /\ \A b, spot : Starts(start, b, spot) => Starts(more, b, spot)
         /\ \A x, spot : To1(x, start, spot) => To1(x, more, spot)
         /\ \A x, yes, no : To2(x, start, yes, no) => To2(x, more, yes, no)
BY DEF Extends, Starts, To1, To2

LEMMA RightGrows ==
  ASSUME NEW start, NEW more, Extends(start, more), NEW x, Right(x, start)
  PROVE  Right(x, more)
<1>1. Branches(x, start) => Branches(x, more)
  BY StartsGrow DEF Branches
<1>2. Chooses(x, start) => Chooses(x, more)
  BY StartsGrow DEF Chooses
<1>3. Returns(x, start) => Returns(x, more)
  BY StartsGrow DEF Returns
<1> QED
  BY <1>1, <1>2, <1>3 DEF Right

LEMMA LinkedGrows ==
  ASSUME NEW blocks, NEW start, NEW more, Extends(start, more), Linked(blocks, start)
  PROVE  Linked(blocks, more) /\ \A T : Keeps(blocks, start, blocks, more, T)
<1>1. \A b \in 1 .. Len(blocks) : b \in DOMAIN start /\ b \in DOMAIN more /\ more[b] = start[b]
  BY DEF Linked, Extends
<1>2. Linked(blocks, more)
  BY <1>1, RightGrows DEF Linked
<1> QED
  BY <1>1, <1>2 DEF Keeps, Stands

LEMMA NoneIsEmpty == ASSUME NEW S, NEW s \in Seq(S), Len(s) = 0 PROVE s = <<>>
OBVIOUS

\* An instruction is put behind others.
LEMMA ChainGrows ==
  ASSUME NEW xs \in Seq(AnyInstr), NEW x \in AnyInstr, NEW s, Chain(xs, s), Spot(x) = Leaves(xs, s)
  PROVE  Chain(xs \o <<x>>, s) /\ Leaves(xs \o <<x>>, s) = Then(x)
<1>1. PICK n \in Nat : n = Len(xs)
  OBVIOUS
<1>2. PICK u : u = xs \o <<x>>
  OBVIOUS
<1>3. <<x>> \in Seq(AnyInstr) /\ Len(<<x>>) = 1 /\ <<x>>[1] = x
  OBVIOUS
<1>4. /\ Len(u) = n + 1 /\ DOMAIN u = 1 .. n + 1 /\ DOMAIN xs = 1 .. n
      /\ \A i \in 1 .. n : u[i] = xs[i]
      /\ u[n + 1] = x /\ u # <<>>
  BY <1>1, <1>2, <1>3
<1>5. u # <<>> => Spot(u[1]) = s
  <2>1. CASE n = 0
    <3>1. xs = <<>>
      BY <1>1, <2>1, NoneIsEmpty
    <3> QED
      BY <1>4, <2>1, <3>1 DEF Leaves
  <2>2. CASE n # 0
    <3>1. xs # <<>> /\ 1 \in 1 .. n
      BY <1>1, <2>2
    <3> QED
      BY <1>4, <3>1 DEF Chain
  <2> QED
    BY <2>1, <2>2
<1>6. ASSUME NEW i \in DOMAIN u, NEW j \in DOMAIN u, j = i + 1
      PROVE  Spot(u[j]) = Then(u[i])
  <2>1. CASE j = n + 1
    <3>1. i = n /\ n \in 1 .. n /\ xs # <<>>
      BY <1>1, <1>4, <1>6, <2>1
    <3> QED
      BY <1>1, <1>4, <2>1, <3>1 DEF Leaves
  <2>2. CASE j # n + 1
    <3>1. i \in 1 .. n /\ j \in 1 .. n
      BY <1>4, <1>6, <2>2
    <3> QED
      BY <1>4, <1>6, <3>1 DEF Chain
  <2> QED
    BY <2>1, <2>2
<1>7. Leaves(u, s) = Then(x)
  BY <1>4 DEF Leaves
<1> QED
  BY <1>2, <1>5, <1>6, <1>7 DEF Chain

LEMMA EmitOne ==
  ASSUME NEW blocks \in CodeSeqs, NEW b, b \in 1 .. Len(blocks), NEW x \in AnyInstr, NEW start,
         Linked(blocks, start), Stands(blocks, start, b, Spot(x)), Right(x, start),
         NEW after, after = Emit(blocks, b, <<x>>)
  PROVE  /\ after \in CodeSeqs /\ Len(after) = Len(blocks)
         /\ Linked(after, start)
         /\ Keeps(blocks, start, after, start, {b})
         /\ Stands(after, start, b, Then(x))
<1>1. blocks \in Seq(Seq(AnyInstr)) /\ <<x>> \in Seq(AnyInstr)
  BY DEF CodeSeqs
<1>2. /\ after \in Seq(Seq(AnyInstr)) /\ Len(after) = Len(blocks) /\ after[b] = blocks[b] \o <<x>>
      /\ \A c \in 1 .. Len(blocks) : c # b => after[c] = blocks[c]
  <2>1. /\ Emit(blocks, b, <<x>>) \in Seq(Seq(AnyInstr)) /\ Len(Emit(blocks, b, <<x>>)) = Len(blocks)
        /\ Emit(blocks, b, <<x>>)[b] = blocks[b] \o <<x>>
        /\ \A c \in 1 .. Len(blocks) : c # b => Emit(blocks, b, <<x>>)[c] = blocks[c]
    BY ONLY <1>1, b \in 1 .. Len(blocks), EmitAt
  <2> QED
    BY <2>1, Zenon
<1>3. PICK xs \in Seq(AnyInstr) : xs = blocks[b]
  BY <1>1
<1>4. Chain(after[b], start[b]) /\ Leaves(after[b], start[b]) = Then(x)
  <2>1. Chain(xs, start[b]) /\ Spot(x) = Leaves(xs, start[b])
    BY <1>3 DEF Linked, Stands
  <2>2. Chain(xs \o <<x>>, start[b]) /\ Leaves(xs \o <<x>>, start[b]) = Then(x)
    BY <2>1, ChainGrows
  <2> QED
    BY <1>2, <1>3, <2>2
<1>5. \A i \in DOMAIN after[b] : Right(after[b][i], start)
  <2>1. \A i \in DOMAIN xs : Right(xs[i], start)
    BY <1>3 DEF Linked
  <2>2. \A i \in DOMAIN (xs \o <<x>>) : (i \in DOMAIN xs /\ (xs \o <<x>>)[i] = xs[i]) \/ (xs \o <<x>>)[i] = x
    OBVIOUS
  <2> QED
    BY <1>2, <1>3, <2>1, <2>2
<1>6. Linked(after, start)
  BY <1>2, <1>4, <1>5 DEF Linked
<1>7. Keeps(blocks, start, after, start, {b})
  BY <1>2 DEF Keeps, Stands
<1> QED
  BY <1>2, <1>4, <1>6, <1>7 DEF Stands, CodeSeqs

\* Two instructions are put one behind the other.
LEMMA SameSeq ==
  ASSUME NEW S, NEW s \in Seq(S), NEW t \in Seq(S), Len(s) = Len(t), \A i \in 1 .. Len(s) : s[i] = t[i]
  PROVE  s = t
OBVIOUS

LEMMA EmitTwo ==
  ASSUME NEW blocks \in CodeSeqs, NEW b, b \in 1 .. Len(blocks), NEW x \in AnyInstr, NEW y \in AnyInstr
  PROVE  Emit(blocks, b, <<x>> \o <<y>>) = Emit(Emit(blocks, b, <<x>>), b, <<y>>)
<1>1. blocks \in Seq(Seq(AnyInstr)) /\ <<x>> \in Seq(AnyInstr) /\ <<y>> \in Seq(AnyInstr)
      /\ <<x>> \o <<y>> \in Seq(AnyInstr)
  BY DEF CodeSeqs
<1>2. PICK c : c = Emit(blocks, b, <<x>>)
  OBVIOUS
<1>3. /\ c \in Seq(Seq(AnyInstr)) /\ Len(c) = Len(blocks) /\ c[b] = blocks[b] \o <<x>>
      /\ \A d \in 1 .. Len(blocks) : d # b => c[d] = blocks[d]
  BY ZenonT(60), <1>1, <1>2, EmitAt
<1>4. PICK e : e = Emit(c, b, <<y>>)
  OBVIOUS
<1>5. /\ e \in Seq(Seq(AnyInstr)) /\ Len(e) = Len(blocks) /\ e[b] = c[b] \o <<y>>
      /\ \A d \in 1 .. Len(blocks) : d # b => e[d] = c[d]
  <2>1. b \in 1 .. Len(c)
    BY <1>3
  <2>2. /\ Emit(c, b, <<y>>) \in Seq(Seq(AnyInstr)) /\ Len(Emit(c, b, <<y>>)) = Len(c)
        /\ Emit(c, b, <<y>>)[b] = c[b] \o <<y>>
        /\ \A d \in 1 .. Len(c) : d # b => Emit(c, b, <<y>>)[d] = c[d]
    BY ONLY ZenonT(60), <1>1, <1>3, <2>1, EmitAt
  <2> QED
    BY <1>3, <1>4, <2>2
<1>6. PICK f : f = Emit(blocks, b, <<x>> \o <<y>>)
  OBVIOUS
<1>7. /\ f \in Seq(Seq(AnyInstr)) /\ Len(f) = Len(blocks) /\ f[b] = blocks[b] \o (<<x>> \o <<y>>)
      /\ \A d \in 1 .. Len(blocks) : d # b => f[d] = blocks[d]
  <2>1. PICK xy \in Seq(AnyInstr) : xy = <<x>> \o <<y>>
    BY <1>1
  <2>2. /\ Emit(blocks, b, xy) \in Seq(Seq(AnyInstr)) /\ Len(Emit(blocks, b, xy)) = Len(blocks)
        /\ Emit(blocks, b, xy)[b] = blocks[b] \o xy
        /\ \A d \in 1 .. Len(blocks) : d # b => Emit(blocks, b, xy)[d] = blocks[d]
    BY ONLY <1>1, b \in 1 .. Len(blocks), xy \in Seq(AnyInstr), EmitAt
  <2> QED
    BY <1>6, <2>1, <2>2
<1>8. e[b] = f[b]
  <2>1. \A xs \in Seq(AnyInstr) : (xs \o <<x>>) \o <<y>> = xs \o (<<x>> \o <<y>>)
    OBVIOUS
  <2>2. blocks[b] \in Seq(AnyInstr)
    BY <1>1
  <2> QED
    BY <1>3, <1>5, <1>7, <2>1, <2>2
<1>9. \A d \in 1 .. Len(blocks) : e[d] = f[d]
  BY <1>3, <1>5, <1>7, <1>8
<1>10. e = f
  <2>1. Len(e) = Len(f) /\ \A d \in 1 .. Len(e) : e[d] = f[d]
    BY <1>5, <1>7, <1>9
  <2> QED
    BY ONLY <1>5, <1>7, <2>1, SameSeq
<1> QED
  BY <1>2, <1>4, <1>6, <1>10

\* A block is added.
LEMMA AppendLinked ==
  ASSUME NEW blocks \in CodeSeqs, NEW start, Linked(blocks, start),
         NEW m, m = Len(blocks) + 1, m \in DOMAIN start,
         NEW xs \in Seq(AnyInstr), Chain(xs, start[m]), \A i \in DOMAIN xs : Right(xs[i], start),
         NEW after, after = Append(blocks, xs)
  PROVE  /\ after \in CodeSeqs /\ Len(after) = m
         /\ Linked(after, start)
         /\ \A T : Keeps(blocks, start, after, start, T)
         /\ Stands(after, start, m, Leaves(xs, start[m]))
<1>1. blocks \in Seq(Seq(AnyInstr))
  BY DEF CodeSeqs
<1>2. PICK n \in Nat : n = Len(blocks)
  BY <1>1
<1>3. /\ after \in Seq(Seq(AnyInstr)) /\ Len(after) = n + 1 /\ m = n + 1 /\ after[n + 1] = xs
      /\ \A c \in 1 .. n : after[c] = blocks[c] /\ c \in 1 .. n + 1
      /\ \A c \in 1 .. n + 1 : c \in 1 .. n \/ c = n + 1
      /\ n + 1 \in 1 .. n + 1
  BY <1>1, <1>2
<1>4. Linked(after, start)
  BY <1>2, <1>3 DEF Linked
<1>5. \A T : Keeps(blocks, start, after, start, T)
  BY <1>2, <1>3 DEF Keeps, Stands
<1> QED
  BY <1>3, <1>4, <1>5 DEF Stands, CodeSeqs

LEMMA NoChain == ASSUME NEW s PROVE Chain(<<>>, s) /\ Leaves(<<>>, s) = s
BY DEF Chain, Leaves

LEMMA AppendNone ==
  ASSUME NEW blocks \in CodeSeqs, NEW start, Linked(blocks, start),
         NEW m, m = Len(blocks) + 1, NEW spot, Starts(start, m, spot),
         NEW after, after = Append(blocks, <<>>)
  PROVE  /\ after \in CodeSeqs /\ Len(after) = m
         /\ Linked(after, start)
         /\ \A T : Keeps(blocks, start, after, start, T)
         /\ Stands(after, start, m, spot)
<1>1. PICK xs \in Seq(AnyInstr) : xs = <<>>
  BY NoInstr
<1>2. Chain(xs, start[m]) /\ Leaves(xs, start[m]) = spot /\ m \in DOMAIN start
  BY <1>1, NoChain DEF Starts
<1>3. \A i \in DOMAIN xs : Right(xs[i], start)
  BY <1>1
<1> QED
  BY <1>1, <1>2, <1>3, AppendLinked

LEMMA KeepsOn ==
  ASSUME NEW a, NEW b, NEW c, NEW r, NEW s, NEW t, NEW T, NEW U,
         Keeps(a, r, b, s, T), Keeps(b, s, c, t, U)
  PROVE  Keeps(a, r, c, t, T \cup U)
BY DEF Keeps

-----------------------------------------------------------------------------
(* Where everything that goes on later stands.                             *)

FrameWaits(f, blocks, start) ==
  /\ f.kind # "for" => Stands(blocks, start, f.outer, Stmt(f.at)) /\ Starts(start, f.first, Stmt(f.at + 1))
  /\ f.kind = "for" => Starts(start, f.first, Test(f.at))
  /\ f.kind = "else" => Stands(blocks, start, f.done, Stmt(f.mid)) /\ Starts(start, f.second, Stmt(f.mid + 1))
  /\ f.kind \in {"loop", "for"} => Stands(blocks, start, f.second, Stmt(Semantics!CloseOf(f.at) + 1))
FramesWait(fs, blocks, start) == \A k \in DOMAIN fs : FrameWaits(fs[k], blocks, start)

Behind(l) == Stmt(Semantics!LabelPos(l) + 1)
LabelWaits(b, l, ins, blocks, start) ==
  b # 0 => Starts(start, b, Behind(l)) /\ (b \notin ins => Stands(blocks, start, b, Behind(l)))
LabelsWait(table, ins, blocks, start) == \A l \in Labels : LabelWaits(table[l], l, ins, blocks, start)

Outside(l) == Stmt(Semantics!CloseOf(Semantics!LoopPos(l)) + 1)
ExitsLead(exits, start) == \A l \in Loops : exits[l] # 0 => Starts(start, exits[l], Outside(l))

\* What a gosub pushes is a return point, and a return has its destinations.
Knows(es, points, returns) ==
  \A e \in es : /\ e[2].op = "push" => e[2].to[1] \in points
                /\ e[2].op = "indirectbr" => e[1] \in DOMAIN returns
\* No block begins between the two instructions of a gosub.
Whole(start) == \A b \in DOMAIN start : start[b][2] # "pushed"

Traced(start) ==
  /\ DOMAIN start = 1 .. Len(code) /\ Whole(start)
  /\ Starts(start, 1, Stmt(1)) /\ 1 \in inserted
  /\ Linked(code, start)
  /\ status = "generate" => Stands(code, start, cur, Stmt(pos))
  /\ FramesWait(frames, code, start)
  /\ LabelsWait(labelBlocks, inserted, code, start)
  /\ ExitsLead(loopExit, start)
  /\ Knows(Content(code), returnPoints, dests)
Laid ==
  /\ status = "generate" => Nested(frames, pos)
  /\ status \in {"verify", "accepted", "rejected"} => Balanced
  /\ NoExit /\ Balanced => \E start : Traced(start)

LEMMA SameWaits ==
  ASSUME body' = body
  PROVE  /\ \A fs, blocks, start : FramesWait(fs, blocks, start)' <=> FramesWait(fs, blocks, start)
         /\ \A table, ins, blocks, start :
              LabelsWait(table, ins, blocks, start)' <=> LabelsWait(table, ins, blocks, start)
         /\ \A exits, start : ExitsLead(exits, start)' <=> ExitsLead(exits, start)
<1>1. \A f, blocks, start : FrameWaits(f, blocks, start)' <=> FrameWaits(f, blocks, start)
  BY SameBrackets, SameSpots DEF FrameWaits, Stmt, Test, Starts
<1>2. \A l : Behind(l)' = Behind(l) /\ Outside(l)' = Outside(l)
  BY SameBrackets DEF Behind, Outside, Stmt
<1>3. \A b, l, ins, blocks, start : LabelWaits(b, l, ins, blocks, start)' <=> LabelWaits(b, l, ins, blocks, start)
  BY <1>2, SameSpots DEF LabelWaits, Starts
<1> QED
  BY <1>1, <1>2, <1>3 DEF FramesWait, LabelsWait, ExitsLead, Starts

\* The blocks of T get instructions, and the other blocks wait as they did.
LEMMA FramesKept ==
  ASSUME NEW fs, NEW a, NEW b, NEW s, NEW T, FramesWait(fs, a, s), Keeps(a, s, b, s, T),
         \A c \in T : ~HeldByFrames(fs, c)
  PROVE  FramesWait(fs, b, s)
<1>1. ASSUME NEW k \in DOMAIN fs
      PROVE  FrameWaits(fs[k], b, s)
  <2>1. PICK f : f = fs[k]
    OBVIOUS
  <2>2. FrameWaits(f, a, s) /\ \A c \in FrameOpen(f) : c \notin T
    BY <2>1 DEF FramesWait, HeldByFrames
  <2>3. /\ f.kind # "for" => f.outer \notin T
        /\ f.kind \in {"loop", "for"} => f.second \notin T
        /\ f.kind = "else" => f.done \notin T
    BY <2>2 DEF FrameOpen
  <2> QED
    BY <2>1, <2>2, <2>3 DEF FrameWaits, Keeps
<1> QED
  BY <1>1 DEF FramesWait

LEMMA LabelsKept ==
  ASSUME NEW table, NEW ins, NEW more, NEW a, NEW b, NEW s, NEW T, LabelsWait(table, ins, a, s),
         Keeps(a, s, b, s, T), T \subseteq ins, ins \subseteq more
  PROVE  LabelsWait(table, more, b, s)
<1>1. ASSUME NEW c, NEW l, LabelWaits(c, l, ins, a, s)
      PROVE  LabelWaits(c, l, more, b, s)
  BY <1>1 DEF LabelWaits, Keeps
<1> QED
  BY <1>1 DEF LabelsWait

\* More blocks get a start.
LEMMA TracedGrows ==
  ASSUME TypeOK, status = "generate", NEW start, Traced(start), NEW more, Extends(start, more)
  PROVE  /\ Linked(code, more) /\ Stands(code, more, cur, Stmt(pos)) /\ Starts(more, 1, Stmt(1))
         /\ FramesWait(frames, code, more) /\ LabelsWait(labelBlocks, inserted, code, more)
         /\ ExitsLead(loopExit, more)
<1>1. Linked(code, start) /\ Stands(code, start, cur, Stmt(pos)) /\ Starts(start, 1, Stmt(1))
      /\ FramesWait(frames, code, start) /\ LabelsWait(labelBlocks, inserted, code, start)
      /\ ExitsLead(loopExit, start)
  BY DEF Traced
<1>2. Linked(code, more) /\ \A T : Keeps(code, start, code, more, T)
  BY <1>1, LinkedGrows
<1>3. \A b, spot : Stands(code, start, b, spot) => Stands(code, more, b, spot)
  <2>1. Keeps(code, start, code, more, {})
    BY <1>2
  <2> QED
    BY <2>1 DEF Keeps
<1>4. \A b, spot : Starts(start, b, spot) => Starts(more, b, spot)
  BY StartsGrow
<1>5. FramesWait(frames, code, more)
  BY <1>1, <1>3, <1>4 DEF FramesWait, FrameWaits
<1>6. LabelsWait(labelBlocks, inserted, code, more)
  BY <1>1, <1>3, <1>4 DEF LabelsWait, LabelWaits
<1> QED
  BY <1>1, <1>2, <1>3, <1>4, <1>5, <1>6 DEF ExitsLead

LEMMA GrowBy ==
  ASSUME NEW n \in Nat, NEW start, DOMAIN start = 1 .. n, Whole(start), NEW k \in Nat, NEW f,
         \A j \in 1 .. k : f[j][2] # "pushed"
  PROVE  \E more : /\ DOMAIN more = 1 .. n + k /\ Extends(start, more) /\ Whole(more)
                   /\ \A j \in 1 .. k : Starts(more, n + j, f[j])
<1>1. PICK more : more = [b \in 1 .. n + k |-> IF b \in 1 .. n THEN start[b] ELSE f[b - n]]
  OBVIOUS
<1>2. DOMAIN more = 1 .. n + k
  BY <1>1
<1>3. \A b \in 1 .. n : b \in 1 .. n + k /\ more[b] = start[b]
  BY <1>1
<1>4. \A j \in 1 .. k : n + j \in 1 .. n + k /\ n + j \notin 1 .. n /\ n + j - n = j
  OBVIOUS
<1>5. \A j \in 1 .. k : more[n + j] = f[j]
  BY <1>1, <1>4
<1>6. \A b \in 1 .. n + k : b \in 1 .. n \/ \E j \in 1 .. k : b = n + j
  <2>1. ASSUME NEW b \in 1 .. n + k, b \notin 1 .. n
        PROVE  \E j \in 1 .. k : b = n + j
    <3>1. b - n \in 1 .. k /\ b = n + (b - n)
      BY <2>1
    <3> QED
      BY <3>1
  <2> QED
    BY <2>1
<1>7. Extends(start, more)
  BY <1>2, <1>3 DEF Extends
<1>8. \A j \in 1 .. k : Starts(more, n + j, f[j])
  BY <1>2, <1>4, <1>5 DEF Starts
<1>9. Whole(more)
  <2>1. ASSUME NEW b \in 1 .. n
        PROVE  more[b][2] # "pushed"
    BY <1>3, <2>1 DEF Whole
  <2>2. ASSUME NEW j \in 1 .. k
        PROVE  more[n + j][2] # "pushed"
    BY <1>5, <2>2
  <2> QED
    BY <1>2, <1>6, <2>1, <2>2 DEF Whole
<1> QED
  BY <1>2, <1>7, <1>8, <1>9

-----------------------------------------------------------------------------
(* Code that grows.                                                        *)

Adds(a, b, start, T, es) ==
  /\ b \in CodeSeqs /\ Linked(b, start)
  /\ Keeps(a, start, b, start, T)
  /\ Content(b) = Content(a) \cup es

LEMMA PutOne ==
  ASSUME NEW a \in CodeSeqs, NEW b, NEW x \in AnyInstr, NEW start,
         Linked(a, start), Stands(a, start, b, Spot(x)), Right(x, start),
         NEW after, after = Emit(a, b, <<x>>)
  PROVE  /\ Adds(a, after, start, {b}, {<<b, x>>}) /\ Len(after) = Len(a)
         /\ Stands(after, start, b, Then(x))
<1>1. b \in 1 .. Len(a)
  BY DEF Stands
<1>2. /\ after \in CodeSeqs /\ Len(after) = Len(a) /\ Linked(after, start)
      /\ Keeps(a, start, after, start, {b}) /\ Stands(after, start, b, Then(x))
  BY <1>1, EmitOne
<1>3. Content(after) = Content(a) \cup {<<b, x>>}
  <2>1. PICK xs : xs = <<x>>
    OBVIOUS
  <2>2. xs \in Seq(AnyInstr) /\ Entries(b, xs) = {<<b, x>>}
    BY <2>1, OneInstr
  <2>3. Content(Emit(a, b, xs)) = Content(a) \cup Entries(b, xs)
    BY <1>1, <2>2, EmitInCode
  <2> QED
    BY <2>1, <2>2, <2>3
<1> QED
  BY <1>2, <1>3 DEF Adds

LEMMA PutBlock ==
  ASSUME NEW a \in CodeSeqs, NEW start, Linked(a, start), NEW m, m = Len(a) + 1,
         NEW spot, Starts(start, m, spot), NEW after, after = Append(a, <<>>)
  PROVE  /\ Adds(a, after, start, {}, {}) /\ Len(after) = m
         /\ Stands(after, start, m, spot)
<1>1. /\ after \in CodeSeqs /\ Len(after) = m /\ Linked(after, start)
      /\ Keeps(a, start, after, start, {}) /\ Stands(after, start, m, spot)
  BY AppendNone
<1>2. Content(after) = Content(a)
  BY EmptyBlock
<1> QED
  BY <1>1, <1>2 DEF Adds

\* A block that is one instruction.
LEMMA PutTest ==
  ASSUME NEW a \in CodeSeqs, NEW start, Linked(a, start), NEW m, m = Len(a) + 1,
         NEW x \in AnyInstr, Starts(start, m, Spot(x)), Right(x, start),
         NEW after, after = Append(a, <<x>>)
  PROVE  Adds(a, after, start, {}, {<<m, x>>}) /\ Len(after) = m
<1>1. PICK xs : xs = <<x>>
  OBVIOUS
<1>2. xs \in Seq(AnyInstr) /\ Entries(m, xs) = {<<m, x>>} /\ DOMAIN xs = {1} /\ xs[1] = x /\ xs # <<>>
  BY <1>1, OneInstr
<1>3. Chain(xs, start[m]) /\ m \in DOMAIN start
  BY <1>2 DEF Chain, Starts
<1>4. \A i \in DOMAIN xs : Right(xs[i], start)
  BY <1>2
<1>5. /\ after \in CodeSeqs /\ Len(after) = m /\ Linked(after, start)
      /\ \A T : Keeps(a, start, after, start, T)
  BY <1>1, <1>2, <1>3, <1>4, AppendLinked
<1>6. Content(after) = Content(a) \cup {<<m, x>>}
  <2>1. a \in Seq(Seq(AnyInstr))
    BY DEF CodeSeqs
  <2>2. Content(Append(a, xs)) = Content(a) \cup Entries(Len(a) + 1, xs)
    BY ONLY <1>2, <2>1, AppendBlock
  <2> QED
    BY <1>1, <1>2, <2>2
<1> QED
  BY <1>5, <1>6 DEF Adds

LEMMA PutOn ==
  ASSUME NEW a, NEW b, NEW c, NEW start, NEW T, NEW U, NEW es, NEW fs,
         Adds(a, b, start, T, es), Adds(b, c, start, U, fs)
  PROVE  Adds(a, c, start, T \cup U, es \cup fs)
BY KeepsOn DEF Adds

\* A block that others do not write to stands where it did.
LEMMA StandsOn ==
  ASSUME NEW a, NEW b, NEW start, NEW T, NEW es, Adds(a, b, start, T, es)
  PROVE  \A c, spot : c \notin T /\ Stands(a, start, c, spot) => Stands(b, start, c, spot)
BY DEF Adds, Keeps

\* A statement has been generated.
LEMMA StepTraced ==
  ASSUME TypeOK, NEW start, Traced(start), Advance, status = "generate", NEW more,
         Extends(start, more), Whole(more), DOMAIN more = 1 .. Len(code'),
         NEW T, NEW es, Adds(code, code', more, T, es),
         inserted \subseteq inserted', Stands(code', more, cur', Stmt(pos + 1)),
         FramesWait(frames', code', more), LabelsWait(labelBlocks', inserted', code', more),
         ExitsLead(loopExit', more),
         Knows(es, returnPoints', dests'), returnPoints \subseteq returnPoints', DOMAIN dests \subseteq DOMAIN dests'
  PROVE  Traced(more)'
<1>1. body' = body /\ pos' = pos + 1 /\ status' = "generate"
  BY DEF Advance
<1>2. Linked(code, more)' /\ Stands(code, more, cur, Stmt(pos))'
  <2>1. Linked(code', more) /\ Stands(code', more, cur', Stmt(pos'))
    BY <1>1 DEF Adds
  <2>2. Linked(code, more)'
    BY <1>1, <2>1, SameRight
  <2>3. Stands(code, more, cur, Stmt(pos))'
    BY <1>1, <2>1, SameSpots DEF Stmt
  <2> QED
    BY <2>2, <2>3
<1>3. FramesWait(frames, code, more)' /\ LabelsWait(labelBlocks, inserted, code, more)' /\ ExitsLead(loopExit, more)'
  BY <1>1, SameWaits
<1>4. Knows(Content(code), returnPoints, dests)'
  <2>1. Knows(Content(code), returnPoints, dests) /\ Content(code') = Content(code) \cup es
    BY DEF Traced, Adds
  <2>2. Knows(Content(code'), returnPoints', dests')
    BY <2>1 DEF Knows
  <2>3. Content(code)' = Content(code')
    BY DEF Content
  <2> QED
    BY <2>2, <2>3 DEF Knows
<1>5. Starts(more, 1, Stmt(1)) /\ 1 \in inserted'
  BY TracedGrows DEF Traced
<1> QED
  BY <1>1, <1>2, <1>3, <1>4, <1>5 DEF Traced, Whole, Starts, Stmt

\* A branch of a statement, and an instruction without targets.
LEMMA BrIs ==
  ASSUME NEW t \in Nat, NEW i \in Nat, NEW x, x = Instr("br", <<t>>, Stmt(i))
  PROVE  /\ x \in AnyInstr /\ <<x>> = Br(t, Stmt(i))
         /\ body[i].op # "gosub" => Spot(x) = Stmt(i)
         /\ body[i].op = "gosub" => Spot(x) = <<i, "pushed">>
         /\ \A start, spot : i \in DOMAIN body /\ BrGoes(i, spot) /\ Starts(start, t, spot) => Right(x, start)
         /\ \A b, points, returns : Knows({<<b, x>>}, points, returns)
<1>1. x.op = "br" /\ x.to = <<t>> /\ x.at = Stmt(i) /\ x.at[1] = i /\ x.at[2] = "at" /\ DOMAIN x.to = {1} /\ x.to[1] = t
  BY DEF Instr, Stmt
<1>2. x \in AnyInstr
  <2>1. "br" \in InstrOps /\ <<t>> \in Seq(Nat) /\ Stmt(i) \in Points
    BY DEF InstrOps, Terminators, Stmt, Points
  <2> QED
    BY <2>1, InstrIsAny
<1>3. <<x>> = Br(t, Stmt(i))
  BY DEF Br
<1>4. ASSUME NEW start, NEW spot, i \in DOMAIN body, BrGoes(i, spot), Starts(start, t, spot)
      PROVE  Right(x, start)
  <2>1. To1(x, start, spot)
    BY <1>1, <1>4 DEF To1
  <2>2. Branches(x, start)
    BY <1>1, <1>4, <2>1 DEF Branches
  <2> QED
    BY <2>2 DEF Right
<1>5. \A b, points, returns : Knows({<<b, x>>}, points, returns)
  BY <1>1 DEF Knows
<1>6. /\ body[i].op # "gosub" => Spot(x) = Stmt(i)
      /\ body[i].op = "gosub" => Spot(x) = <<i, "pushed">>
  BY <1>1 DEF Spot
<1> QED
  BY <1>2, <1>3, <1>4, <1>5, <1>6

LEMMA PlainIs ==
  ASSUME NEW op \in {"exec", "indirectbr", "ret"}, NEW i \in Nat, NEW x, x = Instr(op, <<>>, Stmt(i))
  PROVE  /\ x \in AnyInstr /\ x.op = op /\ x.at = Stmt(i) /\ x.at[1] = i /\ Spot(x) = Stmt(i)
         /\ op = "exec" => Then(x) = Stmt(i + 1)
<1>1. x.op = op /\ x.to = <<>> /\ x.at = Stmt(i) /\ x.at[1] = i /\ x.at[2] = "at"
  BY DEF Instr, Stmt
<1>2. x \in AnyInstr
  <2>1. op \in InstrOps /\ <<>> \in Seq(Nat) /\ Stmt(i) \in Points
    BY DEF InstrOps, Terminators, Stmt, Points
  <2> QED
    BY <2>1, InstrIsAny
<1>3. Spot(x) = Stmt(i) /\ (op = "exec" => Then(x) = Stmt(i + 1))
  BY <1>1 DEF Spot, Then
<1> QED
  BY <1>1, <1>2, <1>3

LEMMA StmtIsNotPushed == \A i : Stmt(i)[2] # "pushed" /\ Test(i)[2] # "pushed"
BY DEF Stmt, Test

LEMMA GrowOne ==
  ASSUME NEW n \in Nat, NEW start, DOMAIN start = 1 .. n, Whole(start), NEW spot, spot[2] # "pushed"
  PROVE  \E more : DOMAIN more = 1 .. n + 1 /\ Extends(start, more) /\ Whole(more) /\ Starts(more, n + 1, spot)
<1>1. PICK f : f = [j \in {1} |-> spot]
  OBVIOUS
<1>2. \A j \in 1 .. 1 : j = 1 /\ f[j] = spot
  BY <1>1
<1>3. 1 \in 1 .. 1
  OBVIOUS
<1>4. \A j \in 1 .. 1 : f[j][2] # "pushed"
  BY <1>2
<1>5. PICK more : /\ DOMAIN more = 1 .. n + 1 /\ Extends(start, more) /\ Whole(more)
                  /\ \A j \in 1 .. 1 : Starts(more, n + j, f[j])
  BY ONLY <1>4, GrowBy, n \in Nat, 1 \in Nat, DOMAIN start = 1 .. n, Whole(start)
<1> QED
  BY <1>2, <1>3, <1>5

LEMMA GrowTwo ==
  ASSUME NEW n \in Nat, NEW start, DOMAIN start = 1 .. n, Whole(start),
         NEW spot, spot[2] # "pushed", NEW then, then[2] # "pushed"
  PROVE  \E more : /\ DOMAIN more = 1 .. n + 2 /\ Extends(start, more) /\ Whole(more)
                   /\ Starts(more, n + 1, spot) /\ Starts(more, n + 2, then)
<1>1. PICK f : f = <<spot, then>>
  OBVIOUS
<1>2. \A j \in 1 .. 2 : f[j][2] # "pushed"
  BY <1>1
<1>3. PICK more : /\ DOMAIN more = 1 .. n + 2 /\ Extends(start, more) /\ Whole(more)
                  /\ \A j \in 1 .. 2 : Starts(more, n + j, f[j])
  BY ONLY <1>2, GrowBy, n \in Nat, 2 \in Nat, DOMAIN start = 1 .. n, Whole(start)
<1>4. 1 \in 1 .. 2 /\ 2 \in 1 .. 2 /\ f[1] = spot /\ f[2] = then
  BY <1>1
<1> QED
  BY <1>3, <1>4

\* The state as the lemmas below need it.
LEMMA Standing ==
  ASSUME Building, status = "generate", NEW start, Traced(start)
  PROVE  /\ code \in CodeSeqs /\ Len(code) \in Nat /\ cur \in 1 .. Len(code) /\ cur \in inserted
         /\ DOMAIN start = 1 .. Len(code) /\ Whole(start) /\ pos \in Nat
         /\ ~HeldByFrames(frames, cur)
BY CodeType, CurIsOpen DEF Traced, Building

\* The builder's block ends and it goes on in a new one.
LEMMA DeadTraced ==
  ASSUME Building, status = "generate", NEW start, Traced(start), Advance,
         UNCHANGED <<frames, labelBlocks, loopExit>>,
         NEW x \in AnyInstr, Spot(x) = Stmt(pos), Right(x, start),
         code' = Append(Emit(code, cur, <<x>>), <<>>),
         inserted' = inserted \cup {Len(code) + 1}, cur' = Len(code) + 1,
         Knows({<<cur, x>>}, returnPoints', dests'), returnPoints \subseteq returnPoints', DOMAIN dests \subseteq DOMAIN dests'
  PROVE  \E more : Traced(more)'
<1>1. PICK n \in Nat : n = Len(code)
  BY Standing
<1>2. /\ code \in CodeSeqs /\ cur \in 1 .. n /\ cur \in inserted /\ DOMAIN start = 1 .. n /\ Whole(start)
      /\ pos \in Nat /\ ~HeldByFrames(frames, cur)
  BY <1>1, Standing
<1>3. PICK more : DOMAIN more = 1 .. n + 1 /\ Extends(start, more) /\ Whole(more) /\ Starts(more, n + 1, Stmt(pos + 1))
  BY <1>2, GrowOne, StmtIsNotPushed
<1>4. /\ Linked(code, more) /\ Stands(code, more, cur, Stmt(pos)) /\ FramesWait(frames, code, more)
      /\ LabelsWait(labelBlocks, inserted, code, more) /\ ExitsLead(loopExit, more)
  BY <1>3, TracedGrows DEF Building
<1>5. PICK mid : mid = Emit(code, cur, <<x>>)
  OBVIOUS
<1>6. Adds(code, mid, more, {cur}, {<<cur, x>>}) /\ Len(mid) = n
  BY <1>1, <1>2, <1>3, <1>4, <1>5, RightGrows, PutOne
<1>7. PICK m : m = n + 1
  OBVIOUS
<1>8. Adds(mid, code', more, {}, {}) /\ Len(code') = m /\ Stands(code', more, m, Stmt(pos + 1))
  <2>1. mid \in CodeSeqs /\ Linked(mid, more)
    BY <1>6 DEF Adds
  <2>2. PICK after : after = code'
    OBVIOUS
  <2>3. PICK spot : spot = Stmt(pos + 1)
    OBVIOUS
  <2>4. m = Len(mid) + 1 /\ Starts(more, m, spot) /\ after = Append(mid, <<>>)
    BY <1>3, <1>5, <1>6, <1>7, <2>2, <2>3
  <2>5. Adds(mid, after, more, {}, {}) /\ Len(after) = m /\ Stands(after, more, m, spot)
    BY ONLY <2>1, <2>4, PutBlock
  <2> QED
    BY <2>2, <2>3, <2>5
<1>9. Adds(code, code', more, {cur}, {<<cur, x>>})
  <2>1. {cur} \cup {} = {cur} /\ {<<cur, x>>} \cup {} = {<<cur, x>>}
    OBVIOUS
  <2> QED
    BY <1>6, <1>8, <2>1, PutOn
<1>10. FramesWait(frames', code', more)
  BY <1>2, <1>4, <1>9, FramesKept DEF Adds
<1>11. inserted \subseteq inserted' /\ LabelsWait(labelBlocks', inserted', code', more)
  BY <1>2, <1>4, <1>9, LabelsKept DEF Adds
<1>12. Stands(code', more, cur', Stmt(pos + 1)) /\ DOMAIN more = 1 .. Len(code') /\ ExitsLead(loopExit', more)
  BY <1>1, <1>3, <1>4, <1>7, <1>8
<1> QED
  BY <1>3, <1>9, <1>10, <1>11, <1>12, StepTraced DEF Building

LEMMA ReturnTraced ==
  ASSUME Building, GenReturn, NEW start, Traced(start)
  PROVE  \E more : Traced(more)'
<1>1. /\ AtOp("return") /\ status = "generate" /\ pos \in DOMAIN body /\ body[pos].op = "return" /\ pos \in Nat
      /\ Advance /\ UNCHANGED <<frames, labelBlocks, loopExit, returnPoints>> /\ Here = Stmt(pos)
      /\ inserted' = inserted \cup {Len(code) + 1} /\ cur' = Len(code) + 1
  BY AtType, Standing DEF Building, GenReturn, AtOp, Here
<1>2. PICK x : x = Instr("indirectbr", <<>>, Stmt(pos))
  OBVIOUS
<1>3. x \in AnyInstr /\ x.op = "indirectbr" /\ x.at = Stmt(pos) /\ x.at[1] = pos /\ Spot(x) = Stmt(pos)
  BY <1>1, <1>2, PlainIs
<1>4. Right(x, start)
  BY <1>1, <1>3 DEF Right, Returns, OfStmt
<1>5. DOMAIN dests' = DOMAIN dests \cup {cur}
  BY DEF GenReturn, AddIndirectBr
<1>6. Knows({<<cur, x>>}, returnPoints', dests')
  BY <1>3, <1>5 DEF Knows
<1>7. code' = Append(Emit(code, cur, <<x>>), <<>>)
  BY <1>1, <1>2 DEF GenReturn
<1> QED
  BY <1>1, <1>3, <1>4, <1>5, <1>6, <1>7, DeadTraced

LEMMA EndTraced ==
  ASSUME Building, GenEnd, NEW start, Traced(start)
  PROVE  \E more : Traced(more)'
<1>1. /\ AtOp("end") /\ status = "generate" /\ pos \in DOMAIN body /\ body[pos].op = "end" /\ pos \in Nat
      /\ Advance /\ UNCHANGED <<frames, labelBlocks, loopExit, returnPoints, dests>> /\ Here = Stmt(pos)
      /\ inserted' = inserted \cup {Len(code) + 1} /\ cur' = Len(code) + 1
  BY AtType, Standing DEF Building, GenEnd, AtOp, Here, symtab
<1>2. PICK x : x = Instr("ret", <<>>, Stmt(pos))
  OBVIOUS
<1>3. x \in AnyInstr /\ x.op = "ret" /\ x.at = Stmt(pos) /\ x.at[1] = pos /\ Spot(x) = Stmt(pos)
  BY <1>1, <1>2, PlainIs
<1>4. Right(x, start)
  BY <1>1, <1>3 DEF Right, Returns, OfStmt
<1>5. Knows({<<cur, x>>}, returnPoints', dests')
  BY <1>3 DEF Knows
<1>6. code' = Append(Emit(code, cur, <<x>>), <<>>)
  BY <1>1, <1>2 DEF GenEnd
<1> QED
  BY <1>1, <1>3, <1>4, <1>5, <1>6, DeadTraced

LEMMA ExitTraced ==
  ASSUME Building, GenExit, NEW start, Traced(start)
  PROVE  \E more : Traced(more)'
<1>1. /\ AtOp("exit") /\ status = "generate" /\ pos \in DOMAIN body /\ body[pos].op = "exit" /\ pos \in Nat
      /\ Advance /\ UNCHANGED <<frames, labelBlocks, loopExit, returnPoints, dests>> /\ Here = Stmt(pos)
      /\ inserted' = inserted \cup {Len(code) + 1} /\ cur' = Len(code) + 1
      /\ Arg \in Loops /\ Arg = body[pos].arg
  BY AtType, Standing DEF Building, GenExit, AtOp, Here, symtab, HasLoop, Arg
<1>2. PICK t : t = loopExit[Arg]
  OBVIOUS
<1>3. t \in Nat /\ t # 0
  <2>1. loopExit \in [Loops -> inserted \cup {0}] /\ inserted \subseteq 1 .. Len(code)
    BY CodeType DEF Building, TypeOK
  <2> QED
    BY <1>1, <1>2, <2>1 DEF GenExit
<1>4. PICK spot : spot = Outside(Arg)
  OBVIOUS
<1>5. Starts(start, t, spot) /\ BrGoes(pos, spot)
  <2>1. Starts(start, t, spot)
    BY <1>1, <1>2, <1>3, <1>4 DEF Traced, ExitsLead
  <2>2. BrGoes(pos, spot)
    BY <1>1, <1>4 DEF BrGoes, Outside
  <2> QED
    BY <2>1, <2>2
<1>6. PICK x : x = Instr("br", <<t>>, Stmt(pos))
  OBVIOUS
<1>7. /\ x \in AnyInstr /\ <<x>> = Br(t, Stmt(pos)) /\ Spot(x) = Stmt(pos) /\ Right(x, start)
      /\ Knows({<<cur, x>>}, returnPoints', dests')
  BY <1>1, <1>3, <1>5, <1>6, BrIs
<1>8. code' = Append(Emit(code, cur, <<x>>), <<>>)
  BY <1>1, <1>2, <1>7 DEF GenExit
<1> QED
  BY <1>1, <1>7, <1>8, DeadTraced

LEMMA ExecTraced ==
  ASSUME Building, GenExec, NEW start, Traced(start)
  PROVE  Traced(start)'
<1>1. /\ AtOp("exec") /\ status = "generate" /\ pos \in DOMAIN body /\ body[pos].op = "exec" /\ pos \in Nat
      /\ Advance /\ UNCHANGED <<frames, inserted, cur, labelBlocks, loopExit, returnPoints, dests>> /\ Here = Stmt(pos)
  BY AtType, Standing DEF Building, GenExec, AtOp, Here, symtab
<1>2. PICK x : x = Instr("exec", <<>>, Stmt(pos))
  OBVIOUS
<1>3. /\ x \in AnyInstr /\ x.op = "exec" /\ x.at = Stmt(pos) /\ x.at[1] = pos /\ Spot(x) = Stmt(pos)
      /\ Then(x) = Stmt(pos + 1)
  BY <1>1, <1>2, PlainIs
<1>4. Right(x, start)
  BY <1>1, <1>3 DEF Right, Computes, OfStmt
<1>5. Extends(start, start)
  BY DEF Extends
<1>6. /\ Linked(code, start) /\ Stands(code, start, cur, Stmt(pos)) /\ FramesWait(frames, code, start)
      /\ LabelsWait(labelBlocks, inserted, code, start) /\ ExitsLead(loopExit, start)
  BY <1>1, <1>5, TracedGrows DEF Building
<1>7. code \in CodeSeqs /\ ~HeldByFrames(frames, cur) /\ cur \in inserted /\ Whole(start) /\ DOMAIN start = 1 .. Len(code)
  BY <1>1, Standing
<1>8. PICK after : after = code'
  OBVIOUS
<1>9. after = Emit(code, cur, <<x>>)
  BY <1>1, <1>2, <1>8 DEF GenExec
<1>10. Adds(code, after, start, {cur}, {<<cur, x>>}) /\ Len(after) = Len(code) /\ Stands(after, start, cur, Stmt(pos + 1))
  BY <1>3, <1>4, <1>6, <1>7, <1>9, PutOne
<1>11. FramesWait(frames', code', start)
  BY <1>1, <1>6, <1>7, <1>8, <1>10, FramesKept DEF Adds
<1>12. LabelsWait(labelBlocks', inserted', code', start)
  BY <1>1, <1>6, <1>7, <1>8, <1>10, LabelsKept DEF Adds
<1>13. Knows({<<cur, x>>}, returnPoints', dests')
  BY <1>3 DEF Knows
<1> QED
  BY <1>1, <1>5, <1>6, <1>7, <1>8, <1>10, <1>11, <1>12, <1>13, StepTraced DEF Building

LEMMA FramesPush ==
  ASSUME NEW fs \in Seq(Frames), NEW g \in Frames, NEW blocks, NEW start,
         FramesWait(fs, blocks, start), FrameWaits(g, blocks, start)
  PROVE  FramesWait(Append(fs, g), blocks, start)
<1>1. PICK t : t = Append(fs, g)
  OBVIOUS
<1>2. \A k \in DOMAIN t : (k \in DOMAIN fs /\ t[k] = fs[k]) \/ t[k] = g
  BY <1>1
<1> QED
  BY <1>1, <1>2 DEF FramesWait

LEMMA FramesPop ==
  ASSUME NEW fs \in Seq(Frames), fs # <<>>, NEW blocks, NEW start, FramesWait(fs, blocks, start)
  PROVE  /\ FramesWait(SubSeq(fs, 1, Len(fs) - 1), blocks, start)
         /\ FrameWaits(fs[Len(fs)], blocks, start)
<1>1. PICK t : t = SubSeq(fs, 1, Len(fs) - 1)
  OBVIOUS
<1>2. Len(fs) \in Nat \ {0} /\ Len(fs) \in DOMAIN fs
  OBVIOUS
<1>3. \A k \in DOMAIN t : k \in DOMAIN fs /\ t[k] = fs[k]
  BY <1>1, <1>2
<1> QED
  BY <1>1, <1>2, <1>3 DEF FramesWait

\* A statement is the only one with its label or its loop.
LEMMA LabelPosIs ==
  ASSUME body \in Bodies, NEW i \in DOMAIN body, body[i].op = "label"
  PROVE  Semantics!LabelPos(body[i].arg) = i
<1>1. \A j \in DOMAIN body : body[j].op = "label" /\ body[j].arg = body[i].arg => j = i
  BY LabelsStandOnce
<1> QED
  BY <1>1 DEF Semantics!LabelPos

LEMMA LoopPosIs ==
  ASSUME body \in Bodies, NEW i \in DOMAIN body, body[i].op \in {"loop", "for"}
  PROVE  Semantics!LoopPos(body[i].arg) = i
<1>1. \A j \in DOMAIN body : body[j].op \in {"loop", "for"} /\ body[j].arg = body[i].arg => j = i
  BY LoopsStandOnce
<1> QED
  BY <1>1 DEF Semantics!LoopPos

LEMMA ExitAdded ==
  ASSUME NEW exits, NEW s, ExitsLead(exits, s), NEW l \in Loops, NEW b, Starts(s, b, Outside(l)),
         exits \in [Loops -> Nat]
  PROVE  ExitsLead([exits EXCEPT ![l] = b], s)
BY DEF ExitsLead

\* A nested block begins in a new block, and the builder waits where it is.
LEMMA IfTraced ==
  ASSUME Building, GenIf, NEW start, Traced(start)
  PROVE  \E more : Traced(more)'
<1>1. PICK n \in Nat : n = Len(code)
  BY CodeType DEF Building
<1>2. PICK g : g = Frame("if", n + 1, 0)
  OBVIOUS
<1>3. /\ AtOp("if") /\ Advance /\ UNCHANGED <<labelBlocks, loopExit, returnPoints, dests>>
      /\ code' = Append(code, <<>>) /\ frames' = Append(frames, g)
      /\ inserted' = inserted \cup {n + 1} /\ cur' = n + 1 /\ status = "generate"
  BY <1>1, <1>2 DEF GenIf, Push, symtab, AtOp
<1>4. /\ code \in CodeSeqs /\ cur \in 1 .. n /\ cur \in inserted /\ DOMAIN start = 1 .. n /\ Whole(start)
      /\ pos \in Nat /\ ~HeldByFrames(frames, cur) /\ frames \in Seq(Frames)
  BY <1>1, <1>3, Standing, CodeType DEF Building
<1>5. PICK more : DOMAIN more = 1 .. n + 1 /\ Extends(start, more) /\ Whole(more) /\ Starts(more, n + 1, Stmt(pos + 1))
  BY <1>4, GrowOne, StmtIsNotPushed
<1>6. /\ Linked(code, more) /\ Stands(code, more, cur, Stmt(pos)) /\ FramesWait(frames, code, more)
      /\ LabelsWait(labelBlocks, inserted, code, more) /\ ExitsLead(loopExit, more)
  BY <1>3, <1>5, TracedGrows DEF Building
<1>7. PICK m : m = n + 1
  OBVIOUS
<1>8. PICK after : after = code'
  OBVIOUS
<1>9. Adds(code, after, more, {}, {}) /\ Len(after) = m /\ Stands(after, more, m, Stmt(pos + 1))
  BY <1>1, <1>3, <1>4, <1>5, <1>6, <1>7, <1>8, PutBlock
<1>10. Stands(after, more, cur, Stmt(pos))
  BY <1>6, <1>9, StandsOn
<1>11. g \in Frames /\ FrameWaits(g, after, more)
  <2>1. cur \in Nat
    BY <1>4
  <2> QED
    BY <1>2, <1>4, <1>5, <1>10, <2>1 DEF Frame, Frames, FrameWaits
<1>12. FramesWait(frames', code', more)
  <2>1. FramesWait(frames, after, more)
    BY <1>6, <1>9, FramesKept DEF Adds
  <2> QED
    BY <1>3, <1>4, <1>8, <1>11, <2>1, FramesPush
<1>13. inserted \subseteq inserted' /\ LabelsWait(labelBlocks', inserted', code', more)
  <2>1. inserted \subseteq inserted' /\ {} \subseteq inserted
    BY <1>3
  <2> QED
    BY <1>3, <1>6, <1>8, <1>9, <2>1, LabelsKept DEF Adds
<1>14. Knows({}, returnPoints', dests')
  BY DEF Knows
<1> QED
  BY <1>3, <1>5, <1>6, <1>7, <1>8, <1>9, <1>12, <1>13, <1>14, StepTraced DEF Building

LEMMA ElseTraced ==
  ASSUME Building, GenElse, NEW start, Traced(start)
  PROVE  \E more : Traced(more)'
<1>1. PICK n \in Nat : n = Len(code)
  BY CodeType DEF Building
<1>2. /\ AtOp("else") /\ frames # <<>> /\ Top.kind = "if" /\ Top \in Frames /\ Top = frames[Len(frames)]
      /\ status = "generate"
  BY TopType DEF GenElse, Closes, Building, Top, AtOp
<1>3. PICK g : g = [kind |-> "else", at |-> Top.at, outer |-> Top.outer, first |-> Top.first,
                    second |-> n + 1, done |-> cur, mid |-> pos]
  OBVIOUS
<1>4. /\ Advance /\ UNCHANGED <<labelBlocks, loopExit, returnPoints, dests>>
      /\ code' = Append(code, <<>>) /\ frames' = [frames EXCEPT ![Len(frames)] = g]
      /\ inserted' = inserted \cup {n + 1} /\ cur' = n + 1
  BY <1>1, <1>3 DEF GenElse, symtab
<1>5. /\ code \in CodeSeqs /\ cur \in 1 .. n /\ cur \in inserted /\ DOMAIN start = 1 .. n /\ Whole(start)
      /\ pos \in Nat /\ frames \in Seq(Frames)
  BY <1>1, <1>2, Standing, CodeType DEF Building
<1>6. PICK more : DOMAIN more = 1 .. n + 1 /\ Extends(start, more) /\ Whole(more) /\ Starts(more, n + 1, Stmt(pos + 1))
  BY <1>5, GrowOne, StmtIsNotPushed
<1>7. /\ Linked(code, more) /\ Stands(code, more, cur, Stmt(pos)) /\ FramesWait(frames, code, more)
      /\ LabelsWait(labelBlocks, inserted, code, more) /\ ExitsLead(loopExit, more)
  BY <1>2, <1>6, TracedGrows DEF Building
<1>8. PICK m : m = n + 1
  OBVIOUS
<1>9. PICK after : after = code'
  OBVIOUS
<1>10. Adds(code, after, more, {}, {}) /\ Len(after) = m /\ Stands(after, more, m, Stmt(pos + 1))
  BY <1>1, <1>4, <1>5, <1>6, <1>7, <1>8, <1>9, PutBlock
<1>11. Stands(after, more, cur, Stmt(pos)) /\ FramesWait(frames, after, more)
  <2>1. Stands(after, more, cur, Stmt(pos))
    BY <1>7, <1>10, StandsOn
  <2> QED
    BY <1>7, <1>10, <2>1, FramesKept DEF Adds
<1>12. PICK rest : rest = SubSeq(frames, 1, Len(frames) - 1)
  OBVIOUS
<1>13. FramesWait(rest, after, more) /\ FrameWaits(Top, after, more) /\ rest \in Seq(Frames)
  <2>1. rest \in Seq(Frames)
    BY <1>2, <1>5, <1>12, PopHolds DEF Building, HeldOnce
  <2> QED
    BY <1>2, <1>5, <1>11, <1>12, <2>1, FramesPop
<1>14. g \in Frames /\ FrameWaits(g, after, more)
  <2>1. cur \in Nat
    BY <1>5
  <2>2. g \in Frames
    BY SMTT(30), <1>2, <1>3, <1>5, <2>1 DEF Frames
  <2>3. FrameWaits(g, after, more)
    BY <1>2, <1>3, <1>6, <1>11, <1>13 DEF FrameWaits
  <2> QED
    BY <2>2, <2>3
<1>15. FramesWait(frames', code', more)
  <2>1. frames' = Append(rest, g)
    BY <1>2, <1>4, <1>5, <1>12, <1>14, ReplaceIsPopPush
  <2> QED
    BY <1>9, <1>13, <1>14, <2>1, FramesPush
<1>16. inserted \subseteq inserted' /\ LabelsWait(labelBlocks', inserted', code', more)
  <2>1. inserted \subseteq inserted' /\ {} \subseteq inserted
    BY <1>4
  <2> QED
    BY <1>4, <1>7, <1>9, <1>10, <2>1, LabelsKept DEF Adds
<1>17. Knows({}, returnPoints', dests')
  BY DEF Knows
<1> QED
  BY <1>2, <1>4, <1>6, <1>7, <1>8, <1>9, <1>10, <1>15, <1>16, <1>17, StepTraced DEF Building

LEMMA LoopTraced ==
  ASSUME Building, GenLoop, NEW start, Traced(start)
  PROVE  \E more : Traced(more)'
<1>1. PICK n \in Nat : n = Len(code)
  BY CodeType DEF Building
<1>2. PICK g : g = Frame("loop", n + 1, n + 2)
  OBVIOUS
<1>3. /\ AtOp("loop") /\ Advance /\ UNCHANGED <<labelBlocks, returnPoints, dests>>
      /\ code' = code \o << <<>>, <<>> >> /\ frames' = Append(frames, g)
      /\ inserted' = inserted \cup {n + 1, n + 2} /\ cur' = n + 1 /\ status = "generate"
      /\ loopExit' = [loopExit EXCEPT ![Arg] = n + 2]
  BY <1>1, <1>2 DEF GenLoop, Push, AtOp
<1>4. /\ code \in CodeSeqs /\ cur \in 1 .. n /\ cur \in inserted /\ DOMAIN start = 1 .. n /\ Whole(start)
      /\ pos \in Nat /\ ~HeldByFrames(frames, cur) /\ frames \in Seq(Frames)
  BY <1>1, <1>3, Standing, CodeType DEF Building
<1>5. PICK done : done = Stmt(Semantics!CloseOf(pos) + 1)
  OBVIOUS
<1>6. PICK more : /\ DOMAIN more = 1 .. n + 2 /\ Extends(start, more) /\ Whole(more)
                  /\ Starts(more, n + 1, Stmt(pos + 1)) /\ Starts(more, n + 2, done)
  BY <1>4, <1>5, GrowTwo, StmtIsNotPushed
<1>7. /\ Linked(code, more) /\ Stands(code, more, cur, Stmt(pos)) /\ FramesWait(frames, code, more)
      /\ LabelsWait(labelBlocks, inserted, code, more) /\ ExitsLead(loopExit, more)
  BY <1>3, <1>6, TracedGrows DEF Building
<1>8. PICK m \in Nat : m = n + 1
  OBVIOUS
<1>9. PICK k \in Nat : k = n + 2 /\ k = m + 1
  BY <1>8
<1>10. PICK mid : mid = Append(code, <<>>)
  OBVIOUS
<1>11. PICK after : after = code'
  OBVIOUS
<1>12. after = Append(mid, <<>>)
  <2>1. code \in Seq(Seq(AnyInstr)) /\ <<>> \in Seq(AnyInstr)
    BY <1>4 DEF CodeSeqs
  <2> QED
    BY <1>3, <1>10, <1>11, <2>1, TwoBlocks
<1>13. Adds(code, mid, more, {}, {}) /\ Len(mid) = m /\ Stands(mid, more, m, Stmt(pos + 1))
  BY <1>1, <1>4, <1>6, <1>7, <1>8, <1>10, PutBlock
<1>14. Adds(mid, after, more, {}, {}) /\ Len(after) = k /\ Stands(after, more, k, done)
  <2>1. mid \in CodeSeqs /\ Linked(mid, more) /\ k = Len(mid) + 1 /\ Starts(more, k, done)
    BY <1>6, <1>9, <1>13 DEF Adds
  <2> QED
    BY ONLY <1>12, <2>1, PutBlock
<1>15. Adds(code, after, more, {}, {})
  <2>1. Adds(code, after, more, {} \cup {}, {} \cup {})
    BY ONLY <1>13, <1>14, PutOn
  <2> QED
    BY <2>1
<1>16. Stands(after, more, m, Stmt(pos + 1)) /\ Stands(after, more, cur, Stmt(pos))
  BY <1>7, <1>13, <1>14, <1>15, StandsOn
<1>17. g \in Frames /\ FrameWaits(g, after, more)
  <2>1. cur \in Nat
    BY <1>4
  <2>2. /\ g.kind = "loop" /\ g.at = pos /\ g.outer = cur /\ g.first = m /\ g.second = k
        /\ g \in Frames
    BY <1>2, <1>4, <1>8, <1>9, <2>1 DEF Frame, Frames
  <2> QED
    BY <1>5, <1>6, <1>8, <1>14, <1>16, <2>2 DEF FrameWaits
<1>18. FramesWait(frames', code', more)
  <2>1. FramesWait(frames, after, more)
    BY <1>7, <1>15, FramesKept DEF Adds
  <2> QED
    BY <1>3, <1>4, <1>11, <1>17, <2>1, FramesPush
<1>19. inserted \subseteq inserted' /\ LabelsWait(labelBlocks', inserted', code', more)
  <2>1. inserted \subseteq inserted' /\ {} \subseteq inserted
    BY <1>3
  <2> QED
    BY <1>3, <1>7, <1>11, <1>15, <2>1, LabelsKept DEF Adds
<1>20. ExitsLead(loopExit', more)
  <2>1. PICK l : l = Arg
    OBVIOUS
  <2>2. l \in Loops /\ l = body[pos].arg /\ pos \in DOMAIN body /\ body[pos].op = "loop" /\ body \in Bodies
    BY <1>3, <2>1, AtType, CodeType DEF Building, HasLoop, AtOp, Arg
  <2>3. Outside(l) = done
    BY <1>5, <2>2, LoopPosIs DEF Outside
  <2>4. loopExit \in [Loops -> Nat]
    BY CodeType DEF Building, TypeOK
  <2> QED
    BY <1>3, <1>6, <1>7, <2>1, <2>2, <2>3, <2>4, ExitAdded
<1>21. Knows({}, returnPoints', dests')
  BY DEF Knows
<1> QED
  BY <1>3, <1>6, <1>8, <1>9, <1>11, <1>14, <1>15, <1>16, <1>18, <1>19, <1>20, <1>21, StepTraced DEF Building

\* What is on top when a nested block ends.
LEMMA TopIs ==
  ASSUME Building, status = "generate", frames # <<>>, NEW fs, fs = SubSeq(frames, 1, Len(frames) - 1)
  PROVE  /\ Top \in Frames /\ FrameOK(Top) /\ Single(Top) /\ Top = frames[Len(frames)]
         /\ fs \in Seq(Frames) /\ Top.at \in Nat /\ Top.mid \in Nat
         /\ \A b \in FrameOpen(Top) : b = 0 \/ ~HeldByFrames(fs, b)
         /\ \A b \in FrameOpen(Top) : b # cur
         /\ \A b : HeldByFrames(fs, b) => HeldByFrames(frames, b)
<1>1. frames \in Seq(Frames)
  BY CodeType DEF Building
<1>2. Top \in Frames /\ FrameOK(Top) /\ Top = frames[Len(frames)]
  BY TopType DEF Building, Top
<1>3. /\ fs \in Seq(Frames) /\ Single(Top)
      /\ \A b : HeldByFrames(frames, b) <=> HeldByFrames(fs, b) \/ b \in FrameOpen(Top)
      /\ \A b \in FrameOpen(Top) : b = 0 \/ ~HeldByFrames(fs, b)
  BY <1>1, <1>2, PopHolds DEF Building, HeldOnce
<1>4. ~HeldByFrames(frames, cur)
  BY CurIsOpen
<1> QED
  BY <1>2, <1>3, <1>4 DEF Frames

LEMMA EndloopTraced ==
  ASSUME Building, GenEndloop, Nested(frames, pos), Balanced, NEW start, Traced(start)
  PROVE  Traced(start)'
<1>1. PICK n \in Nat : n = Len(code)
  BY CodeType DEF Building
<1>2. /\ AtOp("endloop") /\ frames # <<>> /\ Top.kind = "loop" /\ status = "generate"
      /\ Advance /\ UNCHANGED <<inserted, labelBlocks, loopExit, returnPoints, dests>>
      /\ frames' = SubSeq(frames, 1, Len(frames) - 1) /\ cur' = Top.second
  BY DEF GenEndloop, Closes, AtOp, symtab, Pop
<1>3. PICK rest : rest = SubSeq(frames, 1, Len(frames) - 1)
  OBVIOUS
<1>4. PICK t : t = Top
  OBVIOUS
<1>5. /\ t \in Frames /\ FrameOK(t) /\ Single(t) /\ t = frames[Len(frames)] /\ rest \in Seq(Frames) /\ t.at \in Nat
      /\ \A b \in FrameOpen(t) : b = 0 \/ ~HeldByFrames(rest, b)
      /\ \A b \in FrameOpen(t) : b # cur
      /\ \A b : HeldByFrames(rest, b) => HeldByFrames(frames, b)
  BY <1>2, <1>3, <1>4, TopIs
<1>6. /\ code \in CodeSeqs /\ cur \in 1 .. n /\ cur \in inserted /\ DOMAIN start = 1 .. n /\ Whole(start)
      /\ pos \in Nat /\ ~HeldByFrames(frames, cur) /\ frames \in Seq(Frames) /\ inserted \subseteq 1 .. n
      /\ body \in Seq(Items) /\ pos \in DOMAIN body /\ body[pos].op = "endloop"
  BY <1>1, <1>2, Standing, CodeType, AtType DEF Building, AtOp
<1>7. /\ t.outer \in 1 .. n /\ t.second \in 1 .. n /\ t.first \in Nat /\ t.outer # t.second /\ t.outer # 0
      /\ t.outer # cur /\ t.second # cur /\ FrameOpen(t) = {t.outer, t.second} /\ t.outer \in inserted
      /\ t.at \in DOMAIN body /\ body[t.at].op = "loop"
  <2>1. t.kind = "loop"
    BY <1>2, <1>4
  <2>2. /\ t.outer \in inserted /\ t.second \in inserted /\ t.outer # t.second
        /\ t.at \in DOMAIN body /\ body[t.at].op = "loop"
    BY <1>5, <2>1 DEF FrameOK, Single
  <2>3. FrameOpen(t) = {t.outer, t.second} /\ t.first \in Nat
    BY <1>5, <2>1 DEF FrameOpen, Frames
  <2>4. \A b \in inserted : b \in 1 .. n /\ b # 0
    BY <1>6
  <2> QED
    BY <1>5, <2>2, <2>3, <2>4
<1>8. Match(t.at, pos) /\ Semantics!CloseOf(t.at) = pos /\ Semantics!OpenOf(pos) = t.at
  <2>1. pos \in Int /\ body[pos].op \in Closers
    BY <1>6 DEF Closers
  <2>2. Match(t.at, pos)
    BY <1>2, <1>5, <1>6, <2>1, NestedPop
  <2> QED
    BY <1>6, <2>2, MatchIsClose, MatchIsOpen
<1>9. Extends(start, start)
  BY DEF Extends
<1>10. /\ Linked(code, start) /\ Stands(code, start, cur, Stmt(pos)) /\ FramesWait(frames, code, start)
       /\ LabelsWait(labelBlocks, inserted, code, start) /\ ExitsLead(loopExit, start)
  BY <1>2, <1>9, TracedGrows DEF Building
<1>11. FramesWait(rest, code, start) /\ FrameWaits(t, code, start)
  BY <1>2, <1>3, <1>5, <1>6, <1>10, FramesPop
<1>12. /\ Stands(code, start, t.outer, Stmt(t.at)) /\ Starts(start, t.first, Stmt(t.at + 1))
       /\ Stands(code, start, t.second, Stmt(pos + 1))
  BY <1>2, <1>4, <1>8, <1>11 DEF FrameWaits
<1>13. PICK x : x = Instr("br", <<t.first>>, Stmt(t.at))
  OBVIOUS
<1>14. PICK y : y = Instr("br", <<t.first>>, Stmt(pos))
  OBVIOUS
<1>15. /\ x \in AnyInstr /\ <<x>> = Br(t.first, Stmt(t.at)) /\ Spot(x) = Stmt(t.at) /\ Right(x, start)
       /\ \A b, points, returns : Knows({<<b, x>>}, points, returns)
  <2>1. PICK i \in Nat : i = t.at
    BY <1>5
  <2>2. BrGoes(i, Stmt(i + 1)) /\ i \in DOMAIN body /\ body[i].op # "gosub"
    BY <1>7, <2>1 DEF BrGoes
  <2> QED
    BY <1>7, <1>12, <1>13, <2>1, <2>2, BrIs
<1>16. /\ y \in AnyInstr /\ <<y>> = Br(t.first, Stmt(pos)) /\ Spot(y) = Stmt(pos) /\ Right(y, start)
       /\ \A b, points, returns : Knows({<<b, y>>}, points, returns)
  <2>1. BrGoes(pos, Stmt(t.at + 1)) /\ body[pos].op # "gosub"
    BY <1>6, <1>8 DEF BrGoes
  <2> QED
    BY <1>6, <1>7, <1>12, <1>14, <2>1, BrIs
<1>30. PICK o : o = t.outer
  OBVIOUS
<1>17. PICK mid : mid = Emit(code, o, <<x>>)
  OBVIOUS
<1>18. PICK after : after = code'
  OBVIOUS
<1>19. after = Emit(mid, cur, <<y>>)
  <2>1. Here = Stmt(pos)
    BY DEF Here
  <2> QED
    BY <1>4, <1>15, <1>16, <1>17, <1>18, <1>30, <2>1 DEF GenEndloop
<1>20. Adds(code, mid, start, {o}, {<<o, x>>}) /\ Len(mid) = Len(code)
  <2>1. Stands(code, start, o, Spot(x))
    BY <1>12, <1>15, <1>30
  <2> QED
    BY <1>6, <1>10, <1>15, <1>17, <2>1, PutOne
<1>21. Stands(mid, start, cur, Stmt(pos))
  <2>1. cur \notin {o}
    BY <1>7, <1>30
  <2> QED
    BY <1>10, <1>20, <2>1, StandsOn
<1>22. Adds(mid, after, start, {cur}, {<<cur, y>>}) /\ Len(after) = Len(mid)
  <2>1. mid \in CodeSeqs /\ Linked(mid, start)
    BY <1>20 DEF Adds
  <2> QED
    BY <1>16, <1>19, <1>21, <2>1, PutOne
<1>23. PICK T : T = {o} \cup {cur}
  OBVIOUS
<1>24. PICK es : es = {<<o, x>>} \cup {<<cur, y>>}
  OBVIOUS
<1>25. Adds(code, after, start, T, es)
  BY <1>20, <1>22, <1>23, <1>24, PutOn
<1>26. FramesWait(frames', code', start)
  <2>1. \A c \in T : ~HeldByFrames(rest, c)
    BY <1>5, <1>6, <1>7, <1>23, <1>30
  <2> QED
    BY <1>2, <1>3, <1>11, <1>18, <1>25, <2>1, FramesKept DEF Adds
<1>27. LabelsWait(labelBlocks', inserted', code', start)
  <2>1. T \subseteq inserted /\ inserted \subseteq inserted
    BY <1>6, <1>7, <1>23, <1>30
  <2> QED
    BY <1>2, <1>10, <1>18, <1>25, <2>1, LabelsKept DEF Adds
<1>28. Stands(after, start, t.second, Stmt(pos + 1))
  <2>1. t.second \notin T
    BY <1>7, <1>23, <1>30
  <2>2. \A c, spot : c \notin T /\ Stands(code, start, c, spot) => Stands(after, start, c, spot)
    BY <1>25, StandsOn
  <2> QED
    BY <1>12, <2>1, <2>2
<1>29. Knows(es, returnPoints', dests')
  <2>1. Knows({<<o, x>>}, returnPoints', dests') /\ Knows({<<cur, y>>}, returnPoints', dests')
    BY <1>15, <1>16
  <2> QED
    BY <1>24, <2>1 DEF Knows
<1> QED
  BY <1>1, <1>2, <1>4, <1>6, <1>9, <1>10, <1>18, <1>20, <1>22, <1>25, <1>26, <1>27, <1>28, <1>29, StepTraced DEF Building

LEMMA EndifTraced ==
  ASSUME Building, GenEndif, Nested(frames, pos), NEW start, Traced(start)
  PROVE  \E more : Traced(more)'
<1>1. PICK n \in Nat : n = Len(code)
  BY CodeType DEF Building
<1>2. /\ AtOp("endif") /\ frames # <<>> /\ Top.kind = "else" /\ status = "generate"
      /\ Advance /\ UNCHANGED <<labelBlocks, loopExit, returnPoints, dests>>
      /\ frames' = SubSeq(frames, 1, Len(frames) - 1)
      /\ inserted' = inserted \cup {n + 1} /\ cur' = n + 1
  BY <1>1 DEF GenEndif, Closes, AtOp, symtab, Pop
<1>3. PICK rest : rest = SubSeq(frames, 1, Len(frames) - 1)
  OBVIOUS
<1>4. PICK t : t = Top
  OBVIOUS
<1>5. /\ t \in Frames /\ FrameOK(t) /\ Single(t) /\ t = frames[Len(frames)] /\ rest \in Seq(Frames)
      /\ t.at \in Nat /\ t.mid \in Nat
      /\ \A b \in FrameOpen(t) : b = 0 \/ ~HeldByFrames(rest, b)
      /\ \A b \in FrameOpen(t) : b # cur
      /\ \A b : HeldByFrames(rest, b) => HeldByFrames(frames, b)
  BY <1>2, <1>3, <1>4, TopIs
<1>6. /\ code \in CodeSeqs /\ cur \in 1 .. n /\ cur \in inserted /\ DOMAIN start = 1 .. n /\ Whole(start)
      /\ pos \in Nat /\ ~HeldByFrames(frames, cur) /\ frames \in Seq(Frames) /\ inserted \subseteq 1 .. n
      /\ body \in Seq(Items) /\ pos \in DOMAIN body /\ body[pos].op = "endif"
  BY <1>1, <1>2, Standing, CodeType, AtType DEF Building, AtOp
<1>7. /\ t.outer \in 1 .. n /\ t.done \in 1 .. n /\ t.first \in Nat /\ t.second \in Nat /\ t.outer # t.done
      /\ t.outer # 0 /\ t.done # 0
      /\ t.outer # cur /\ t.done # cur /\ FrameOpen(t) = {t.outer, t.done}
      /\ t.outer \in inserted /\ t.done \in inserted
      /\ t.at \in DOMAIN body /\ body[t.at].op = "if"
  <2>1. t.kind = "else"
    BY <1>2, <1>4
  <2>2. /\ t.outer \in inserted /\ t.done \in inserted /\ t.outer # t.done
        /\ t.at \in DOMAIN body /\ body[t.at].op = "if"
    BY <1>5, <2>1 DEF FrameOK, Single
  <2>3. FrameOpen(t) = {t.outer, t.done} /\ t.first \in Nat /\ t.second \in Nat
    BY <1>5, <2>1 DEF FrameOpen, Frames
  <2>4. \A b \in inserted : b \in 1 .. n /\ b # 0
    BY <1>6
  <2> QED
    BY <1>5, <2>2, <2>3, <2>4
<1>8. /\ t.mid = Semantics!ElseOf(t.at) /\ t.mid \in DOMAIN body /\ body[t.mid].op = "else"
      /\ EndifOf(t.mid) = pos
  <2>1. pos \in Int /\ body[pos].op \in Closers
    BY <1>6 DEF Closers
  <2>2. EndifOf(t.mid) = pos
    BY <1>2, <1>4, <1>5, <1>6, <2>1, NestedPop DEF EndifOf
  <2>3. Len(frames) \in DOMAIN frames
    BY <1>2, <1>6
  <2>4. NestedFrame(t, Len(frames) - Len(frames) + 1, pos)
    BY <1>5, <2>3 DEF Nested
  <2> QED
    BY <1>2, <1>4, <2>2, <2>4 DEF NestedFrame
<1>9. PICK more : DOMAIN more = 1 .. n + 1 /\ Extends(start, more) /\ Whole(more) /\ Starts(more, n + 1, Stmt(pos + 1))
  BY <1>6, GrowOne, StmtIsNotPushed
<1>10. /\ Linked(code, more) /\ Stands(code, more, cur, Stmt(pos)) /\ FramesWait(frames, code, more)
       /\ LabelsWait(labelBlocks, inserted, code, more) /\ ExitsLead(loopExit, more)
  BY <1>2, <1>9, TracedGrows DEF Building
<1>11. FramesWait(rest, code, more) /\ FrameWaits(t, code, more)
  BY <1>2, <1>3, <1>5, <1>6, <1>10, FramesPop
<1>12. /\ Stands(code, more, t.outer, Stmt(t.at)) /\ Starts(more, t.first, Stmt(t.at + 1))
       /\ Stands(code, more, t.done, Stmt(t.mid)) /\ Starts(more, t.second, Stmt(t.mid + 1))
  BY <1>2, <1>4, <1>11 DEF FrameWaits
<1>13. PICK m \in Nat : m = n + 1
  OBVIOUS
<1>14. PICK x : x = Instr("choice", <<t.first, t.second>>, Stmt(t.at))
  OBVIOUS
<1>15. /\ x \in AnyInstr /\ Spot(x) = Stmt(t.at) /\ Right(x, more)
       /\ \A b, points, returns : Knows({<<b, x>>}, points, returns)
  <2>1. /\ x.op = "choice" /\ x.to = <<t.first, t.second>> /\ x.at = Stmt(t.at) /\ x.at[1] = t.at
        /\ DOMAIN x.to = {1, 2} /\ x.to[1] = t.first /\ x.to[2] = t.second
    BY <1>14 DEF Instr, Stmt
  <2>2. x \in AnyInstr
    <3>1. "choice" \in InstrOps /\ <<t.first, t.second>> \in Seq(Nat) /\ Stmt(t.at) \in Points
      BY <1>5, <1>7 DEF InstrOps, Terminators, Stmt, Points
    <3> QED
      BY <1>14, <3>1, InstrIsAny
  <2>3. To2(x, more, Stmt(x.at[1] + 1), Stmt(Semantics!ElseOf(x.at[1]) + 1))
    BY <1>8, <1>12, <2>1 DEF To2
  <2>4. Right(x, more)
    BY <1>7, <2>1, <2>3 DEF Right, Chooses, OfStmt
  <2>5. Spot(x) = Stmt(t.at)
    BY <2>1 DEF Spot
  <2> QED
    BY <2>1, <2>2, <2>4, <2>5 DEF Knows
<1>16. PICK y : y = Instr("br", <<m>>, Stmt(t.mid))
  OBVIOUS
<1>17. PICK z : z = Instr("br", <<m>>, Stmt(pos))
  OBVIOUS
<1>18. /\ y \in AnyInstr /\ <<y>> = Br(m, Stmt(t.mid)) /\ Spot(y) = Stmt(t.mid) /\ Right(y, more)
       /\ \A b, points, returns : Knows({<<b, y>>}, points, returns)
  <2>1. PICK i \in Nat : i = t.mid
    BY <1>5
  <2>2. BrGoes(i, Stmt(pos + 1)) /\ i \in DOMAIN body /\ body[i].op # "gosub"
    BY <1>8, <2>1 DEF BrGoes
  <2> QED
    BY <1>9, <1>13, <1>16, <2>1, <2>2, BrIs
<1>19. /\ z \in AnyInstr /\ <<z>> = Br(m, Stmt(pos)) /\ Spot(z) = Stmt(pos) /\ Right(z, more)
       /\ \A b, points, returns : Knows({<<b, z>>}, points, returns)
  <2>1. BrGoes(pos, Stmt(pos + 1)) /\ body[pos].op # "gosub"
    BY <1>6 DEF BrGoes
  <2> QED
    BY <1>6, <1>9, <1>13, <1>17, <2>1, BrIs
<1>39. PICK o : o = t.outer
  OBVIOUS
<1>40. PICK d : d = t.done
  OBVIOUS
<1>20. PICK c0 : c0 = Append(code, <<>>)
  OBVIOUS
<1>21. PICK c1 : c1 = Emit(c0, o, <<x>>)
  OBVIOUS
<1>22. PICK c2 : c2 = Emit(c1, d, <<y>>)
  OBVIOUS
<1>23. PICK after : after = code'
  OBVIOUS
<1>24. after = Emit(c2, cur, <<z>>)
  <2>1. Here = Stmt(pos)
    BY DEF Here
  <2> QED
    BY <1>1, <1>4, <1>13, <1>14, <1>18, <1>19, <1>20, <1>21, <1>22, <1>23, <1>39, <1>40, <2>1 DEF GenEndif
<1>25. Adds(code, c0, more, {}, {}) /\ Len(c0) = m /\ Stands(c0, more, m, Stmt(pos + 1))
  BY <1>1, <1>6, <1>9, <1>10, <1>13, <1>20, PutBlock
<1>26. /\ Stands(c0, more, o, Spot(x)) /\ Stands(c0, more, d, Spot(y))
       /\ Stands(c0, more, cur, Spot(z))
  <2>1. \A c, spot : c \notin {} /\ Stands(code, more, c, spot) => Stands(c0, more, c, spot)
    BY <1>25, StandsOn
  <2> QED
    BY <1>10, <1>12, <1>15, <1>18, <1>19, <1>39, <1>40, <2>1
<1>27. Adds(c0, c1, more, {o}, {<<o, x>>}) /\ Len(c1) = Len(c0)
  <2>1. c0 \in CodeSeqs /\ Linked(c0, more)
    BY <1>25 DEF Adds
  <2> QED
    BY <1>15, <1>21, <1>26, <2>1, PutOne
<1>28. Stands(c1, more, d, Spot(y)) /\ Stands(c1, more, cur, Spot(z))
  <2>1. d \notin {o} /\ cur \notin {o}
    BY <1>7, <1>39, <1>40
  <2> QED
    BY <1>26, <1>27, <2>1, StandsOn
<1>29. Adds(c1, c2, more, {d}, {<<d, y>>}) /\ Len(c2) = Len(c1)
  <2>1. c1 \in CodeSeqs /\ Linked(c1, more)
    BY <1>27 DEF Adds
  <2> QED
    BY <1>18, <1>22, <1>28, <2>1, PutOne
<1>30. Stands(c2, more, cur, Spot(z))
  <2>1. cur \notin {d}
    BY <1>7, <1>40
  <2> QED
    BY <1>28, <1>29, <2>1, StandsOn
<1>31. Adds(c2, after, more, {cur}, {<<cur, z>>}) /\ Len(after) = Len(c2)
  <2>1. c2 \in CodeSeqs /\ Linked(c2, more)
    BY <1>29 DEF Adds
  <2> QED
    BY <1>19, <1>24, <1>30, <2>1, PutOne
<1>32. PICK T : T = {} \cup {o} \cup {d} \cup {cur}
  OBVIOUS
<1>33. PICK es : es = {} \cup {<<o, x>>} \cup {<<d, y>>} \cup {<<cur, z>>}
  OBVIOUS
<1>34. Adds(code, after, more, T, es)
  <2>1. Adds(code, c1, more, {} \cup {o}, {} \cup {<<o, x>>})
    BY <1>25, <1>27, PutOn
  <2>2. Adds(code, c2, more, {} \cup {o} \cup {d}, {} \cup {<<o, x>>} \cup {<<d, y>>})
    BY ONLY <1>29, <2>1, PutOn
  <2>3. Adds(code, after, more, {} \cup {o} \cup {d} \cup {cur},
             {} \cup {<<o, x>>} \cup {<<d, y>>} \cup {<<cur, z>>})
    BY ONLY <1>31, <2>2, PutOn
  <2> QED
    BY <1>32, <1>33, <2>3
<1>35. FramesWait(frames', code', more)
  <2>1. \A c \in T : ~HeldByFrames(rest, c)
    BY <1>5, <1>6, <1>7, <1>32, <1>39, <1>40
  <2> QED
    BY <1>2, <1>3, <1>11, <1>23, <1>34, <2>1, FramesKept DEF Adds
<1>36. inserted \subseteq inserted' /\ LabelsWait(labelBlocks', inserted', code', more)
  <2>1. T \subseteq inserted /\ inserted \subseteq inserted'
    BY <1>2, <1>6, <1>7, <1>32, <1>39, <1>40
  <2> QED
    BY <1>2, <1>10, <1>23, <1>34, <2>1, LabelsKept DEF Adds
<1>37. Stands(after, more, m, Stmt(pos + 1))
  <2>1. m \notin T /\ m \notin {o} /\ m \notin {d} /\ m \notin {cur}
    BY <1>6, <1>7, <1>13, <1>32, <1>39, <1>40
  <2>2. Stands(c1, more, m, Stmt(pos + 1))
    BY <1>25, <1>27, <2>1, StandsOn
  <2>3. Stands(c2, more, m, Stmt(pos + 1))
    BY <1>29, <2>1, <2>2, StandsOn
  <2> QED
    BY <1>31, <2>1, <2>3, StandsOn
<1>38. Knows(es, returnPoints', dests')
  <2>1. /\ Knows({<<o, x>>}, returnPoints', dests') /\ Knows({<<d, y>>}, returnPoints', dests')
        /\ Knows({<<cur, z>>}, returnPoints', dests')
    BY <1>15, <1>18, <1>19
  <2> QED
    BY <1>33, <2>1 DEF Knows
<1> QED
  BY <1>2, <1>9, <1>10, <1>13, <1>23, <1>25, <1>27, <1>29, <1>31, <1>34, <1>35, <1>36, <1>37, <1>38, StepTraced DEF Building

\* Two instructions are put on a block.
LEMMA PutTwo ==
  ASSUME NEW a \in CodeSeqs, NEW b, NEW x \in AnyInstr, NEW y \in AnyInstr, NEW start,
         Linked(a, start), Stands(a, start, b, Spot(x)), Right(x, start),
         Spot(y) = Then(x), Right(y, start),
         NEW after, after = Emit(a, b, <<x>> \o <<y>>)
  PROVE  Adds(a, after, start, {b}, {<<b, x>>, <<b, y>>}) /\ Len(after) = Len(a)
         /\ Stands(after, start, b, Then(y))
<1>1. PICK mid : mid = Emit(a, b, <<x>>)
  OBVIOUS
<1>2. Adds(a, mid, start, {b}, {<<b, x>>}) /\ Len(mid) = Len(a) /\ Stands(mid, start, b, Then(x))
  BY <1>1, PutOne
<1>3. after = Emit(mid, b, <<y>>)
  BY <1>1, EmitTwo DEF Stands
<1>4. mid \in CodeSeqs /\ Linked(mid, start) /\ Stands(mid, start, b, Spot(y))
  BY <1>2 DEF Adds
<1>5. Adds(mid, after, start, {b}, {<<b, y>>}) /\ Len(after) = Len(mid) /\ Stands(after, start, b, Then(y))
  BY <1>3, <1>4, PutOne
<1>6. Adds(a, after, start, {b} \cup {b}, {<<b, x>>} \cup {<<b, y>>})
  BY <1>2, <1>5, PutOn
<1>7. {b} \cup {b} = {b} /\ {<<b, x>>} \cup {<<b, y>>} = {<<b, x>>, <<b, y>>}
  OBVIOUS
<1> QED
  BY <1>2, <1>5, <1>6, <1>7

LEMMA AppendIsEmit ==
  ASSUME NEW a \in CodeSeqs, NEW xs \in Seq(AnyInstr), NEW m, m = Len(a) + 1, NEW c, c = Append(a, <<>>)
  PROVE  Append(a, xs) = Emit(c, m, xs)
<1>1. a \in Seq(Seq(AnyInstr)) /\ Len(a) \in Nat
  BY DEF CodeSeqs
<1>2. PICK none \in Seq(AnyInstr) : none = <<>>
  BY NoInstr
<1>3. /\ c \in Seq(Seq(AnyInstr)) /\ Len(c) = m /\ c[m] = none /\ m \in 1 .. Len(c)
      /\ \A i \in 1 .. Len(a) : c[i] = a[i]
  BY <1>1, <1>2
<1>4. PICK e : e = Emit(c, m, xs)
  OBVIOUS
<1>5. /\ e \in Seq(Seq(AnyInstr)) /\ Len(e) = m /\ e[m] = none \o xs
      /\ \A i \in 1 .. m : i # m => e[i] = c[i]
  <2>1. /\ Emit(c, m, xs) \in Seq(Seq(AnyInstr)) /\ Len(Emit(c, m, xs)) = Len(c)
        /\ Emit(c, m, xs)[m] = c[m] \o xs
        /\ \A i \in 1 .. Len(c) : i # m => Emit(c, m, xs)[i] = c[i]
    <3>1. c \in Seq(Seq(AnyInstr)) /\ m \in 1 .. Len(c) /\ xs \in Seq(AnyInstr)
      BY <1>3
    <3> QED
      BY ONLY <3>1, EmitAt
  <2> QED
    BY <1>3, <1>4, <2>1
<1>6. none \o xs = xs
  BY <1>2
<1>7. PICK d : d = Append(a, xs)
  OBVIOUS
<1>8. /\ d \in Seq(Seq(AnyInstr)) /\ Len(d) = m /\ d[m] = xs
      /\ \A i \in 1 .. Len(a) : d[i] = a[i]
  BY <1>1, <1>7
<1>9. \A i \in 1 .. m : (i \in 1 .. Len(a) /\ i # m) \/ i = m
  BY <1>1
<1>10. Len(d) = Len(e) /\ \A i \in 1 .. Len(d) : d[i] = e[i]
  <2>1. d[m] = e[m]
    BY <1>5, <1>6, <1>8
  <2>2. ASSUME NEW i \in 1 .. m, i \in 1 .. Len(a), i # m
        PROVE  d[i] = e[i]
    <3>1. e[i] = c[i] /\ c[i] = a[i] /\ d[i] = a[i]
      BY <1>3, <1>5, <1>8, <2>2
    <3> QED
      BY <3>1
  <2> QED
    BY <1>5, <1>8, <1>9, <2>1, <2>2
<1>11. d = e
  BY ONLY <1>5, <1>8, <1>10, SameSeq
<1> QED
  BY <1>4, <1>7, <1>11

\* The branch to the test of a for loop.
LEMMA TestBrIs ==
  ASSUME NEW t \in Nat, NEW i \in Nat, i \in DOMAIN body, body[i].op = "for", NEW start, Starts(start, t, Test(i)),
         NEW x, x = Instr("br", <<t>>, Test(i))
  PROVE  /\ x \in AnyInstr /\ <<x>> = Br(t, Test(i)) /\ Spot(x) = Test(i) /\ Right(x, start)
         /\ \A b, points, returns : Knows({<<b, x>>}, points, returns)
<1>1. x.op = "br" /\ x.to = <<t>> /\ x.at = Test(i) /\ x.at[1] = i /\ x.at[2] = "test" /\ DOMAIN x.to = {1} /\ x.to[1] = t
  BY DEF Instr, Test
<1>2. x \in AnyInstr
  <2>1. "br" \in InstrOps /\ <<t>> \in Seq(Nat) /\ Test(i) \in Points
    BY DEF InstrOps, Terminators, Test, Points
  <2> QED
    BY <2>1, InstrIsAny
<1>3. <<x>> = Br(t, Test(i))
  BY DEF Br
<1>4. Right(x, start)
  <2>1. To1(x, start, Test(x.at[1])) /\ OfTest(x)
    BY <1>1 DEF To1, OfTest
  <2>2. Branches(x, start)
    BY <1>1, <2>1 DEF Branches
  <2> QED
    BY <2>2 DEF Right
<1>5. \A b, points, returns : Knows({<<b, x>>}, points, returns)
  BY <1>1 DEF Knows
<1>6. Spot(x) = Test(i)
  BY <1>1 DEF Spot
<1> QED
  BY <1>2, <1>3, <1>4, <1>5, <1>6

LEMMA StepIs ==
  ASSUME NEW i \in Nat, i \in DOMAIN body, body[i].op = "next", NEW j \in Nat, Semantics!OpenOf(i) = j,
         NEW l \in Loops, l = body[j].arg, NEW x, x = ForInstr("step", <<>>, Stmt(i), l)
  PROVE  /\ x \in AnyInstr /\ Spot(x) = Stmt(i) /\ Then(x) = Test(j) /\ \A start : Right(x, start)
         /\ \A b, points, returns : Knows({<<b, x>>}, points, returns)
<1>1. x.op = "step" /\ x.to = <<>> /\ x.at = Stmt(i) /\ x.at[1] = i /\ x.loop = l
  BY DEF ForInstr, Stmt
<1>2. x \in AnyInstr
  <2>1. "step" \in InstrOps /\ <<>> \in Seq(Nat) /\ Stmt(i) \in Points
    BY DEF InstrOps, Terminators, Stmt, Points
  <2> QED
    BY <2>1, InstrIsAny
<1>3. Computes(x)
  BY <1>1 DEF Computes, OfStmt
<1> QED
  BY <1>1, <1>2, <1>3 DEF Spot, Then, Right, Knows

LEMMA NextTraced ==
  ASSUME Building, GenNext, Nested(frames, pos), Balanced, NEW start, Traced(start)
  PROVE  \E more : Traced(more)'
<1>1. PICK n \in Nat : n = Len(code)
  BY CodeType DEF Building
<1>2. /\ AtOp("next") /\ frames # <<>> /\ Top.kind = "for" /\ status = "generate"
      /\ Advance /\ UNCHANGED <<labelBlocks, loopExit, returnPoints, dests>>
      /\ frames' = SubSeq(frames, 1, Len(frames) - 1)
      /\ inserted' = inserted \cup {n + 1} /\ cur' = Top.second
  BY <1>1 DEF GenNext, Closes, AtOp, symtab, Pop
<1>3. PICK rest : rest = SubSeq(frames, 1, Len(frames) - 1)
  OBVIOUS
<1>4. PICK t : t = Top
  OBVIOUS
<1>5. /\ t \in Frames /\ FrameOK(t) /\ Single(t) /\ t = frames[Len(frames)] /\ rest \in Seq(Frames) /\ t.at \in Nat
      /\ \A b \in FrameOpen(t) : b # cur
      /\ \A b : HeldByFrames(rest, b) => HeldByFrames(frames, b)
  BY <1>2, <1>3, <1>4, TopIs
<1>6. /\ code \in CodeSeqs /\ cur \in 1 .. n /\ cur \in inserted /\ DOMAIN start = 1 .. n /\ Whole(start)
      /\ pos \in Nat /\ ~HeldByFrames(frames, cur) /\ frames \in Seq(Frames) /\ inserted \subseteq 1 .. n
      /\ body \in Seq(Items) /\ body \in Bodies /\ pos \in DOMAIN body /\ body[pos].op = "next"
  BY <1>1, <1>2, Standing, CodeType, AtType DEF Building, AtOp
<1>7. /\ t.second \in 1 .. n /\ t.first \in Nat /\ t.second # cur
      /\ t.at \in DOMAIN body /\ body[t.at].op = "for" /\ body[t.at].arg \in Loops
  <2>1. t.kind = "for"
    BY <1>2, <1>4
  <2>2. t.second \in inserted /\ t.at \in DOMAIN body /\ body[t.at].op = "for" /\ t.second \in FrameOpen(t)
    BY <1>5, <2>1 DEF FrameOK, FrameOpen
  <2>3. t.first \in Nat
    BY <1>5, <2>1 DEF Frames
  <2>4. body[t.at].arg \in Loops
    BY <1>6, <2>2, BodiesAreItems DEF HasLoop
  <2> QED
    BY <1>5, <1>6, <2>2, <2>3, <2>4
<1>8. Match(t.at, pos) /\ Semantics!CloseOf(t.at) = pos /\ Semantics!OpenOf(pos) = t.at
  <2>1. pos \in Int /\ body[pos].op \in Closers
    BY <1>6 DEF Closers
  <2>2. Match(t.at, pos)
    BY <1>2, <1>5, <1>6, <2>1, NestedPop
  <2> QED
    BY <1>6, <2>2, MatchIsClose, MatchIsOpen
<1>9. PICK more : DOMAIN more = 1 .. n + 1 /\ Extends(start, more) /\ Whole(more) /\ Starts(more, n + 1, Stmt(pos))
  BY <1>6, GrowOne, StmtIsNotPushed
<1>10. /\ Linked(code, more) /\ Stands(code, more, cur, Stmt(pos)) /\ FramesWait(frames, code, more)
       /\ LabelsWait(labelBlocks, inserted, code, more) /\ ExitsLead(loopExit, more)
  BY <1>2, <1>9, TracedGrows DEF Building
<1>11. FramesWait(rest, code, more) /\ FrameWaits(t, code, more)
  BY <1>2, <1>3, <1>5, <1>6, <1>10, FramesPop
<1>12. /\ Starts(more, t.first, Test(t.at)) /\ Stands(code, more, t.second, Stmt(pos + 1))
  BY <1>2, <1>4, <1>8, <1>11 DEF FrameWaits
<1>13. PICK m \in Nat : m = n + 1
  OBVIOUS
<1>14. PICK x : x = Instr("br", <<m>>, Stmt(pos))
  OBVIOUS
<1>15. PICK y : y = ForInstr("step", <<>>, Stmt(pos), body[t.at].arg)
  OBVIOUS
<1>16. PICK z : z = Instr("br", <<t.first>>, Test(t.at))
  OBVIOUS
<1>17. /\ x \in AnyInstr /\ <<x>> = Br(m, Stmt(pos)) /\ Spot(x) = Stmt(pos) /\ Right(x, more)
       /\ \A b, points, returns : Knows({<<b, x>>}, points, returns)
  <2>1. BrGoes(pos, Stmt(pos)) /\ body[pos].op # "gosub"
    BY <1>6 DEF BrGoes
  <2> QED
    BY <1>6, <1>9, <1>13, <1>14, <2>1, BrIs
<1>18. /\ y \in AnyInstr /\ Spot(y) = Stmt(pos) /\ Then(y) = Test(t.at) /\ Right(y, more)
       /\ \A b, points, returns : Knows({<<b, y>>}, points, returns)
  <2>1. PICK l \in Loops : l = body[t.at].arg
    BY <1>7
  <2>2. PICK j \in Nat : j = t.at
    BY <1>5
  <2>3. /\ pos \in Nat /\ pos \in DOMAIN body /\ body[pos].op = "next" /\ Semantics!OpenOf(pos) = j
        /\ l = body[j].arg /\ y = ForInstr("step", <<>>, Stmt(pos), l)
    BY <1>6, <1>8, <1>15, <2>1, <2>2
  <2>4. /\ y \in AnyInstr /\ Spot(y) = Stmt(pos) /\ Then(y) = Test(j) /\ \A s : Right(y, s)
        /\ \A b, points, returns : Knows({<<b, y>>}, points, returns)
    BY ONLY ZenonT(60), <2>3, StepIs, j \in Nat, l \in Loops
  <2> QED
    BY <2>2, <2>4
<1>19. /\ z \in AnyInstr /\ <<z>> = Br(t.first, Test(t.at)) /\ Spot(z) = Test(t.at) /\ Right(z, more)
       /\ \A b, points, returns : Knows({<<b, z>>}, points, returns)
  <2>1. PICK i \in Nat : i = t.at
    BY <1>5
  <2>2. PICK f \in Nat : f = t.first
    BY <1>7
  <2> QED
    BY ZenonT(60), <1>7, <1>12, <1>16, <2>1, <2>2, TestBrIs
<1>20. PICK c1 : c1 = Emit(code, cur, <<x>>)
  OBVIOUS
<1>21. PICK c2 : c2 = Append(c1, <<>>)
  OBVIOUS
<1>22. PICK after : after = code'
  OBVIOUS
<1>23. PICK yz \in Seq(AnyInstr) : yz = <<y>> \o <<z>>
  <2>1. \A u \in AnyInstr, v \in AnyInstr : <<u>> \o <<v>> \in Seq(AnyInstr)
    OBVIOUS
  <2> QED
    BY <1>18, <1>19, <2>1
<1>24. after = Append(c1, yz)
  <2>1. Here = Stmt(pos)
    BY DEF Here
  <2> QED
    BY <1>1, <1>4, <1>13, <1>15, <1>17, <1>19, <1>20, <1>22, <1>23, <2>1 DEF GenNext, BackEdge
<1>25. Adds(code, c1, more, {cur}, {<<cur, x>>}) /\ Len(c1) = n
  <2>1. Stands(code, more, cur, Spot(x)) /\ Linked(code, more) /\ code \in CodeSeqs /\ Right(x, more) /\ x \in AnyInstr
    BY <1>6, <1>10, <1>17
  <2>2. Adds(code, c1, more, {cur}, {<<cur, x>>}) /\ Len(c1) = Len(code)
    BY ONLY <1>20, <2>1, PutOne
  <2> QED
    BY <1>1, <2>2
<1>26. c1 \in CodeSeqs /\ Linked(c1, more) /\ m = Len(c1) + 1
  BY <1>13, <1>25 DEF Adds
<1>27. Adds(c1, c2, more, {}, {}) /\ Len(c2) = m /\ Stands(c2, more, m, Stmt(pos))
  <2>1. PICK spot : spot = Stmt(pos)
    OBVIOUS
  <2>2. Starts(more, m, spot)
    BY <1>9, <1>13, <2>1
  <2>3. Adds(c1, c2, more, {}, {}) /\ Len(c2) = m /\ Stands(c2, more, m, spot)
    BY ONLY <1>21, <1>26, <2>2, PutBlock
  <2> QED
    BY <2>1, <2>3
<1>28. c2 \in CodeSeqs /\ Linked(c2, more)
  BY <1>27 DEF Adds
<1>29. after = Emit(c2, m, <<y>> \o <<z>>)
  <2>1. Append(c1, yz) = Emit(c2, m, yz)
    BY ONLY <1>21, <1>26, AppendIsEmit, yz \in Seq(AnyInstr)
  <2> QED
    BY ONLY <1>23, <1>24, <2>1, Zenon
<1>30. Adds(c2, after, more, {m}, {<<m, y>>, <<m, z>>}) /\ Len(after) = Len(c2)
  BY <1>18, <1>19, <1>27, <1>28, <1>29, PutTwo
<1>31. Adds(code, c2, more, {cur}, {<<cur, x>>})
  <2>1. Adds(code, c2, more, {cur} \cup {}, {<<cur, x>>} \cup {})
    BY ONLY <1>25, <1>27, PutOn
  <2> QED
    BY <2>1
<1>32. PICK T : T = {cur} \cup {m}
  OBVIOUS
<1>33. PICK es : es = {<<cur, x>>} \cup {<<m, y>>, <<m, z>>}
  OBVIOUS
<1>34. Adds(code, after, more, T, es)
  BY <1>30, <1>31, <1>32, <1>33, PutOn
<1>35. m \notin inserted /\ m # 0 /\ m # t.second /\ m \in inserted' /\ inserted \subseteq inserted'
  BY <1>2, <1>6, <1>7, <1>13
<1>36. FramesWait(frames', code', more)
  <2>1. ~HeldByFrames(frames, m)
    BY <1>35, CurIsOpen
  <2>2. \A c \in T : ~HeldByFrames(rest, c)
    BY <1>5, <1>6, <1>32, <2>1
  <2> QED
    BY <1>2, <1>3, <1>11, <1>22, <1>34, <2>2, FramesKept DEF Adds
<1>37. LabelsWait(labelBlocks', inserted', code', more)
  <2>1. LabelsWait(labelBlocks, inserted', c2, more)
    <3>1. {cur} \subseteq inserted
      BY <1>6
    <3>2. Keeps(code, more, c2, more, {cur})
      BY <1>31 DEF Adds
    <3>3. PICK ins : ins = inserted'
      OBVIOUS
    <3>4. inserted \subseteq ins /\ LabelsWait(labelBlocks, inserted, code, more)
      BY <1>10, <1>35, <3>3
    <3>5. LabelsWait(labelBlocks, ins, c2, more)
      BY ONLY <3>1, <3>2, <3>4, LabelsKept
    <3> QED
      BY <3>3, <3>5
  <2>2. {m} \subseteq inserted' /\ inserted' \subseteq inserted'
    BY <1>35
  <2>3. LabelsWait(labelBlocks, inserted', after, more)
    BY <1>30, <2>1, <2>2, LabelsKept DEF Adds
  <2> QED
    BY <1>2, <1>22, <2>3
<1>38. Stands(after, more, t.second, Stmt(pos + 1))
  <2>1. t.second \notin T
    BY <1>7, <1>32, <1>35
  <2>2. \A c, spot : c \notin T /\ Stands(code, more, c, spot) => Stands(after, more, c, spot)
    BY <1>34, StandsOn
  <2> QED
    BY <1>12, <2>1, <2>2
<1>39. Knows(es, returnPoints', dests')
  <2>1. /\ Knows({<<cur, x>>}, returnPoints', dests') /\ Knows({<<m, y>>}, returnPoints', dests')
        /\ Knows({<<m, z>>}, returnPoints', dests')
    BY <1>17, <1>18, <1>19
  <2> QED
    BY <1>33, <2>1 DEF Knows
<1> QED
  BY <1>2, <1>4, <1>9, <1>10, <1>13, <1>22, <1>27, <1>30, <1>34, <1>35, <1>36, <1>37, <1>38, <1>39, StepTraced DEF Building

\* The instructions of a for loop.
LEMMA InitIs ==
  ASSUME NEW i \in Nat, i \in DOMAIN body, body[i].op = "for",
         NEW l \in Loops, l = body[i].arg, NEW x, x = ForInstr("init", <<>>, Stmt(i), l)
  PROVE  /\ x \in AnyInstr /\ Spot(x) = Stmt(i) /\ Then(x) = Test(i) /\ \A start : Right(x, start)
         /\ \A b, points, returns : Knows({<<b, x>>}, points, returns)
<1>1. x.op = "init" /\ x.to = <<>> /\ x.at = Stmt(i) /\ x.at[1] = i /\ x.loop = l
  BY DEF ForInstr, Stmt
<1>2. x \in AnyInstr
  <2>1. "init" \in InstrOps /\ <<>> \in Seq(Nat) /\ Stmt(i) \in Points
    BY DEF InstrOps, Terminators, Stmt, Points
  <2> QED
    BY <2>1, InstrIsAny
<1>3. Computes(x)
  BY <1>1 DEF Computes, OfStmt
<1> QED
  BY <1>1, <1>2, <1>3 DEF Spot, Then, Right, Knows

CondFits(x, op, i, yes, no) ==
  /\ x \in AnyInstr /\ x.op = op /\ x.at[1] = i /\ OfLoop(x)
  /\ op = "positive" => Spot(x) = Test(i)
  /\ op = "notAbove" => Spot(x) = <<i, "rising">>
  /\ op = "negative" => Spot(x) = <<i, "flat">>
  /\ op = "notBelow" => Spot(x) = <<i, "falling">>
  /\ \A start, s, t : Starts(start, yes, s) /\ Starts(start, no, t) => To2(x, start, s, t)
  /\ \A b, points, returns : Knows({<<b, x>>}, points, returns)

LEMMA CondIs ==
  ASSUME NEW op \in {"positive", "notAbove", "negative", "notBelow"},
         NEW i \in Nat, i \in DOMAIN body, body[i].op = "for", body[i].arg \in Loops,
         NEW yes \in Nat, NEW no \in Nat, NEW x, x = ForInstr(op, <<yes, no>>, Test(i), body[i].arg)
  PROVE  CondFits(x, op, i, yes, no)
<1>1. /\ x.op = op /\ x.to = <<yes, no>> /\ x.at = Test(i) /\ x.at[1] = i /\ x.loop = body[i].arg
      /\ DOMAIN x.to = {1, 2} /\ x.to[1] = yes /\ x.to[2] = no
  BY DEF ForInstr, Test
<1>2. x \in AnyInstr
  <2>1. op \in InstrOps /\ Test(i) \in Points
    BY DEF InstrOps, Terminators, Test, Points
  <2>2. <<yes, no>> \in Seq(Nat)
    OBVIOUS
  <2> QED
    BY <2>1, <2>2, InstrIsAny
<1>3. OfLoop(x)
  BY <1>1 DEF OfLoop, OfTest
<1>4. /\ op = "positive" => Spot(x) = Test(i)
      /\ op = "notAbove" => Spot(x) = <<i, "rising">>
      /\ op = "negative" => Spot(x) = <<i, "flat">>
      /\ op = "notBelow" => Spot(x) = <<i, "falling">>
  BY <1>1 DEF Spot
<1>5. \A start, s, t : Starts(start, yes, s) /\ Starts(start, no, t) => To2(x, start, s, t)
  BY <1>1 DEF To2
<1>6. \A b, points, returns : Knows({<<b, x>>}, points, returns)
  BY <1>1 DEF Knows
<1> QED
  BY <1>1, <1>2, <1>3, <1>4, <1>5, <1>6 DEF CondFits

LEMMA GrowSix ==
  ASSUME NEW n \in Nat, NEW start, DOMAIN start = 1 .. n, Whole(start),
         NEW s1, NEW s2, NEW s3, NEW s4, NEW s5, NEW s6,
         \A s \in {s1, s2, s3, s4, s5, s6} : s[2] # "pushed"
  PROVE  \E more : /\ DOMAIN more = 1 .. n + 6 /\ Extends(start, more) /\ Whole(more)
                   /\ Starts(more, n + 1, s1) /\ Starts(more, n + 2, s2) /\ Starts(more, n + 3, s3)
                   /\ Starts(more, n + 4, s4) /\ Starts(more, n + 5, s5) /\ Starts(more, n + 6, s6)
<1>1. PICK f : f = <<s1, s2, s3, s4, s5, s6>>
  OBVIOUS
<1>2. /\ f[1] = s1 /\ f[2] = s2 /\ f[3] = s3 /\ f[4] = s4 /\ f[5] = s5 /\ f[6] = s6
      /\ \A j \in 1 .. 6 : j \in {1, 2, 3, 4, 5, 6}
  BY <1>1
<1>3. \A j \in 1 .. 6 : f[j][2] # "pushed"
  BY <1>2
<1>4. PICK more : /\ DOMAIN more = 1 .. n + 6 /\ Extends(start, more) /\ Whole(more)
                  /\ \A j \in 1 .. 6 : Starts(more, n + j, f[j])
  BY ONLY <1>3, GrowBy, n \in Nat, 6 \in Nat, DOMAIN start = 1 .. n, Whole(start)
<1>5. 1 \in 1 .. 6 /\ 2 \in 1 .. 6 /\ 3 \in 1 .. 6 /\ 4 \in 1 .. 6 /\ 5 \in 1 .. 6 /\ 6 \in 1 .. 6
  OBVIOUS
<1> QED
  BY <1>2, <1>4, <1>5

LEMMA ForTraced ==
  ASSUME Building, GenFor, NEW start, Traced(start)
  PROVE  \E more : Traced(more)'
<1>1. PICK n \in Nat : n = Len(code)
  BY CodeType DEF Building
<1>2. PICK g : g = Frame("for", n + 1, n + 6)
  OBVIOUS
<1>3. /\ AtOp("for") /\ Advance /\ UNCHANGED <<labelBlocks, returnPoints, dests>>
      /\ frames' = Append(frames, g) /\ status = "generate"
      /\ inserted' = inserted \cup n + 1 .. n + 6 /\ cur' = n + 5
      /\ loopExit' = [loopExit EXCEPT ![Arg] = n + 6]
  BY <1>1, <1>2 DEF GenFor, Push, AtOp
<1>4. /\ code \in CodeSeqs /\ cur \in 1 .. n /\ cur \in inserted /\ DOMAIN start = 1 .. n /\ Whole(start)
      /\ pos \in Nat /\ ~HeldByFrames(frames, cur) /\ frames \in Seq(Frames)
      /\ body \in Bodies /\ pos \in DOMAIN body /\ body[pos].op = "for"
  BY <1>1, <1>3, Standing, CodeType, AtType DEF Building, AtOp
<1>5. PICK l \in Loops : l = Arg /\ l = body[pos].arg
  BY <1>3, AtType DEF Building, HasLoop, Arg
<1>6. PICK done : done = Stmt(Semantics!CloseOf(pos) + 1)
  OBVIOUS
<1>7. PICK at : at = Test(pos)
  OBVIOUS
<1>8. PICK more : /\ DOMAIN more = 1 .. n + 6 /\ Extends(start, more) /\ Whole(more)
                  /\ Starts(more, n + 1, at) /\ Starts(more, n + 2, <<pos, "rising">>)
                  /\ Starts(more, n + 3, <<pos, "flat">>) /\ Starts(more, n + 4, <<pos, "falling">>)
                  /\ Starts(more, n + 5, Stmt(pos + 1)) /\ Starts(more, n + 6, done)
  <2>1. \A s \in {at, <<pos, "rising">>, <<pos, "flat">>, <<pos, "falling">>, Stmt(pos + 1), done} : s[2] # "pushed"
    BY <1>6, <1>7 DEF Stmt, Test
  <2> QED
    BY <1>4, <2>1, GrowSix
<1>9. /\ Linked(code, more) /\ Stands(code, more, cur, Stmt(pos)) /\ FramesWait(frames, code, more)
      /\ LabelsWait(labelBlocks, inserted, code, more) /\ ExitsLead(loopExit, more)
  BY <1>3, <1>8, TracedGrows DEF Building
<1>10. PICK m1 \in Nat : m1 = n + 1
  OBVIOUS
<1>11. PICK m2 \in Nat : m2 = n + 2 /\ m2 = m1 + 1
  BY <1>10
<1>12. PICK m3 \in Nat : m3 = n + 3 /\ m3 = m2 + 1
  BY <1>11
<1>13. PICK m4 \in Nat : m4 = n + 4 /\ m4 = m3 + 1
  BY <1>12
<1>14. PICK m5 \in Nat : m5 = n + 5 /\ m5 = m4 + 1
  BY <1>13
<1>15. PICK m6 \in Nat : m6 = n + 6 /\ m6 = m5 + 1
  BY <1>14
<1>16. /\ Starts(more, m1, at) /\ Starts(more, m2, <<pos, "rising">>)
       /\ Starts(more, m3, <<pos, "flat">>) /\ Starts(more, m4, <<pos, "falling">>)
       /\ Starts(more, m5, Stmt(pos + 1)) /\ Starts(more, m6, done)
  BY <1>8, <1>10, <1>11, <1>12, <1>13, <1>14, <1>15
<1>17. PICK x : x = ForInstr("init", <<>>, Stmt(pos), l)
  OBVIOUS
<1>18. PICK y : y = Instr("br", <<m1>>, at)
  OBVIOUS
<1>19. /\ x \in AnyInstr /\ Spot(x) = Stmt(pos) /\ Then(x) = at /\ Right(x, more)
       /\ \A b, points, returns : Knows({<<b, x>>}, points, returns)
  BY <1>4, <1>5, <1>7, <1>17, InitIs
<1>20. /\ y \in AnyInstr /\ <<y>> = Br(m1, at) /\ Spot(y) = at /\ Right(y, more)
       /\ \A b, points, returns : Knows({<<b, y>>}, points, returns)
  BY <1>4, <1>7, <1>16, <1>18, TestBrIs
<1>21. PICK w1 : w1 = ForInstr("positive", <<m2, m3>>, at, l)
  OBVIOUS
<1>22. /\ w1 \in AnyInstr /\ Spot(w1) = at /\ Right(w1, more)
       /\ \A b, points, returns : Knows({<<b, w1>>}, points, returns)
  <2>1. /\ w1 \in AnyInstr /\ w1.op = "positive" /\ w1.at[1] = pos /\ OfLoop(w1) /\ Spot(w1) = at
        /\ \A sp, s, t : Starts(sp, m2, s) /\ Starts(sp, m3, t) => To2(w1, sp, s, t)
        /\ \A b, points, returns : Knows({<<b, w1>>}, points, returns)
    <3>1. /\ pos \in Nat /\ pos \in DOMAIN body /\ body[pos].op = "for" /\ body[pos].arg \in Loops
          /\ m2 \in Nat /\ m3 \in Nat
          /\ w1 = ForInstr("positive", <<m2, m3>>, Test(pos), body[pos].arg) /\ at = Test(pos)
      BY <1>4, <1>5, <1>7, <1>21
    <3>2. CondFits(w1, "positive", pos, m2, m3)
      BY ONLY <3>1, CondIs
    <3> QED
      BY <3>1, <3>2 DEF CondFits
  <2>2. To2(w1, more, <<pos, "rising">>, <<pos, "flat">>)
    BY <1>16, <2>1
  <2>3. Chooses(w1, more)
    BY <1>6, <2>1, <2>2 DEF Chooses
  <2> QED
    BY <2>1, <2>3 DEF Right
<1>23. PICK w2 : w2 = ForInstr("notAbove", <<m5, m6>>, at, l)
  OBVIOUS
<1>24. /\ w2 \in AnyInstr /\ Spot(w2) = <<pos, "rising">> /\ Right(w2, more)
       /\ \A b, points, returns : Knows({<<b, w2>>}, points, returns)
  <2>1. /\ w2 \in AnyInstr /\ w2.op = "notAbove" /\ w2.at[1] = pos /\ OfLoop(w2) /\ Spot(w2) = <<pos, "rising">>
        /\ \A sp, s, t : Starts(sp, m5, s) /\ Starts(sp, m6, t) => To2(w2, sp, s, t)
        /\ \A b, points, returns : Knows({<<b, w2>>}, points, returns)
    <3>1. /\ pos \in Nat /\ pos \in DOMAIN body /\ body[pos].op = "for" /\ body[pos].arg \in Loops
          /\ m5 \in Nat /\ m6 \in Nat
          /\ w2 = ForInstr("notAbove", <<m5, m6>>, Test(pos), body[pos].arg) /\ at = Test(pos)
      BY <1>4, <1>5, <1>7, <1>23
    <3>2. CondFits(w2, "notAbove", pos, m5, m6)
      BY ONLY <3>1, CondIs
    <3> QED
      BY <3>1, <3>2 DEF CondFits
  <2>2. To2(w2, more, Stmt(pos + 1), done)
    BY <1>16, <2>1
  <2>3. Chooses(w2, more)
    BY <1>6, <2>1, <2>2 DEF Chooses
  <2> QED
    BY <2>1, <2>3 DEF Right
<1>25. PICK w3 : w3 = ForInstr("negative", <<m4, m6>>, at, l)
  OBVIOUS
<1>26. /\ w3 \in AnyInstr /\ Spot(w3) = <<pos, "flat">> /\ Right(w3, more)
       /\ \A b, points, returns : Knows({<<b, w3>>}, points, returns)
  <2>1. /\ w3 \in AnyInstr /\ w3.op = "negative" /\ w3.at[1] = pos /\ OfLoop(w3) /\ Spot(w3) = <<pos, "flat">>
        /\ \A sp, s, t : Starts(sp, m4, s) /\ Starts(sp, m6, t) => To2(w3, sp, s, t)
        /\ \A b, points, returns : Knows({<<b, w3>>}, points, returns)
    <3>1. /\ pos \in Nat /\ pos \in DOMAIN body /\ body[pos].op = "for" /\ body[pos].arg \in Loops
          /\ m4 \in Nat /\ m6 \in Nat
          /\ w3 = ForInstr("negative", <<m4, m6>>, Test(pos), body[pos].arg) /\ at = Test(pos)
      BY <1>4, <1>5, <1>7, <1>25
    <3>2. CondFits(w3, "negative", pos, m4, m6)
      BY ONLY <3>1, CondIs
    <3> QED
      BY <3>1, <3>2 DEF CondFits
  <2>2. To2(w3, more, <<pos, "falling">>, done)
    BY <1>16, <2>1
  <2>3. Chooses(w3, more)
    BY <1>6, <2>1, <2>2 DEF Chooses
  <2> QED
    BY <2>1, <2>3 DEF Right
<1>27. PICK w4 : w4 = ForInstr("notBelow", <<m5, m6>>, at, l)
  OBVIOUS
<1>28. /\ w4 \in AnyInstr /\ Spot(w4) = <<pos, "falling">> /\ Right(w4, more)
       /\ \A b, points, returns : Knows({<<b, w4>>}, points, returns)
  <2>1. /\ w4 \in AnyInstr /\ w4.op = "notBelow" /\ w4.at[1] = pos /\ OfLoop(w4) /\ Spot(w4) = <<pos, "falling">>
        /\ \A sp, s, t : Starts(sp, m5, s) /\ Starts(sp, m6, t) => To2(w4, sp, s, t)
        /\ \A b, points, returns : Knows({<<b, w4>>}, points, returns)
    <3>1. /\ pos \in Nat /\ pos \in DOMAIN body /\ body[pos].op = "for" /\ body[pos].arg \in Loops
          /\ m5 \in Nat /\ m6 \in Nat
          /\ w4 = ForInstr("notBelow", <<m5, m6>>, Test(pos), body[pos].arg) /\ at = Test(pos)
      BY <1>4, <1>5, <1>7, <1>27
    <3>2. CondFits(w4, "notBelow", pos, m5, m6)
      BY ONLY <3>1, CondIs
    <3> QED
      BY <3>1, <3>2 DEF CondFits
  <2>2. To2(w4, more, Stmt(pos + 1), done)
    BY <1>16, <2>1
  <2>3. Chooses(w4, more)
    BY <1>6, <2>1, <2>2 DEF Chooses
  <2> QED
    BY <2>1, <2>3 DEF Right
<1>29. PICK c0 : c0 = Emit(code, cur, <<x>> \o <<y>>)
  OBVIOUS
<1>30. PICK c1 : c1 = Append(c0, <<w1>>)
  OBVIOUS
<1>31. PICK c2 : c2 = Append(c1, <<w2>>)
  OBVIOUS
<1>32. PICK c3 : c3 = Append(c2, <<w3>>)
  OBVIOUS
<1>33. PICK c4 : c4 = Append(c3, <<w4>>)
  OBVIOUS
<1>34. PICK c5 : c5 = Append(c4, <<>>)
  OBVIOUS
<1>35. PICK c6 : c6 = Append(c5, <<>>)
  OBVIOUS
<1>36. /\ Adds(code, c0, more, {cur}, {<<cur, x>>, <<cur, y>>}) /\ Len(c0) = n
  <2>1. /\ code \in CodeSeqs /\ Linked(code, more) /\ Stands(code, more, cur, Spot(x)) /\ Right(x, more)
        /\ Spot(y) = Then(x) /\ Right(y, more) /\ x \in AnyInstr /\ y \in AnyInstr
    BY <1>4, <1>9, <1>19, <1>20
  <2>2. Adds(code, c0, more, {cur}, {<<cur, x>>, <<cur, y>>}) /\ Len(c0) = Len(code)
    BY ONLY <1>29, <2>1, PutTwo
  <2> QED
    BY <1>1, <2>2
<1>37. Adds(c0, c1, more, {}, {<<m1, w1>>}) /\ Len(c1) = m1
  <2>1. c0 \in CodeSeqs /\ Linked(c0, more) /\ m1 = Len(c0) + 1
    BY <1>10, <1>36 DEF Adds
  <2>2. w1 \in AnyInstr /\ Starts(more, m1, Spot(w1)) /\ Right(w1, more)
    BY <1>16, <1>22
  <2> QED
    BY ONLY <1>30, <2>1, <2>2, PutTest
<1>38. Adds(c1, c2, more, {}, {<<m2, w2>>}) /\ Len(c2) = m2
  <2>1. c1 \in CodeSeqs /\ Linked(c1, more) /\ m2 = Len(c1) + 1
    BY <1>11, <1>37 DEF Adds
  <2>2. w2 \in AnyInstr /\ Starts(more, m2, Spot(w2)) /\ Right(w2, more)
    BY <1>16, <1>24
  <2> QED
    BY ONLY <1>31, <2>1, <2>2, PutTest
<1>39. Adds(c2, c3, more, {}, {<<m3, w3>>}) /\ Len(c3) = m3
  <2>1. c2 \in CodeSeqs /\ Linked(c2, more) /\ m3 = Len(c2) + 1
    BY <1>12, <1>38 DEF Adds
  <2>2. w3 \in AnyInstr /\ Starts(more, m3, Spot(w3)) /\ Right(w3, more)
    BY <1>16, <1>26
  <2> QED
    BY ONLY <1>32, <2>1, <2>2, PutTest
<1>40. Adds(c3, c4, more, {}, {<<m4, w4>>}) /\ Len(c4) = m4
  <2>1. c3 \in CodeSeqs /\ Linked(c3, more) /\ m4 = Len(c3) + 1
    BY <1>13, <1>39 DEF Adds
  <2>2. w4 \in AnyInstr /\ Starts(more, m4, Spot(w4)) /\ Right(w4, more)
    BY <1>16, <1>28
  <2> QED
    BY ONLY <1>33, <2>1, <2>2, PutTest
<1>41. Adds(c4, c5, more, {}, {}) /\ Len(c5) = m5 /\ Stands(c5, more, m5, Stmt(pos + 1))
  <2>1. PICK spot : spot = Stmt(pos + 1)
    OBVIOUS
  <2>2. c4 \in CodeSeqs /\ Linked(c4, more) /\ m5 = Len(c4) + 1 /\ Starts(more, m5, spot)
    BY <1>14, <1>16, <1>40, <2>1 DEF Adds
  <2>3. Adds(c4, c5, more, {}, {}) /\ Len(c5) = m5 /\ Stands(c5, more, m5, spot)
    BY ONLY <1>34, <2>2, PutBlock
  <2> QED
    BY <2>1, <2>3
<1>42. Adds(c5, c6, more, {}, {}) /\ Len(c6) = m6 /\ Stands(c6, more, m6, done)
  <2>1. PICK spot : spot = done
    OBVIOUS
  <2>2. c5 \in CodeSeqs /\ Linked(c5, more) /\ m6 = Len(c5) + 1 /\ Starts(more, m6, spot)
    BY <1>15, <1>16, <1>41, <2>1 DEF Adds
  <2>3. Adds(c5, c6, more, {}, {}) /\ Len(c6) = m6 /\ Stands(c6, more, m6, spot)
    BY ONLY <1>35, <2>2, PutBlock
  <2> QED
    BY <2>1, <2>3
<1>43. PICK es : es = {<<cur, x>>, <<cur, y>>} \cup {<<m1, w1>>} \cup {<<m2, w2>>} \cup {<<m3, w3>>} \cup {<<m4, w4>>}
  OBVIOUS
<1>44. Adds(code, c6, more, {cur}, es)
  <2>1. Adds(code, c1, more, {cur} \cup {}, {<<cur, x>>, <<cur, y>>} \cup {<<m1, w1>>})
    BY ONLY <1>36, <1>37, PutOn
  <2>2. Adds(code, c2, more, {cur} \cup {} \cup {}, {<<cur, x>>, <<cur, y>>} \cup {<<m1, w1>>} \cup {<<m2, w2>>})
    BY ONLY <1>38, <2>1, PutOn
  <2>3. Adds(code, c3, more, {cur} \cup {} \cup {} \cup {},
             {<<cur, x>>, <<cur, y>>} \cup {<<m1, w1>>} \cup {<<m2, w2>>} \cup {<<m3, w3>>})
    BY ONLY <1>39, <2>2, PutOn
  <2>4. Adds(code, c4, more, {cur} \cup {} \cup {} \cup {} \cup {}, es)
    BY ONLY <1>40, <1>43, <2>3, PutOn
  <2>5. Adds(code, c4, more, {cur}, es)
    BY <2>4
  <2>6. Adds(code, c5, more, {cur} \cup {}, es \cup {})
    BY ONLY <1>41, <2>5, PutOn
  <2>7. Adds(code, c5, more, {cur}, es)
    BY <2>6
  <2>8. Adds(code, c6, more, {cur} \cup {}, es \cup {})
    BY ONLY <1>42, <2>7, PutOn
  <2> QED
    BY <2>8
<1>45. code' = c6
  <2>1. code' = c0 \o <<<<w1>>, <<w2>>, <<w3>>, <<w4>>, <<>>, <<>>>>
    <3>1. Here = Stmt(pos)
      BY DEF Here
    <3> QED
      BY <1>1, <1>5, <1>7, <1>10, <1>11, <1>12, <1>13, <1>14, <1>15, <1>17, <1>20,
         <1>21, <1>23, <1>25, <1>27, <1>29, <3>1 DEF GenFor
  <2>2. c0 \in Seq(Seq(AnyInstr)) /\ <<>> \in Seq(AnyInstr)
    BY <1>36 DEF Adds, CodeSeqs
  <2>3. <<w1>> \in Seq(AnyInstr) /\ <<w2>> \in Seq(AnyInstr) /\ <<w3>> \in Seq(AnyInstr) /\ <<w4>> \in Seq(AnyInstr)
    BY <1>22, <1>24, <1>26, <1>28, OneInstr
  <2>4. c0 \o <<<<w1>>, <<w2>>, <<w3>>, <<w4>>, <<>>, <<>>>> =
          Append(Append(Append(Append(Append(Append(c0, <<w1>>), <<w2>>), <<w3>>), <<w4>>), <<>>), <<>>)
    <3>1. PICK a1 : a1 = <<w1>>
      OBVIOUS
    <3>2. PICK a2 : a2 = <<w2>>
      OBVIOUS
    <3>3. PICK a3 : a3 = <<w3>>
      OBVIOUS
    <3>4. PICK a4 : a4 = <<w4>>
      OBVIOUS
    <3>5. PICK none : none = <<>> /\ none \in Seq(AnyInstr)
      BY <2>2
    <3>6. PICK S : S = Seq(AnyInstr)
      OBVIOUS
    <3>7. c0 \in Seq(S) /\ a1 \in S /\ a2 \in S /\ a3 \in S /\ a4 \in S /\ none \in S
      BY ONLY <2>2, <2>3, <3>1, <3>2, <3>3, <3>4, <3>5, <3>6, Zenon
    <3>8. c0 \o <<a1, a2, a3, a4, none, none>> =
            Append(Append(Append(Append(Append(Append(c0, a1), a2), a3), a4), none), none)
      BY ONLY SMTT(30), <3>7, SixBlocks
    <3> QED
      BY ONLY <3>1, <3>2, <3>3, <3>4, <3>5, <3>8, Zenon
  <2> QED
    BY ONLY <1>30, <1>31, <1>32, <1>33, <1>34, <1>35, <2>1, <2>4, Zenon
<1>46. PICK after : after = code'
  OBVIOUS
<1>47. Adds(code, after, more, {cur}, es) /\ Len(after) = m6 /\ Stands(after, more, m6, done)
  BY <1>42, <1>44, <1>45, <1>46
<1>48. Stands(after, more, m5, Stmt(pos + 1))
  <2>1. \A c, spot : c \notin {} /\ Stands(c5, more, c, spot) => Stands(c6, more, c, spot)
    BY <1>42, StandsOn
  <2> QED
    BY <1>41, <1>45, <1>46, <2>1
<1>49. g \in Frames /\ FrameWaits(g, after, more)
  <2>1. cur \in Nat
    BY <1>4
  <2>2. /\ g.kind = "for" /\ g.at = pos /\ g.first = m1 /\ g.second = m6
        /\ g \in Frames
    BY <1>2, <1>4, <1>10, <1>15, <2>1 DEF Frame, Frames
  <2> QED
    BY <1>6, <1>7, <1>16, <1>47, <2>2 DEF FrameWaits
<1>50. FramesWait(frames', code', more)
  <2>1. FramesWait(frames, after, more)
    <3>1. \A c \in {cur} : ~HeldByFrames(frames, c)
      BY <1>4
    <3> QED
      BY <1>9, <1>47, <3>1, FramesKept DEF Adds
  <2> QED
    BY <1>3, <1>4, <1>46, <1>49, <2>1, FramesPush
<1>51. inserted \subseteq inserted' /\ LabelsWait(labelBlocks', inserted', code', more)
  <2>1. inserted \subseteq inserted' /\ {cur} \subseteq inserted
    BY <1>3, <1>4
  <2> QED
    BY <1>3, <1>9, <1>46, <1>47, <2>1, LabelsKept DEF Adds
<1>52. ExitsLead(loopExit', more)
  <2>1. Outside(l) = done
    BY <1>4, <1>5, <1>6, LoopPosIs DEF Outside
  <2>2. loopExit \in [Loops -> Nat]
    <3>1. loopExit \in [Loops -> inserted \cup {0}] /\ inserted \subseteq 1 .. n
      BY <1>1, CodeType DEF Building, TypeOK
    <3>2. PICK S : S = inserted \cup {0}
      OBVIOUS
    <3>3. S \subseteq Nat /\ loopExit \in [Loops -> S]
      BY <3>1, <3>2
    <3> QED
      BY ONLY <3>3
  <2>3. loopExit' = [loopExit EXCEPT ![l] = m6]
    BY <1>3, <1>5, <1>15
  <2> QED
    BY <1>9, <1>16, <2>1, <2>2, <2>3, ExitAdded
<1>53. Knows(es, returnPoints', dests')
  <2>1. /\ Knows({<<cur, x>>}, returnPoints', dests') /\ Knows({<<cur, y>>}, returnPoints', dests')
        /\ Knows({<<m1, w1>>}, returnPoints', dests') /\ Knows({<<m2, w2>>}, returnPoints', dests')
        /\ Knows({<<m3, w3>>}, returnPoints', dests') /\ Knows({<<m4, w4>>}, returnPoints', dests')
    BY <1>19, <1>20, <1>22, <1>24, <1>26, <1>28
  <2>2. \A e \in es : e \in {<<cur, x>>} \/ e \in {<<cur, y>>} \/ e \in {<<m1, w1>>} \/ e \in {<<m2, w2>>}
          \/ e \in {<<m3, w3>>} \/ e \in {<<m4, w4>>}
    BY <1>43
  <2> QED
    BY ONLY <2>1, <2>2 DEF Knows
<1> QED
  BY <1>3, <1>8, <1>14, <1>15, <1>46, <1>47, <1>48, <1>50, <1>51, <1>52, <1>53, StepTraced DEF Building

\* The waiting blocks wait as they did when others get a start.
LEMMA WaitsGrow ==
  ASSUME NEW blocks, NEW start, NEW more, Extends(start, more), Linked(blocks, start)
  PROVE  /\ Linked(blocks, more)
         /\ \A b, spot : Stands(blocks, start, b, spot) => Stands(blocks, more, b, spot)
         /\ \A b, spot : Starts(start, b, spot) => Starts(more, b, spot)
         /\ \A fs : FramesWait(fs, blocks, start) => FramesWait(fs, blocks, more)
         /\ \A table, ins : LabelsWait(table, ins, blocks, start) => LabelsWait(table, ins, blocks, more)
         /\ \A exits : ExitsLead(exits, start) => ExitsLead(exits, more)
<1>1. Linked(blocks, more) /\ \A T : Keeps(blocks, start, blocks, more, T)
  BY LinkedGrows
<1>2. \A b, spot : Stands(blocks, start, b, spot) => Stands(blocks, more, b, spot)
  <2>1. Keeps(blocks, start, blocks, more, {})
    BY <1>1
  <2> QED
    BY <2>1 DEF Keeps
<1>3. \A b, spot : Starts(start, b, spot) => Starts(more, b, spot)
  BY StartsGrow
<1>4. \A fs : FramesWait(fs, blocks, start) => FramesWait(fs, blocks, more)
  BY <1>2, <1>3 DEF FramesWait, FrameWaits
<1>5. \A table, ins : LabelsWait(table, ins, blocks, start) => LabelsWait(table, ins, blocks, more)
  BY <1>2, <1>3 DEF LabelsWait, LabelWaits
<1> QED
  BY <1>1, <1>2, <1>3, <1>4, <1>5 DEF ExitsLead

\* The block of a label begins behind it, be it new or not.
LabelGrown(start, more, w, b, table, l) ==
  /\ DOMAIN more = 1 .. Len(w) /\ Extends(start, more) /\ Whole(more)
  /\ Starts(more, b, Behind(l))
  /\ Adds(code, w, more, {}, {})
  /\ Stands(w, more, cur, Stmt(pos))
  /\ FramesWait(frames, w, more)
  /\ LabelsWait(table, inserted, w, more)
  /\ ExitsLead(loopExit, more)

LEMMA LabelIsGrown ==
  ASSUME Building, status = "generate", NEW start, Traced(start), NEW l \in Labels
  PROVE  \E more : LabelGrown(start, more, WithLabelBlock(l), LabelBlock(l), LabelTable(l), l)
<1>1. PICK n \in Nat : n = Len(code)
  BY CodeType DEF Building
<1>2. /\ code \in CodeSeqs /\ DOMAIN start = 1 .. n /\ Whole(start) /\ labelBlocks \in [Labels -> Nat] /\ cur \in 1 .. n
      /\ Linked(code, start) /\ Stands(code, start, cur, Stmt(pos)) /\ FramesWait(frames, code, start)
      /\ LabelsWait(labelBlocks, inserted, code, start) /\ ExitsLead(loopExit, start)
      /\ inserted \subseteq 1 .. n
  BY <1>1, Standing, CodeType DEF Building, Traced
<1>3. CASE labelBlocks[l] # 0
  <2>1. LabelBlock(l) = labelBlocks[l] /\ WithLabelBlock(l) = code
    BY <1>3 DEF LabelBlock, WithLabelBlock
  <2>2. LabelTable(l) = labelBlocks
    BY <1>2, <2>1 DEF LabelTable
  <2>3. Starts(start, labelBlocks[l], Behind(l))
    BY <1>2, <1>3 DEF LabelsWait, LabelWaits
  <2>4. Extends(start, start)
    BY DEF Extends
  <2>5. Adds(code, code, start, {}, {})
    BY <1>2 DEF Adds, Keeps
  <2>6. LabelGrown(start, start, code, labelBlocks[l], labelBlocks, l)
    BY <1>1, <1>2, <2>3, <2>4, <2>5 DEF LabelGrown
  <2> QED
    BY <2>1, <2>2, <2>6
<1>4. CASE labelBlocks[l] = 0
  <2>1. PICK m \in Nat : m = n + 1
    OBVIOUS
  <2>2. LabelBlock(l) = m /\ WithLabelBlock(l) = Append(code, <<>>)
    BY <1>1, <1>4, <2>1 DEF LabelBlock, WithLabelBlock
  <2>3. PICK spot : spot = Behind(l)
    OBVIOUS
  <2>4. spot[2] # "pushed"
    BY <2>3 DEF Behind, Stmt
  <2>5. PICK more : DOMAIN more = 1 .. m /\ Extends(start, more) /\ Whole(more) /\ Starts(more, m, spot)
    BY <1>2, <2>1, <2>4, GrowOne
  <2>6. /\ Linked(code, more) /\ Stands(code, more, cur, Stmt(pos)) /\ FramesWait(frames, code, more)
        /\ LabelsWait(labelBlocks, inserted, code, more) /\ ExitsLead(loopExit, more)
    BY <1>2, <2>5, WaitsGrow
  <2>7. PICK w : w = Append(code, <<>>)
    OBVIOUS
  <2>8. Adds(code, w, more, {}, {}) /\ Len(w) = m /\ Stands(w, more, m, spot)
    <3>1. code \in CodeSeqs /\ Linked(code, more) /\ m = Len(code) + 1 /\ Starts(more, m, spot)
      BY <1>1, <1>2, <2>1, <2>5, <2>6
    <3> QED
      BY ONLY <2>7, <3>1, PutBlock
  <2>9. Stands(w, more, cur, Stmt(pos))
    <3>1. \A c, s : c \notin {} /\ Stands(code, more, c, s) => Stands(w, more, c, s)
      BY <2>8, StandsOn
    <3> QED
      BY <2>6, <3>1
  <2>10. FramesWait(frames, w, more)
    <3>1. Keeps(code, more, w, more, {}) /\ \A c \in {} : ~HeldByFrames(frames, c)
      BY <2>8 DEF Adds
    <3> QED
      BY <2>6, <3>1, FramesKept
  <2>11. LabelsWait(labelBlocks, inserted, w, more)
    <3>1. Keeps(code, more, w, more, {}) /\ {} \subseteq inserted /\ inserted \subseteq inserted
      BY <2>8 DEF Adds
    <3> QED
      BY ONLY <2>6, <3>1, LabelsKept
  <2>12. PICK table : table = LabelTable(l)
    OBVIOUS
  <2>13. table = [labelBlocks EXCEPT ![l] = m]
    BY <2>2, <2>12 DEF LabelTable
  <2>14. LabelsWait(table, inserted, w, more)
    <3>1. ASSUME NEW k \in Labels
          PROVE  LabelWaits(table[k], k, inserted, w, more)
      <4>1. CASE k = l
        <5>1. table[k] = m
          BY <1>2, <2>13, <4>1
        <5> QED
          BY <2>3, <2>5, <2>8, <4>1, <5>1 DEF LabelWaits
      <4>2. CASE k # l
        <5>1. table[k] = labelBlocks[k]
          BY <1>2, <2>13, <4>2
        <5> QED
          BY <2>11, <5>1 DEF LabelsWait
      <4> QED
        BY <4>1, <4>2
    <3> QED
      BY <3>1 DEF LabelsWait
  <2>15. LabelGrown(start, more, w, m, table, l)
    BY <2>3, <2>5, <2>6, <2>8, <2>9, <2>10, <2>14 DEF LabelGrown
  <2> QED
    BY <2>2, <2>7, <2>12, <2>15
<1> QED
  BY <1>3, <1>4

\* What a jump puts on the builder's block: it leads to the label, and a gosub
\* pushes the block that goes on.
JumpPuts(w, mid, b, l, m, es) ==
  \A more : Linked(w, more) /\ Stands(w, more, cur, Stmt(pos)) /\ Starts(more, b, Behind(l))
              /\ Starts(more, m, Stmt(pos + 1))
            => Adds(w, mid, more, {cur}, es) /\ Len(mid) = Len(w)

LEMMA JumpTraced ==
  ASSUME Building, status = "generate", NEW start, Traced(start), Advance, frames' = frames,
         loopExit' = loopExit, NEW l \in Labels, NEW mid, NEW es,
         NEW m \in Nat, m = Len(WithLabelBlock(l)) + 1,
         JumpPuts(WithLabelBlock(l), mid, LabelBlock(l), l, m, es), code' = Append(mid, <<>>),
         labelBlocks' = LabelTable(l), inserted' = inserted \cup {m}, cur' = m,
         Knows(es, returnPoints', dests'), returnPoints \subseteq returnPoints',
         DOMAIN dests \subseteq DOMAIN dests'
  PROVE  \E more : Traced(more)'
<1>1. PICK w : w = WithLabelBlock(l)
  OBVIOUS
<1>2. PICK b : b = LabelBlock(l)
  OBVIOUS
<1>3. PICK table : table = LabelTable(l)
  OBVIOUS
<1>4. PICK less : LabelGrown(start, less, w, b, table, l)
  BY <1>1, <1>2, <1>3, LabelIsGrown
<1>5. PICK k \in Nat : k = Len(w)
  BY <1>1, LabelEffect DEF Building
<1>6. m = k + 1 /\ cur \in inserted /\ ~HeldByFrames(frames, cur) /\ pos \in Nat
  BY <1>1, <1>5, Standing
<1>7. /\ DOMAIN less = 1 .. k /\ Extends(start, less) /\ Whole(less)
      /\ Adds(code, w, less, {}, {}) /\ Linked(w, less) /\ w \in CodeSeqs
  BY <1>4, <1>5 DEF LabelGrown, Adds
<1>8. PICK spot : spot = Stmt(pos + 1)
  OBVIOUS
<1>9. PICK more : DOMAIN more = 1 .. m /\ Extends(less, more) /\ Whole(more) /\ Starts(more, m, spot)
  <2>1. spot[2] # "pushed"
    BY <1>8 DEF Stmt
  <2> QED
    BY <1>6, <1>7, <2>1, GrowOne
<1>10. Extends(start, more)
  BY <1>7, <1>9 DEF Extends
<1>11. /\ Linked(w, more) /\ Stands(w, more, cur, Stmt(pos)) /\ FramesWait(frames, w, more)
       /\ LabelsWait(table, inserted, w, more) /\ ExitsLead(loopExit, more) /\ Starts(more, b, Behind(l))
  BY <1>4, <1>7, <1>9, WaitsGrow DEF LabelGrown
<1>12. Adds(code, w, more, {}, {})
  <2>1. \A T : Keeps(code, start, code, more, T)
    BY <1>10, LinkedGrows DEF Traced
  <2>2. Linked(code, more) /\ Linked(code, less)
    BY <1>7, <1>10, LinkedGrows DEF Traced
  <2>3. \A c \in 1 .. Len(code) : more[c] = less[c]
    BY <1>9, <2>2 DEF Linked, Extends
  <2>4. \A c, s : Stands(code, more, c, s) => Stands(code, less, c, s)
    BY <2>3 DEF Stands
  <2>5. \A c, s : Stands(code, less, c, s) => Stands(w, less, c, s)
    BY <1>7 DEF Adds, Keeps
  <2>6. \A c, s : Stands(w, less, c, s) => Stands(w, more, c, s)
    BY <1>7, <1>9, WaitsGrow
  <2>7. Keeps(code, more, w, more, {})
    BY <2>4, <2>5, <2>6 DEF Keeps
  <2> QED
    BY <1>7, <1>11, <2>7 DEF Adds
<1>13. Adds(w, mid, more, {cur}, es) /\ Len(mid) = k
  BY <1>1, <1>2, <1>5, <1>8, <1>9, <1>11 DEF JumpPuts
<1>14. PICK after : after = code'
  OBVIOUS
<1>15. Adds(mid, after, more, {}, {}) /\ Len(after) = m /\ Stands(after, more, m, spot)
  <2>1. mid \in CodeSeqs /\ Linked(mid, more) /\ m = Len(mid) + 1 /\ Starts(more, m, spot) /\ after = Append(mid, <<>>)
    BY <1>6, <1>9, <1>13, <1>14 DEF Adds
  <2> QED
    BY ONLY <2>1, PutBlock
<1>16. Adds(w, after, more, {cur}, es)
  <2>1. Adds(w, after, more, {cur} \cup {}, es \cup {})
    BY ONLY <1>13, <1>15, PutOn
  <2> QED
    BY <2>1
<1>17. Adds(code, after, more, {cur}, es)
  <2>1. Adds(code, after, more, {} \cup {cur}, {} \cup es)
    BY ONLY <1>12, <1>16, PutOn
  <2> QED
    BY <2>1
<1>18. Keeps(w, more, after, more, {cur})
  BY <1>16 DEF Adds
<1>19. FramesWait(frames', code', more)
  <2>1. \A c \in {cur} : ~HeldByFrames(frames, c)
    BY <1>6
  <2>2. FramesWait(frames, after, more)
    BY <1>11, <1>18, <2>1, FramesKept
  <2> QED
    BY <1>14, <2>2
<1>20. inserted \subseteq inserted' /\ LabelsWait(labelBlocks', inserted', code', more)
  <2>1. PICK ins : ins = inserted'
    OBVIOUS
  <2>2. inserted \subseteq ins /\ {cur} \subseteq inserted
    BY <1>6, <2>1
  <2>3. LabelsWait(table, ins, after, more)
    BY <1>11, <1>18, <2>2, LabelsKept
  <2> QED
    BY <1>3, <1>14, <2>1, <2>2, <2>3
<1> QED
  BY <1>8, <1>9, <1>10, <1>11, <1>14, <1>15, <1>17, <1>19, <1>20, StepTraced DEF Building

LEMMA GotoTraced ==
  ASSUME Building, GenGoto, NEW start, Traced(start)
  PROVE  \E more : Traced(more)'
<1>1. /\ status = "generate" /\ pos \in DOMAIN body /\ body[pos].op = "goto" /\ pos \in Nat /\ Advance
      /\ frames' = frames /\ UNCHANGED <<loopExit, returnPoints, dests>>
      /\ Arg \in Labels /\ Arg = body[pos].arg /\ Here = Stmt(pos)
  BY AtType, Standing DEF Building, GenGoto, AtOp, Here, HasLabel, Arg
<1>2. PICK l \in Labels : l = Arg
  BY <1>1
<1>3. PICK w : w = WithLabelBlock(l)
  OBVIOUS
<1>4. PICK b \in Nat : b = LabelBlock(l)
  BY LabelEffect DEF Building
<1>5. PICK m \in Nat : m = Len(w) + 1
  <2>1. Len(w) \in Nat
    BY <1>3, LabelEffect DEF Building
  <2> QED
    BY <2>1
<1>6. PICK x : x = Instr("br", <<b>>, Stmt(pos))
  OBVIOUS
<1>7. /\ x \in AnyInstr /\ <<x>> = Br(b, Stmt(pos)) /\ Spot(x) = Stmt(pos)
      /\ \A more, spot : BrGoes(pos, spot) /\ Starts(more, b, spot) => Right(x, more)
      /\ Knows({<<cur, x>>}, returnPoints', dests')
  BY <1>1, <1>6, BrIs
<1>8. BrGoes(pos, Behind(l))
  BY <1>1, <1>2 DEF BrGoes, Behind
<1>9. PICK mid : mid = Emit(w, cur, <<x>>)
  OBVIOUS
<1>10. JumpPuts(w, mid, b, l, m, {<<cur, x>>})
  <2>1. ASSUME NEW more, Linked(w, more), Stands(w, more, cur, Stmt(pos)), Starts(more, b, Behind(l))
        PROVE  Adds(w, mid, more, {cur}, {<<cur, x>>}) /\ Len(mid) = Len(w)
    <3>1. w \in CodeSeqs /\ Right(x, more)
      BY <1>3, <1>7, <1>8, <2>1, LabelEffect DEF Building
    <3> QED
      BY <1>7, <1>9, <2>1, <3>1, PutOne
  <2> QED
    BY <2>1 DEF JumpPuts
<1>11. /\ code' = Append(mid, <<>>) /\ labelBlocks' = LabelTable(l)
       /\ inserted' = inserted \cup {m} /\ cur' = m
  BY <1>1, <1>2, <1>3, <1>4, <1>5, <1>7, <1>9 DEF GenGoto
<1> QED
  BY <1>1, <1>3, <1>4, <1>5, <1>7, <1>10, <1>11, JumpTraced

LEMMA PushIs ==
  ASSUME NEW i \in Nat, i \in DOMAIN body, body[i].op = "gosub", NEW m \in Nat,
         NEW x, x = Instr("push", <<m>>, Stmt(i))
  PROVE  /\ x \in AnyInstr /\ x.op = "push" /\ x.to[1] = m /\ Spot(x) = Stmt(i) /\ Then(x) = <<i, "pushed">>
         /\ \A start : Starts(start, m, Stmt(i + 1)) => Right(x, start)
<1>1. x.op = "push" /\ x.to = <<m>> /\ x.at = Stmt(i) /\ x.at[1] = i /\ DOMAIN x.to = {1} /\ x.to[1] = m
  BY DEF Instr, Stmt
<1>2. x \in AnyInstr
  <2>1. "push" \in InstrOps /\ <<m>> \in Seq(Nat) /\ Stmt(i) \in Points
    BY DEF InstrOps, Terminators, Stmt, Points
  <2> QED
    BY <2>1, InstrIsAny
<1>3. ASSUME NEW start, Starts(start, m, Stmt(i + 1))
      PROVE  Right(x, start)
  <2>1. To1(x, start, Stmt(x.at[1] + 1)) /\ OfStmt(x, "gosub")
    BY <1>1, <1>3 DEF To1, OfStmt
  <2> QED
    BY <1>1, <2>1 DEF Right, Returns
<1> QED
  BY <1>1, <1>2, <1>3 DEF Spot, Then

LEMMA GosubTraced ==
  ASSUME Building, GenGosub, NEW start, Traced(start)
  PROVE  \E more : Traced(more)'
<1>1. /\ status = "generate" /\ pos \in DOMAIN body /\ body[pos].op = "gosub" /\ pos \in Nat /\ Advance
      /\ frames' = frames /\ loopExit' = loopExit
      /\ Arg \in Labels /\ Arg = body[pos].arg /\ Here = Stmt(pos)
  BY AtType, Standing DEF Building, GenGosub, AtOp, Here, HasLabel, Arg
<1>2. PICK l \in Labels : l = Arg
  BY <1>1
<1>3. PICK w : w = WithLabelBlock(l)
  OBVIOUS
<1>4. PICK b \in Nat : b = LabelBlock(l)
  BY LabelEffect DEF Building
<1>5. PICK m \in Nat : m = Len(w) + 1
  <2>1. Len(w) \in Nat
    BY <1>3, LabelEffect DEF Building
  <2> QED
    BY <2>1
<1>6. PICK y : y = Instr("br", <<b>>, Stmt(pos))
  OBVIOUS
<1>7. PICK x : x = Instr("push", <<m>>, Stmt(pos))
  OBVIOUS
<1>8. /\ y \in AnyInstr /\ <<y>> = Br(b, Stmt(pos)) /\ Spot(y) = <<pos, "pushed">>
      /\ \A more, spot : BrGoes(pos, spot) /\ Starts(more, b, spot) => Right(y, more)
      /\ Knows({<<cur, y>>}, returnPoints', dests')
  BY <1>1, <1>6, BrIs
<1>9. /\ x \in AnyInstr /\ x.op = "push" /\ x.to[1] = m /\ Spot(x) = Stmt(pos) /\ Then(x) = <<pos, "pushed">>
      /\ \A more : Starts(more, m, Stmt(pos + 1)) => Right(x, more)
  BY <1>1, <1>7, PushIs
<1>10. BrGoes(pos, Behind(l))
  BY <1>1, <1>2 DEF BrGoes, Behind
<1>11. PICK mid : mid = Emit(w, cur, <<x>> \o <<y>>)
  OBVIOUS
<1>12. PICK es : es = {<<cur, x>>, <<cur, y>>}
  OBVIOUS
<1>13. JumpPuts(w, mid, b, l, m, es)
  <2>1. ASSUME NEW more, Linked(w, more), Stands(w, more, cur, Stmt(pos)), Starts(more, b, Behind(l)),
               Starts(more, m, Stmt(pos + 1))
        PROVE  Adds(w, mid, more, {cur}, es) /\ Len(mid) = Len(w)
    <3>1. /\ w \in CodeSeqs /\ Right(x, more) /\ Right(y, more) /\ Stands(w, more, cur, Spot(x))
          /\ Spot(y) = Then(x) /\ x \in AnyInstr /\ y \in AnyInstr
      BY <1>3, <1>8, <1>9, <1>10, <2>1, LabelEffect DEF Building
    <3>2. Adds(w, mid, more, {cur}, {<<cur, x>>, <<cur, y>>}) /\ Len(mid) = Len(w)
      BY ONLY <1>11, <2>1, <3>1, PutTwo
    <3> QED
      BY <1>12, <3>2
  <2> QED
    BY <2>1 DEF JumpPuts
<1>14. /\ code' = Append(mid, <<>>) /\ labelBlocks' = LabelTable(l)
       /\ inserted' = inserted \cup {m} /\ cur' = m /\ returnPoints' = returnPoints \cup {m}
  BY <1>1, <1>2, <1>3, <1>4, <1>5, <1>7, <1>8, <1>11 DEF GenGosub
<1>15. DOMAIN dests' = DOMAIN dests
  BY DEF GenGosub, AddReturnPoint
<1>16. Knows(es, returnPoints', dests')
  BY <1>8, <1>9, <1>12, <1>14 DEF Knows
<1> QED
  BY <1>1, <1>3, <1>4, <1>5, <1>13, <1>14, <1>15, <1>16, JumpTraced

LEMMA LabelTraced ==
  ASSUME Building, GenLabel, NEW start, Traced(start)
  PROVE  \E more : Traced(more)'
<1>1. /\ status = "generate" /\ pos \in DOMAIN body /\ body[pos].op = "label" /\ pos \in Nat /\ Advance
      /\ frames' = frames /\ UNCHANGED <<loopExit, returnPoints, dests>>
      /\ Arg \in Labels /\ Arg = body[pos].arg /\ Here = Stmt(pos) /\ body \in Bodies
  BY AtType, Standing, CodeType DEF Building, GenLabel, AtOp, Here, HasLabel, Arg
<1>2. PICK l \in Labels : l = Arg
  BY <1>1
<1>3. PICK w : w = WithLabelBlock(l)
  OBVIOUS
<1>4. PICK b \in Nat : b = LabelBlock(l)
  BY LabelEffect DEF Building
<1>5. PICK table : table = LabelTable(l)
  OBVIOUS
<1>6. PICK m \in Nat : m = Len(w)
  BY <1>3, LabelEffect DEF Building
<1>7. /\ w \in CodeSeqs /\ table[l] = b /\ b # 0 /\ b \in 1 .. m
      /\ (b \in inserted <=> labelBlocks[l] \in inserted)
  <2>1. /\ WithLabelBlock(l) \in CodeSeqs /\ LabelTable(l)[l] = LabelBlock(l)
        /\ LabelBlock(l) \in 1 .. Len(WithLabelBlock(l))
        /\ (LabelTable(l)[l] \in inserted <=> labelBlocks[l] \in inserted)
    BY LabelEffect DEF Building
  <2> QED
    BY <1>3, <1>4, <1>5, <1>6, <2>1
<1>8. b \notin inserted
  <2>1. ASSUME NEW i \in DOMAIN body, Met(i, {"label"}), body[i].arg = l
        PROVE  FALSE
    <3>1. i = pos
      BY <1>1, <1>2, <2>1, LabelsStandOnce DEF Met
    <3> QED
      BY <1>1, <2>1, <3>1 DEF Met
  <2>2. labelBlocks[l] \notin inserted
    BY <2>1 DEF Building, LabelsMet
  <2> QED
    BY <1>7, <2>2
<1>9. cur \in inserted /\ ~HeldByFrames(frames, cur) /\ b # cur
  BY <1>1, <1>8, Standing
<1>10. PICK more : LabelGrown(start, more, w, b, table, l)
  BY <1>1, <1>3, <1>4, <1>5, LabelIsGrown
<1>11. /\ DOMAIN more = 1 .. m /\ Extends(start, more) /\ Whole(more)
       /\ Adds(code, w, more, {}, {}) /\ Linked(w, more) /\ Stands(w, more, cur, Stmt(pos))
       /\ FramesWait(frames, w, more) /\ LabelsWait(table, inserted, w, more) /\ ExitsLead(loopExit, more)
       /\ Starts(more, b, Behind(l))
  BY <1>6, <1>10 DEF LabelGrown, Adds
<1>12. Behind(l) = Stmt(pos + 1)
  <2>1. Semantics!LabelPos(body[pos].arg) = pos
    BY <1>1, LabelPosIs
  <2> QED
    BY <1>1, <1>2, <2>1 DEF Behind
<1>13. Stands(w, more, b, Stmt(pos + 1))
  BY <1>7, <1>8, <1>11, <1>12 DEF LabelsWait, LabelWaits
<1>14. PICK x : x = Instr("br", <<b>>, Stmt(pos))
  OBVIOUS
<1>15. /\ x \in AnyInstr /\ <<x>> = Br(b, Stmt(pos)) /\ Spot(x) = Stmt(pos) /\ Right(x, more)
       /\ Knows({<<cur, x>>}, returnPoints', dests')
  <2>1. BrGoes(pos, Stmt(pos + 1))
    BY <1>1 DEF BrGoes
  <2> QED
    BY <1>1, <1>11, <1>12, <1>14, <2>1, BrIs
<1>16. PICK after : after = code'
  OBVIOUS
<1>17. after = Emit(w, cur, <<x>>) /\ labelBlocks' = table /\ inserted' = inserted \cup {b} /\ cur' = b
  BY <1>1, <1>2, <1>3, <1>4, <1>5, <1>15, <1>16 DEF GenLabel, InsertInto
<1>18. Adds(w, after, more, {cur}, {<<cur, x>>}) /\ Len(after) = m
  BY <1>6, <1>7, <1>11, <1>15, <1>17, PutOne
<1>19. Adds(code, after, more, {cur}, {<<cur, x>>})
  <2>1. Adds(code, after, more, {} \cup {cur}, {} \cup {<<cur, x>>})
    BY ONLY <1>11, <1>18, PutOn
  <2> QED
    BY <2>1
<1>20. Keeps(w, more, after, more, {cur})
  BY <1>18 DEF Adds
<1>21. FramesWait(frames', code', more)
  <2>1. \A c \in {cur} : ~HeldByFrames(frames, c)
    BY <1>9
  <2>2. FramesWait(frames, after, more)
    BY <1>11, <1>20, <2>1, FramesKept
  <2> QED
    BY <1>1, <1>16, <2>2
<1>22. inserted \subseteq inserted' /\ LabelsWait(labelBlocks', inserted', code', more)
  <2>1. PICK ins : ins = inserted'
    OBVIOUS
  <2>2. inserted \subseteq ins /\ {cur} \subseteq inserted
    BY <1>9, <1>17, <2>1
  <2>3. LabelsWait(table, ins, after, more)
    BY <1>11, <1>20, <2>2, LabelsKept
  <2> QED
    BY <1>16, <1>17, <2>1, <2>2, <2>3
<1>23. Stands(code', more, cur', Stmt(pos + 1))
  <2>1. \A c, s : c \notin {cur} /\ Stands(w, more, c, s) => Stands(after, more, c, s)
    BY <1>18, StandsOn
  <2>2. b \notin {cur}
    BY <1>9
  <2> QED
    BY <1>13, <1>16, <1>17, <2>1, <2>2
<1> QED
  BY <1>1, <1>11, <1>15, <1>16, <1>18, <1>19, <1>21, <1>22, <1>23, StepTraced DEF Building

\* The end of the function: the last block returns.
LEMMA FinishTraced ==
  ASSUME Building, GenFinish, NoExit, NEW start, Traced(start)
  PROVE  Traced(start)'
<1>1. /\ UNCHANGED <<body, pos, frames, inserted, cur, labelBlocks, loopExit, returnPoints, dests>>
      /\ status' = "verify" /\ status = "generate" /\ pos > Len(body) /\ frames = <<>>
  BY DEF GenFinish, symtab
<1>2. /\ code \in CodeSeqs /\ cur \in 1 .. Len(code) /\ cur \in inserted /\ pos \in Nat /\ Whole(start)
      /\ ~HeldByFrames(frames, cur) /\ Blocks = 1 .. Len(code) /\ DOMAIN start = 1 .. Len(code)
  BY <1>1, Standing DEF Blocks
<1>3. pos = Len(body) + 1
  <2>1. pos \in 1 .. Len(body) + 1 /\ Len(body) \in Nat
    BY CodeType DEF Building, TypeOK
  <2> QED
    BY <1>1, <2>1
<1>4. PICK x : x = Instr("ret", <<>>, Stmt(pos))
  OBVIOUS
<1>5. x \in AnyInstr /\ x.op = "ret" /\ x.at = Stmt(pos) /\ Spot(x) = Stmt(pos)
  BY <1>2, <1>4, PlainIs
<1>6. Right(x, start)
  BY <1>3, <1>5 DEF Right, Returns
<1>7. ~IsTerminated(code[cur])
  <2>1. EndsOnly(code) /\ Finished(code) = Blocks \ Open
    BY <1>1 DEF Building, Ended
  <2>2. cur \notin Finished(code)
    BY <2>1, CurIsOpen
  <2>3. Flat(code[cur])
    BY <1>2, <2>1, <2>2 DEF EndsOnly, Finished
  <2>4. code[cur] \in Seq(AnyInstr)
    BY <1>2 DEF CodeSeqs
  <2> QED
    BY <2>3, <2>4 DEF Flat, IsTerminated
<1>8. PICK after : after = code'
  OBVIOUS
<1>9. after = Emit(code, cur, <<x>>)
  BY <1>4, <1>7, <1>8 DEF GenFinish, Here
<1>10. /\ Linked(code, start) /\ Stands(code, start, cur, Stmt(pos)) /\ FramesWait(frames, code, start)
       /\ LabelsWait(labelBlocks, inserted, code, start) /\ ExitsLead(loopExit, start)
       /\ Starts(start, 1, Stmt(1)) /\ 1 \in inserted /\ Knows(Content(code), returnPoints, dests)
  BY <1>1 DEF Traced
<1>11. Adds(code, after, start, {cur}, {<<cur, x>>}) /\ Len(after) = Len(code)
  BY SMTT(30), <1>2, <1>5, <1>6, <1>9, <1>10, PutOne
<1>12. Linked(after, start) /\ Keeps(code, start, after, start, {cur}) /\ Content(after) = Content(code) \cup {<<cur, x>>}
  BY <1>11 DEF Adds
<1>13. FramesWait(frames, after, start)
  <2>1. \A c \in {cur} : ~HeldByFrames(frames, c)
    BY <1>2
  <2> QED
    BY <1>10, <1>12, <2>1, FramesKept
<1>14. LabelsWait(labelBlocks, inserted, after, start)
  <2>1. {cur} \subseteq inserted /\ inserted \subseteq inserted
    BY <1>2
  <2> QED
    BY <1>10, <1>12, <2>1, LabelsKept
<1>15. Knows(Content(after), returnPoints, dests)
  BY <1>5, <1>10, <1>12 DEF Knows
<1>16. /\ Linked(code, start)' /\ FramesWait(frames, code, start)'
       /\ LabelsWait(labelBlocks, inserted, code, start)' /\ ExitsLead(loopExit, start)'
  <2>1. Linked(code, start)'
    BY <1>1, <1>8, <1>12, SameRight
  <2>2. FramesWait(frames, code, start)' /\ LabelsWait(labelBlocks, inserted, code, start)' /\ ExitsLead(loopExit, start)'
    BY <1>1, <1>8, <1>10, <1>13, <1>14, SameWaits
  <2> QED
    BY <2>1, <2>2
<1>17. Knows(Content(code), returnPoints, dests)'
  <2>1. Content(code)' = Content(code')
    BY DEF Content
  <2> QED
    BY <1>1, <1>8, <1>15, <2>1 DEF Knows
<1>18. (DOMAIN start = 1 .. Len(code))' /\ Whole(start)' /\ Starts(start, 1, Stmt(1))' /\ (1 \in inserted)'
  BY <1>1, <1>2, <1>8, <1>10, <1>11 DEF Whole, Starts, Stmt
<1> QED
  BY <1>1, <1>16, <1>17, <1>18 DEF Traced

\* Nothing is generated.
LEMMA StaysTraced ==
  ASSUME UNCHANGED <<body, pos, frames, code, inserted, cur, labelBlocks, loopExit, returnPoints, dests>>,
         status' = "generate" => status = "generate", NEW start, Traced(start)
  PROVE  Traced(start)'
<1>1. Linked(code, start)'
  BY SameRight DEF Traced
<1>2. FramesWait(frames, code, start)' /\ LabelsWait(labelBlocks, inserted, code, start)' /\ ExitsLead(loopExit, start)'
  BY SameWaits DEF Traced
<1>3. (status = "generate" => Stands(code, start, cur, Stmt(pos)))'
  BY SameSpots DEF Traced, Stmt
<1>4. Knows(Content(code), returnPoints, dests)'
  BY DEF Traced, Knows, Content
<1>5. (DOMAIN start = 1 .. Len(code))' /\ Whole(start)' /\ Starts(start, 1, Stmt(1))' /\ (1 \in inserted)'
  BY DEF Traced, Whole, Starts, Stmt
<1> QED
  BY <1>1, <1>2, <1>3, <1>4, <1>5 DEF Traced

-----------------------------------------------------------------------------
\* The frames stay the open brackets.
LEMMA NestingKept ==
  ASSUME Building, status = "generate", Nested(frames, pos), GenNextStep, status' = "generate"
  PROVE  Nested(frames, pos)'
<1>1. /\ pos \in Int /\ body \in Seq(Items) /\ frames \in Seq(Frames)
  BY CodeType DEF Building
<1>2. ASSUME NEW op, AtOp(op), Advance
      PROVE  pos \in DOMAIN body /\ body[pos].op = op /\ body' = body /\ pos' = pos + 1
  BY <1>2, AtType DEF Building, AtOp, Advance
<1>3. ASSUME body' = body, pos' = pos + 1, NEW fs, fs = frames', Nested(fs, pos + 1)
      PROVE  Nested(frames, pos)'
  BY <1>3, SameNesting
<1>4. ASSUME NEW op, AtOp(op), Advance, frames' = frames, op \notin Openers \cup Closers \cup {"else"}
      PROVE  Nested(frames, pos)'
  <2>1. pos \in DOMAIN body /\ body[pos].op = op /\ body' = body /\ pos' = pos + 1
    BY <1>2, <1>4
  <2>2. Nested(frames, pos + 1)
    BY <1>1, <1>4, <2>1, NestedPlain
  <2> QED
    BY <1>3, <1>4, <2>1, <2>2
<1>5. ASSUME NEW op \in Openers, AtOp(op), Advance, NEW g, g \in Frames, g.at = pos, g.kind # "else", frames' = Append(frames, g)
      PROVE  Nested(frames, pos)'
  <2>1. pos \in DOMAIN body /\ body[pos].op = op /\ body' = body /\ pos' = pos + 1
    BY <1>2, <1>5
  <2>2. Nested(Append(frames, g), pos + 1)
    BY <1>1, <1>5, <2>1, NestedPush
  <2> QED
    BY <1>3, <1>5, <2>1, <2>2
<1>6. ASSUME NEW op \in Closers, AtOp(op), Advance, frames # <<>>, frames' = SubSeq(frames, 1, Len(frames) - 1)
      PROVE  Nested(frames, pos)'
  <2>1. pos \in DOMAIN body /\ body[pos].op = op /\ body' = body /\ pos' = pos + 1
    BY <1>2, <1>6
  <2>2. Nested(SubSeq(frames, 1, Len(frames) - 1), pos + 1)
    BY <1>1, <1>6, <2>1, NestedPop
  <2> QED
    BY <1>3, <1>6, <2>1, <2>2
<1>7. PICK n \in Nat : n = Len(code)
  BY CodeType DEF Building
<1>8. cur \in Nat /\ pos \in Nat
  BY CodeType DEF Building, TypeOK, Blocks
<1>9. CASE GenExec \/ GenLabel \/ GenGoto \/ GenGosub \/ GenReturn \/ GenExit \/ GenEnd \/ GenExitFunction
  <2>1. /\ "exec" \notin Openers \cup Closers \cup {"else"} /\ "label" \notin Openers \cup Closers \cup {"else"}
        /\ "goto" \notin Openers \cup Closers \cup {"else"} /\ "gosub" \notin Openers \cup Closers \cup {"else"}
        /\ "return" \notin Openers \cup Closers \cup {"else"} /\ "exit" \notin Openers \cup Closers \cup {"else"}
        /\ "end" \notin Openers \cup Closers \cup {"else"} /\ "exitfunction" \notin Openers \cup Closers \cup {"else"}
    BY DEF Openers, Closers
  <2>2. /\ GenExec => AtOp("exec") /\ Advance /\ frames' = frames
        /\ GenLabel => AtOp("label") /\ Advance /\ frames' = frames
        /\ GenGoto => AtOp("goto") /\ Advance /\ frames' = frames
        /\ GenGosub => AtOp("gosub") /\ Advance /\ frames' = frames
    BY DEF GenExec, GenLabel, GenGoto, GenGosub
  <2>3. /\ GenReturn => AtOp("return") /\ Advance /\ frames' = frames
        /\ GenExit => AtOp("exit") /\ Advance /\ frames' = frames
        /\ GenEnd => AtOp("end") /\ Advance /\ frames' = frames
        /\ GenExitFunction => AtOp("exitfunction") /\ Advance /\ frames' = frames
    BY DEF GenReturn, GenExit, GenEnd, GenExitFunction
  <2>4. CASE GenExec \/ GenLabel \/ GenGoto \/ GenGosub
    BY <1>4, <2>1, <2>2, <2>4
  <2>5. CASE GenReturn \/ GenExit \/ GenEnd \/ GenExitFunction
    BY <1>4, <2>1, <2>3, <2>5
  <2> QED
    BY <1>9, <2>4, <2>5
<1>10. CASE GenIf \/ GenLoop \/ GenFor
  <2>1. ASSUME NEW kind \in {"if", "loop", "for"}, NEW first \in Nat, NEW second \in Nat, NEW g, g = Frame(kind, first, second)
        PROVE  g \in Frames /\ g.at = pos /\ g.kind # "else"
    BY <1>8, <2>1 DEF Frame, Frames
  <2>2. CASE GenIf
    <3>1. PICK g : g = Frame("if", n + 1, 0)
      OBVIOUS
    <3>2. AtOp("if") /\ Advance /\ frames' = Append(frames, g)
      BY <1>7, <2>2, <3>1 DEF GenIf, Push
    <3>3. g \in Frames /\ g.at = pos /\ g.kind # "else"
      <4>1. n + 1 \in Nat /\ 0 \in Nat
        OBVIOUS
      <4> QED
        BY <2>1, <3>1, <4>1
    <3> QED
      BY <1>5, <3>2, <3>3 DEF Openers
  <2>3. CASE GenLoop
    <3>1. PICK g : g = Frame("loop", n + 1, n + 2)
      OBVIOUS
    <3>2. AtOp("loop") /\ Advance /\ frames' = Append(frames, g)
      BY <1>7, <2>3, <3>1 DEF GenLoop, Push
    <3>3. g \in Frames /\ g.at = pos /\ g.kind # "else"
      <4>1. n + 1 \in Nat /\ n + 2 \in Nat
        OBVIOUS
      <4> QED
        BY <2>1, <3>1, <4>1
    <3> QED
      BY <1>5, <3>2, <3>3 DEF Openers
  <2>4. CASE GenFor
    <3>1. PICK g : g = Frame("for", n + 1, n + 6)
      OBVIOUS
    <3>2. AtOp("for") /\ Advance /\ frames' = Append(frames, g)
      BY <1>7, <2>4, <3>1 DEF GenFor, Push
    <3>3. g \in Frames /\ g.at = pos /\ g.kind # "else"
      <4>1. n + 1 \in Nat /\ n + 6 \in Nat
        OBVIOUS
      <4> QED
        BY <2>1, <3>1, <4>1
    <3> QED
      BY <1>5, <3>2, <3>3 DEF Openers
  <2> QED
    BY <1>10, <2>2, <2>3, <2>4
<1>11. CASE GenEndif \/ GenEndloop \/ GenNext
  <2>1. /\ GenEndif => AtOp("endif") /\ Advance /\ frames # <<>> /\ frames' = SubSeq(frames, 1, Len(frames) - 1)
        /\ GenEndloop => AtOp("endloop") /\ Advance /\ frames # <<>> /\ frames' = SubSeq(frames, 1, Len(frames) - 1)
        /\ GenNext => AtOp("next") /\ Advance /\ frames # <<>> /\ frames' = SubSeq(frames, 1, Len(frames) - 1)
    BY DEF GenEndif, GenEndloop, GenNext, Pop, Closes
  <2>2. "endif" \in Closers /\ "endloop" \in Closers /\ "next" \in Closers
    BY DEF Closers
  <2> QED
    BY <1>6, <1>11, <2>1, <2>2
<1>12. CASE GenElse
  <2>1. PICK t : t = Top
    OBVIOUS
  <2>2. PICK g : g = [kind |-> "else", at |-> t.at, outer |-> t.outer, first |-> t.first,
                      second |-> n + 1, done |-> cur, mid |-> pos]
    OBVIOUS
  <2>3. AtOp("else") /\ Advance /\ frames # <<>> /\ t.kind = "if" /\ frames' = [frames EXCEPT ![Len(frames)] = g]
    BY <1>7, <1>12, <2>1, <2>2 DEF GenElse, Closes
  <2>4. pos \in DOMAIN body /\ body[pos].op = "else" /\ body' = body /\ pos' = pos + 1
    BY <1>2, <2>3
  <2>5. t \in Frames /\ t = frames[Len(frames)]
    BY <2>1, <2>3, TopIs
  <2>6. g \in Frames /\ g.kind = "else" /\ g.at = frames[Len(frames)].at /\ g.mid = pos
    BY <1>8, <2>2, <2>5 DEF Frames
  <2>7. Nested([frames EXCEPT ![Len(frames)] = g], pos + 1)
    <3>1. frames[Len(frames)].kind = "if"
      BY <2>3, <2>5
    <3> QED
      BY <1>1, <2>3, <2>4, <2>6, <3>1, NestedElse
  <2> QED
    BY <1>3, <2>3, <2>4, <2>7
<1>13. CASE GenCrash \/ GenFinish \/ Verify
  BY <1>13 DEF GenCrash, GenFinish, Verify
<1> QED
  BY <1>9, <1>10, <1>11, <1>12, <1>13 DEF GenNextStep

-----------------------------------------------------------------------------
\* The trace of the blocks goes on with every step of the generator.
LEMMA TraceKept ==
  ASSUME Building, Laid, NoExit, Balanced, NEW start, Traced(start), GenNextStep
  PROVE  \E more : Traced(more)'
<1>1. status = "generate" => Nested(frames, pos)
  BY DEF Laid
<1>2. CASE GenExec \/ GenLabel \/ GenGoto \/ GenGosub \/ GenReturn
  BY <1>2, ExecTraced, LabelTraced, GotoTraced, GosubTraced, ReturnTraced
<1>3. CASE GenExit \/ GenEnd
  BY <1>3, ExitTraced, EndTraced
<1>4. CASE GenExitFunction
  <2>1. AtOp("exitfunction")
    BY <1>4 DEF GenExitFunction
  <2>2. pos \in DOMAIN body /\ body[pos].op = "exitfunction"
    BY <2>1, AtType DEF Building, AtOp
  <2> QED
    BY <2>2 DEF NoExit
<1>5. CASE GenIf \/ GenElse \/ GenLoop \/ GenFor
  BY <1>5, IfTraced, ElseTraced, LoopTraced, ForTraced
<1>6. CASE GenEndif \/ GenEndloop \/ GenNext
  <2>1. status = "generate"
    BY <1>6 DEF GenEndif, GenEndloop, GenNext, AtOp
  <2> QED
    BY <1>1, <1>6, <2>1, EndifTraced, EndloopTraced, NextTraced
<1>7. CASE GenFinish
  BY <1>7, FinishTraced
<1>8. CASE GenCrash
  BY <1>8, StaysTraced DEF GenCrash, symtab
<1>9. CASE Verify
  BY <1>9, StaysTraced DEF Verify, symtab
<1> QED
  BY <1>2, <1>3, <1>4, <1>5, <1>6, <1>7, <1>8, <1>9 DEF GenNextStep

LEMMA LaidInit == ASSUME GenInit, TypeOK PROVE Laid
<1>1. PICK start : start = [b \in {1} |-> Stmt(1)]
  OBVIOUS
<1>2. PICK s : s = <<>>
  OBVIOUS
<1>3. /\ Len(code) = 1 /\ code[1] = s /\ DOMAIN s = {} /\ frames = <<>> /\ pos = 1
      /\ inserted = {1} /\ cur = 1 /\ status = "generate" /\ body \in Seq(Items)
      /\ labelBlocks = [l \in Labels |-> 0] /\ loopExit = [l \in Loops |-> 0]
  BY <1>2, CodeType DEF GenInit
<1>4. 1 .. Len(code) = {1} /\ DOMAIN start = {1} /\ start[1] = Stmt(1)
  BY <1>1, <1>3
<1>5. Linked(code, start) /\ Stands(code, start, cur, Stmt(pos))
  BY <1>2, <1>3, <1>4 DEF Linked, Chain, Stands, Leaves
<1>6. DOMAIN frames = {}
  BY <1>3
<1>7. Content(code) = {}
  BY ONLY <1>3, <1>4 DEF Content
<1>8. FramesWait(frames, code, start) /\ LabelsWait(labelBlocks, inserted, code, start) /\ ExitsLead(loopExit, start)
  BY <1>3, <1>6 DEF FramesWait, LabelsWait, LabelWaits, ExitsLead
<1>9. Traced(start)
  BY <1>3, <1>4, <1>5, <1>7, <1>8 DEF Traced, Whole, Starts, Stmt, Knows
<1>10. Nested(frames, pos)
  <2>1. \A i \in DOMAIN body : ~(i < 1)
    BY <1>3
  <2> QED
    BY <1>3, <1>6, <2>1 DEF Nested
<1> QED
  BY <1>3, <1>9, <1>10 DEF Laid

LEMMA LaidNext == ASSUME Building, Laid, [GenNextStep]_genVars PROVE Laid'
<1>1. CASE UNCHANGED genVars
  <2>1. /\ UNCHANGED <<body, pos, frames, code, inserted, cur, labelBlocks, loopExit, returnPoints, dests>>
        /\ UNCHANGED status
    BY <1>1 DEF genVars, symtab
  <2>2. Nested(frames, pos)' <=> Nested(frames, pos)
    BY <2>1, SameNesting
  <2>3. (Balanced' <=> Balanced) /\ (NoExit' <=> NoExit)
    BY <2>1, SameBrackets DEF NoExit
  <2>4. \A start : Traced(start) => Traced(start)'
    BY <2>1, StaysTraced
  <2> QED
    BY <2>1, <2>2, <2>3, <2>4 DEF Laid
<1>2. CASE GenNextStep
  <2>1. body' = body /\ status \in {"generate", "verify"} /\ status' \in {"generate", "verify", "accepted", "rejected", "crashed"}
    <3>1. CASE GenExec \/ GenLabel \/ GenGoto \/ GenGosub \/ GenReturn \/ GenCrash
      BY <3>1 DEF GenExec, GenLabel, GenGoto, GenGosub, GenReturn, GenCrash, AtOp, Advance
    <3>2. CASE GenIf \/ GenElse \/ GenEndif \/ GenLoop \/ GenEndloop \/ GenFor \/ GenNext
      BY <3>2 DEF GenIf, GenElse, GenEndif, GenLoop, GenEndloop, GenFor, GenNext, AtOp, Advance
    <3>3. CASE GenExit \/ GenEnd \/ GenExitFunction \/ GenFinish \/ Verify
      BY <3>3 DEF GenExit, GenEnd, GenExitFunction, GenFinish, Verify, AtOp, Advance
    <3> QED
      BY <1>2, <3>1, <3>2, <3>3 DEF GenNextStep
  <2>2. (Balanced' <=> Balanced) /\ (NoExit' <=> NoExit)
    BY <2>1, SameBrackets DEF NoExit
  <2>3. status' = "generate" => status = "generate"
    <3>1. status = "verify" => Verify
      BY <1>2 DEF GenNextStep, GenExec, GenLabel, GenGoto, GenGosub, GenReturn, GenCrash, GenIf, GenElse, GenEndif,
           GenLoop, GenEndloop, GenFor, GenNext, GenExit, GenEnd, GenExitFunction, GenFinish, AtOp
    <3>2. Verify => status' # "generate"
      BY DEF Verify
    <3> QED
      BY <2>1, <3>1, <3>2
  <2>4. status' = "generate" => Nested(frames, pos)'
    BY <1>2, <2>3, NestingKept DEF Laid
  <2>5. status' \in {"verify", "accepted", "rejected"} => Balanced'
    <3>1. CASE GenFinish
      <4>1. status = "generate" /\ pos > Len(body) /\ frames = <<>> /\ pos \in Int /\ body \in Seq(Items)
        BY <3>1, CodeType DEF GenFinish, Building
      <4>2. Nested(<<>>, pos)
        BY <4>1 DEF Laid
      <4> QED
        BY <2>2, <4>1, <4>2, NestedEnd
    <3>2. CASE Verify
      BY <2>2, <3>2 DEF Laid, Verify
    <3>3. CASE GenCrash
      BY <3>3 DEF GenCrash
    <3>4. CASE status' = "generate"
      BY <3>4
    <3>5. status' = "generate" \/ GenFinish \/ Verify \/ GenCrash
      <4>1. CASE GenExec \/ GenLabel \/ GenGoto \/ GenGosub \/ GenReturn
        BY <4>1 DEF GenExec, GenLabel, GenGoto, GenGosub, GenReturn, AtOp, Advance
      <4>2. CASE GenIf \/ GenElse \/ GenEndif \/ GenLoop \/ GenEndloop \/ GenFor \/ GenNext
        BY <4>2 DEF GenIf, GenElse, GenEndif, GenLoop, GenEndloop, GenFor, GenNext, AtOp, Advance
      <4>3. CASE GenExit \/ GenEnd \/ GenExitFunction
        BY <4>3 DEF GenExit, GenEnd, GenExitFunction, AtOp, Advance
      <4> QED
        BY <1>2, <4>1, <4>2, <4>3 DEF GenNextStep
    <3> QED
      BY <3>1, <3>2, <3>3, <3>4, <3>5
  <2>6. NoExit' /\ Balanced' => \E start : Traced(start)'
    BY <1>2, <2>2, TraceKept DEF Laid
  <2> QED
    BY <2>4, <2>5, <2>6 DEF Laid
<1> QED
  BY <1>1, <1>2

\* Every block begins at one point of the source, its instructions follow the
\* source from there, and it leads to blocks that begin where the source goes on.
THEOREM CodeIsLaid == GenSpec => []Laid
<1>1. GenInit /\ TypeOK => Laid
  BY LaidInit
<1>2. Building /\ Laid /\ [GenNextStep]_genVars => Laid'
  BY LaidNext
<1> QED
  BY <1>1, <1>2, TypeCorrect, BuildingHolds, PTL DEF GenSpec

-----------------------------------------------------------------------------
(* A run of the accepted code.                                             *)

Settled(start) == Building /\ Traced(start) /\ status = "accepted" /\ WellFormed

\* An instruction of the function that begins at a spot; its point of the source.
Reaches(b, i, spot) == b \in inserted /\ i \in DOMAIN code[b] /\ Spot(code[b][i]) = spot
PointOf(spot) ==
  IF spot[2] \in {"rising", "flat", "falling"} THEN Test(spot[1])
  ELSE IF spot[2] = "pushed" THEN Stmt(spot[1]) ELSE spot

\* A gosub at statement i that pushes block r.
Pushes(r, i) ==
  \E b \in inserted : \E k \in DOMAIN code[b] :
    code[b][k].op = "push" /\ code[b][k].to[1] = r /\ code[b][k].at = Stmt(i)
SignKnown(spot) ==
  /\ spot[2] = "rising" => ForRange[body[spot[1]].arg].step > 0
  /\ spot[2] = "flat" => ~(ForRange[body[spot[1]].arg].step > 0)
  /\ spot[2] = "falling" => ForRange[body[spot[1]].arg].step < 0

\* All addresses were pushed by gosubs, the last by the one that is under way.
PushedAll(s) == \A k \in DOMAIN s : \E i : Pushes(s[k], i)
UnderWay(s, spot) == spot[2] = "pushed" => s # <<>> /\ Pushes(s[Len(s)], spot[1])

RunOK ==
  /\ block \in inserted /\ instr \in DOMAIN code[block]
  /\ stack \in Seq(Nat) /\ Len(stack) <= GosubDepth
  /\ PushedAll(stack)
  /\ counter \in [Loops -> Int]
  /\ SignKnown(Spot(Current)) /\ UnderWay(stack, Spot(Current))
  /\ outcome \in {"running", "halted", "undefined"}
  /\ UndefinedOnlyAtTheStackLimits
Running ==
  /\ status # "accepted" => RunInit
  /\ status = "accepted" => RunOK

LEMMA InFunction ==
  ASSUME NEW start, Settled(start), NEW b \in inserted, NEW i \in DOMAIN code[b], NEW x, x = code[b][i]
  PROVE  /\ x \in AnyInstr /\ Right(x, start) /\ i \in Nat /\ code[b] \in Seq(AnyInstr) /\ b \in 1 .. Len(code)
         /\ \A k \in DOMAIN x.to : x.to[k] \in inserted
         /\ <<b, x>> \in Content(code)
         /\ x.op \in Terminators => i = Len(code[b])
         /\ IsTerminated(code[b])
<1>1. code \in CodeSeqs /\ inserted \subseteq 1 .. Len(code)
  BY CodeType DEF Settled, Building
<1>2. b \in 1 .. Len(code) /\ code[b] \in Seq(AnyInstr)
  BY <1>1 DEF CodeSeqs
<1>3. x \in AnyInstr /\ i \in Nat
  BY <1>2
<1>4. Right(x, start)
  BY <1>2 DEF Settled, Traced, Linked
<1>5. /\ \A k \in DOMAIN x.to : x.to[k] \in inserted
      /\ x.op \in Terminators => i = Len(code[b])
      /\ IsTerminated(code[b])
  BY DEF Settled, WellFormed
<1>6. <<b, x>> \in Content(code)
  BY <1>2 DEF Content
<1> QED
  BY <1>2, <1>3, <1>4, <1>5, <1>6

LEMMA BlockBegins ==
  ASSUME NEW start, Settled(start), NEW b \in inserted, NEW spot, Starts(start, b, spot)
  PROVE  Reaches(b, 1, spot)
<1>1. code \in CodeSeqs /\ inserted \subseteq 1 .. Len(code)
  BY CodeType DEF Settled, Building
<1>2. PICK xs \in Seq(AnyInstr) : xs = code[b]
  BY <1>1 DEF CodeSeqs
<1>3. xs # <<>>
  BY <1>2 DEF Settled, WellFormed, IsTerminated
<1>4. 1 \in DOMAIN xs
  BY <1>2, <1>3
<1>5. Chain(xs, spot)
  BY <1>1, <1>2 DEF Settled, Traced, Linked, Starts
<1> QED
  BY <1>2, <1>3, <1>4, <1>5 DEF Reaches, Chain

LEMMA GoesOn ==
  ASSUME NEW start, Settled(start), NEW b \in inserted, NEW i \in DOMAIN code[b], NEW x, x = code[b][i],
         x.op \notin Terminators
  PROVE  Reaches(b, i + 1, Then(x))
<1>1. code \in CodeSeqs /\ inserted \subseteq 1 .. Len(code)
  BY CodeType DEF Settled, Building
<1>2. PICK xs \in Seq(AnyInstr) : xs = code[b]
  BY <1>1 DEF CodeSeqs
<1>3. i # Len(xs)
  BY <1>2 DEF Settled, WellFormed, IsTerminated
<1>4. i + 1 \in DOMAIN xs /\ i \in DOMAIN xs
  BY <1>2, <1>3
<1>5. Chain(xs, start[b])
  BY <1>1, <1>2 DEF Settled, Traced, Linked
<1> QED
  BY <1>2, <1>4, <1>5 DEF Reaches, Chain

LEMMA Leads ==
  ASSUME NEW start, Settled(start), NEW b \in inserted, NEW i \in DOMAIN code[b], NEW x, x = code[b][i]
  PROVE  /\ \A spot : To1(x, start, spot) => Reaches(x.to[1], 1, spot)
         /\ \A yes, no : To2(x, start, yes, no) => Reaches(x.to[1], 1, yes) /\ Reaches(x.to[2], 1, no)
<1>1. \A k \in DOMAIN x.to : x.to[k] \in inserted
  BY InFunction
<1>2. \A k, spot : k \in DOMAIN x.to /\ Starts(start, x.to[k], spot) => Reaches(x.to[k], 1, spot)
  BY <1>1, BlockBegins
<1> QED
  BY <1>2 DEF To1, To2

\* The spot tells which instruction it is, where that is not at a point.
LEMMA SpotIs ==
  ASSUME NEW x \in AnyInstr, NEW start, Right(x, start)
  PROVE  /\ x.at = PointOf(Spot(x)) /\ Spot(x)[1] = x.at[1]
         /\ Spot(x)[2] = "rising" <=> x.op = "notAbove"
         /\ Spot(x)[2] = "flat" <=> x.op = "negative"
         /\ Spot(x)[2] = "falling" <=> x.op = "notBelow"
         /\ Spot(x)[2] = "pushed" => x.op = "br" /\ x.at[1] \in DOMAIN body /\ body[x.at[1]].op = "gosub"
         /\ x.op # "br" => Spot(x)[2] # "pushed"
<1>1. x.at \in Points /\ x.at = <<x.at[1], x.at[2]>> /\ x.at[2] \in {"at", "test"}
  BY DEF AnyInstr, Points
<1>2. x.op \in {"notAbove", "negative", "notBelow"} => x.at = Test(x.at[1])
  BY DEF Right, Computes, Branches, Chooses, Returns, OfLoop, OfTest
<1>3. x.op = "br" => x.at[1] \in DOMAIN body
  BY DEF Right, Computes, Branches, Chooses, Returns, OfTest
<1>4. CASE x.op = "notAbove"
  BY <1>2, <1>4 DEF Spot, PointOf
<1>5. CASE x.op = "negative"
  BY <1>2, <1>5 DEF Spot, PointOf
<1>6. CASE x.op = "notBelow"
  BY <1>2, <1>6 DEF Spot, PointOf
<1>7. CASE x.op \notin {"notAbove", "negative", "notBelow"}
  <2>1. CASE x.op = "br" /\ x.at[2] = "at" /\ body[x.at[1]].op = "gosub"
    <3>1. Spot(x) = <<x.at[1], "pushed">>
      BY <2>1 DEF Spot
    <3> QED
      BY <1>1, <1>3, <2>1, <3>1 DEF PointOf, Stmt
  <2>2. CASE ~(x.op = "br" /\ x.at[2] = "at" /\ body[x.at[1]].op = "gosub")
    <3>1. Spot(x) = x.at
      BY <1>7, <2>2 DEF Spot
    <3>2. PointOf(x.at) = x.at
      BY <1>1 DEF PointOf
    <3> QED
      BY <1>1, <1>7, <3>1, <3>2
  <2> QED
    BY <2>1, <2>2
<1> QED
  BY <1>4, <1>5, <1>6, <1>7

\* An address on the stack is a block that begins behind its gosub.
LEMMA PushedBegins ==
  ASSUME NEW start, Settled(start), NEW r, NEW i, Pushes(r, i)
  PROVE  Reaches(r, 1, Stmt(i + 1)) /\ r \in returnPoints /\ r \in Nat /\ code[r][1].at = Stmt(i + 1)
<1>1. PICK b \in inserted : \E k \in DOMAIN code[b] :
        code[b][k].op = "push" /\ code[b][k].to[1] = r /\ code[b][k].at = Stmt(i)
  BY DEF Pushes
<1>2. PICK k \in DOMAIN code[b] :
        code[b][k].op = "push" /\ code[b][k].to[1] = r /\ code[b][k].at = Stmt(i)
  BY <1>1
<1>3. PICK x : x = code[b][k]
  OBVIOUS
<1>4. x.op = "push" /\ x.to[1] = r /\ x.at[1] = i
  BY <1>2, <1>3 DEF Stmt
<1>5. x \in AnyInstr /\ Right(x, start) /\ <<b, x>> \in Content(code)
  BY <1>3, InFunction
<1>6. To1(x, start, Stmt(i + 1))
  BY <1>4, <1>5 DEF Right, Computes, Branches, Chooses, Returns
<1>7. Reaches(r, 1, Stmt(i + 1))
  BY <1>3, <1>4, <1>6, Leads
<1>8. r \in returnPoints
  <2>1. Knows(Content(code), returnPoints, dests)
    BY DEF Settled, Traced
  <2> QED
    BY <1>4, <1>5, <2>1 DEF Knows
<1>9. r \in Nat
  BY <1>7, CodeType DEF Reaches, Settled, Building
<1>10. code[r][1].at = Stmt(i + 1)
  <2>1. PICK y : y = code[r][1]
    OBVIOUS
  <2>2. r \in inserted /\ 1 \in DOMAIN code[r] /\ Spot(y) = Stmt(i + 1)
    BY <1>7, <2>1 DEF Reaches
  <2>3. y \in AnyInstr /\ Right(y, start)
    BY <2>1, <2>2, InFunction
  <2>4. y.at = PointOf(Spot(y))
    BY <2>3, SpotIs
  <2> QED
    BY <2>1, <2>2, <2>4 DEF PointOf, Stmt
<1> QED
  BY <1>7, <1>8, <1>9, <1>10

\* Behind a push, and only there, the spot is that of a gosub that has pushed.
LEMMA PushedIsBehindPush ==
  ASSUME NEW start, Settled(start), NEW b \in inserted, NEW i \in DOMAIN code[b]
  PROVE  Spot(code[b][i])[2] = "pushed" <=> i > 1 /\ code[b][i - 1].op = "push"
<1>1. code \in CodeSeqs /\ inserted \subseteq 1 .. Len(code)
  BY CodeType DEF Settled, Building
<1>2. PICK xs \in Seq(AnyInstr) : xs = code[b]
  BY <1>1 DEF CodeSeqs
<1>3. Chain(xs, start[b]) /\ start[b][2] # "pushed"
  BY <1>1, <1>2 DEF Settled, Traced, Linked, Whole
<1>4. CASE i = 1
  <2>1. xs # <<>> /\ Spot(xs[1]) = start[b]
    BY <1>2, <1>3, <1>4 DEF Chain
  <2> QED
    BY <1>2, <1>3, <1>4, <2>1
<1>5. CASE i # 1
  <2>1. PICK h \in DOMAIN xs : h = i - 1 /\ i = h + 1 /\ i > 1 /\ i \in DOMAIN xs
    BY <1>2, <1>5
  <2>2. Spot(xs[i]) = Then(xs[h])
    BY <1>3, <2>1 DEF Chain
  <2>3. Then(xs[h])[2] = "pushed" <=> xs[h].op = "push"
    BY DEF Then, Stmt, Test
  <2> QED
    BY <1>2, <2>1, <2>2, <2>3
<1> QED
  BY <1>4, <1>5

\* The calls that the stack stands for.
Addresses(s) == [k \in DOMAIN s |-> code[s[k]][1].at]
Called(s, spot) == Addresses(IF spot[2] = "pushed" THEN SubSeq(s, 1, Len(s) - 1) ELSE s)

LEMMA SameCode ==
  ASSUME Generated
  PROVE  /\ UNCHANGED <<body, pos, frames, code, inserted, cur, labelBlocks, loopExit, returnPoints, dests, status>>
         /\ \A b, i, spot : Reaches(b, i, spot)' <=> Reaches(b, i, spot)
         /\ \A r, i : Pushes(r, i)' <=> Pushes(r, i)
         /\ \A spot : SignKnown(spot)' <=> SignKnown(spot)
         /\ \A x : Spot(x)' = Spot(x)
<1>1. UNCHANGED <<body, pos, frames, code, inserted, cur, labelBlocks, loopExit, returnPoints, dests, status>>
  BY DEF Generated, genVars, symtab
<1>2. \A x : Spot(x)' = Spot(x)
  BY <1>1 DEF Spot
<1> QED
  BY <1>1, <1>2 DEF Reaches, Pushes, SignKnown, Stmt

LEMMA SourceIs ==
  ASSUME NEW start, Settled(start), RunOK, outcome = "running", NEW x, x = Current
  PROVE  /\ x \in AnyInstr /\ Right(x, start) /\ SourcePc = x.at /\ SourceCalls = Called(stack, Spot(x))
         /\ block \in inserted /\ instr \in DOMAIN code[block] /\ instr \in Nat
<1>1. block \in inserted /\ instr \in DOMAIN code[block] /\ status = "accepted"
  BY DEF RunOK, Settled
<1>2. x = code[block][instr]
  BY DEF Current
<1>3. x \in AnyInstr /\ Right(x, start) /\ instr \in Nat
  BY <1>1, <1>2, InFunction
<1>4. SourcePc = x.at
  BY <1>1 DEF SourcePc
<1>5. Spot(x)[2] = "pushed" <=> instr > 1 /\ code[block][instr - 1].op = "push"
  BY <1>1, <1>2, PushedIsBehindPush
<1>6. SourceCalls = Called(stack, Spot(x))
  BY <1>1, <1>5 DEF SourceCalls, Called, Addresses
<1> QED
  BY <1>1, <1>3, <1>4, <1>6

\* After a step of the run.
LEMMA Moved ==
  ASSUME NEW start, Settled(start), RunOK, Generated, outcome' \in {"running", "halted", "undefined"},
         NEW b, b = block', NEW i, i = instr', NEW s, s = stack', NEW spot, Reaches(b, i, spot), SignKnown(spot),
         s \in Seq(Nat), Len(s) <= GosubDepth, PushedAll(s), UnderWay(s, spot),
         counter' \in [Loops -> Int], UndefinedOnlyAtTheStackLimits'
  PROVE  /\ RunOK' /\ SourceCalls' = Called(s, spot)
         /\ outcome' = "running" => SourcePc' = PointOf(spot)
<1>1. UNCHANGED <<body, code, inserted, status>> /\ status = "accepted"
  BY SameCode DEF Settled
<1>2. b \in inserted /\ i \in DOMAIN code[b]
  BY DEF Reaches
<1>3. PICK y : y = code[b][i]
  OBVIOUS
<1>4. Current' = y /\ Spot(y) = spot
  BY <1>1, <1>3 DEF Current, Reaches
<1>5. y \in AnyInstr /\ Right(y, start)
  BY <1>2, <1>3, InFunction
<1>6. Spot(Current)' = spot
  BY <1>1, <1>4 DEF Spot
<1>7. block' \in inserted' /\ instr' \in DOMAIN code'[block']
  BY <1>1, <1>2
<1>8. PushedAll(stack)'
  BY SameCode DEF PushedAll
<1>9. SignKnown(Spot(Current))'
  BY <1>6, SameCode DEF SignKnown
<1>10. UnderWay(stack, Spot(Current))'
  BY <1>6, SameCode DEF UnderWay, Pushes, Stmt
<1>11. RunOK'
  BY <1>7, <1>8, <1>9, <1>10 DEF RunOK
<1>12. outcome' = "running" => SourcePc' = PointOf(spot)
  <2>1. y.at = PointOf(Spot(y))
    BY <1>5, SpotIs
  <2> QED
    BY <1>1, <1>4, <2>1 DEF SourcePc
<1>13. SourceCalls' = Called(s, spot)
  <2>1. spot[2] = "pushed" <=> i > 1 /\ code[b][i - 1].op = "push"
    BY <1>2, <1>3, <1>4, PushedIsBehindPush
  <2> QED
    BY <1>1, <2>1 DEF SourceCalls, Called, Addresses
<1> QED
  BY <1>11, <1>12, <1>13

\* The step leaves the stack alone and does not stop.
LEMMA MovedOn ==
  ASSUME NEW start, Settled(start), RunOK, Generated, outcome' = "running", stack' = stack,
         NEW b, b = block', NEW i, i = instr', NEW spot, Reaches(b, i, spot), SignKnown(spot), spot[2] # "pushed",
         counter' \in [Loops -> Int]
  PROVE  RunOK' /\ SourceCalls' = Addresses(stack) /\ SourcePc' = PointOf(spot)
<1>1. /\ stack \in Seq(Nat) /\ Len(stack) <= GosubDepth /\ PushedAll(stack)
  BY DEF RunOK
<1>2. UndefinedOnlyAtTheStackLimits'
  BY DEF UndefinedOnlyAtTheStackLimits
<1>3. RunOK' /\ SourceCalls' = Called(stack, spot) /\ SourcePc' = PointOf(spot)
  BY <1>1, <1>2, Moved DEF UnderWay
<1> QED
  BY <1>3 DEF Called

LEMMA PlainSpot == \A i : SignKnown(Stmt(i)) /\ SignKnown(Test(i)) /\ PointOf(Stmt(i)) = Stmt(i) /\ PointOf(Test(i)) = Test(i)
BY DEF SignKnown, Stmt, Test, PointOf

-----------------------------------------------------------------------------
(* Each step of the run is one of the source, or none.                     *)

SourceStep == Semantics!Step \/ UNCHANGED Semantics!vars

LEMMA ExecRuns ==
  ASSUME NEW start, Settled(start), RunOK, RunExec, Generated
  PROVE  RunOK' /\ SourceStep
<1>1. PICK x : x = Current
  OBVIOUS
<1>2. x.op = "exec" /\ outcome = "running" /\ block' = block /\ instr' = instr + 1 /\ UNCHANGED <<stack, counter, outcome>>
  BY <1>1 DEF RunExec, AtInstr, Fall
<1>3. /\ x \in AnyInstr /\ Right(x, start) /\ SourcePc = x.at /\ SourceCalls = Called(stack, Spot(x))
      /\ block \in inserted /\ instr \in DOMAIN code[block] /\ x = code[block][instr]
  BY <1>1, <1>2, SourceIs DEF Current
<1>4. OfStmt(x, "exec")
  BY <1>2, <1>3 DEF Right, Computes, Branches, Chooses, Returns
<1>5. SourceCalls = Addresses(stack)
  BY <1>2, <1>3, SpotIs DEF Called
<1>6. PICK k : k = x.at[1]
  OBVIOUS
<1>7. x.at = Stmt(k) /\ k \in DOMAIN body /\ body[k].op = "exec"
  BY <1>4, <1>6 DEF OfStmt
<1>8. Reaches(block, instr + 1, Stmt(k + 1))
  <2>1. x.op \notin Terminators
    BY <1>2 DEF Terminators
  <2>2. Then(x) = Stmt(k + 1)
    BY <1>2, <1>6 DEF Then
  <2> QED
    BY <1>3, <2>1, <2>2, GoesOn
<1>9. RunOK' /\ SourceCalls' = Addresses(stack) /\ SourcePc' = Stmt(k + 1)
  <2>1. counter' \in [Loops -> Int]
    BY <1>2 DEF RunOK
  <2>2. Stmt(k + 1)[2] # "pushed"
    BY DEF Stmt
  <2> QED
    BY <1>2, <1>8, <2>1, <2>2, MovedOn, PlainSpot
<1>10. body' = body
  BY SameCode
<1>11. Semantics!Walk
  BY <1>2, <1>3, <1>5, <1>7, <1>9, <1>10
     DEF Semantics!Walk, Semantics!At, Semantics!Only, Semantics!After, Semantics!GoTo, Stmt
<1> QED
  BY <1>9, <1>11 DEF SourceStep, Semantics!Step

LEMMA LoopOfFor ==
  ASSUME NEW start, Settled(start), NEW k \in DOMAIN body, body[k].op = "for"
  PROVE  body[k].arg \in Loops
<1>1. body \in Bodies
  BY CodeType DEF Settled, Building
<1> QED
  BY <1>1, BodiesAreItems DEF HasLoop

LEMMA InitRuns ==
  ASSUME NEW start, Settled(start), RunOK, RunInitFor, Generated
  PROVE  RunOK' /\ SourceStep
<1>1. PICK x : x = Current
  OBVIOUS
<1>2. /\ x.op = "init" /\ outcome = "running" /\ block' = block /\ instr' = instr + 1 /\ UNCHANGED <<stack, outcome>>
      /\ counter' = [counter EXCEPT ![x.loop] = ForRange[x.loop].from]
  BY <1>1 DEF RunInitFor, AtInstr, Fall
<1>3. /\ x \in AnyInstr /\ Right(x, start) /\ SourcePc = x.at /\ SourceCalls = Called(stack, Spot(x))
      /\ block \in inserted /\ instr \in DOMAIN code[block] /\ x = code[block][instr]
  BY <1>1, <1>2, SourceIs DEF Current
<1>4. OfStmt(x, "for") /\ x.loop = body[x.at[1]].arg
  BY <1>2, <1>3 DEF Right, Computes, Branches, Chooses, Returns
<1>5. SourceCalls = Addresses(stack)
  BY <1>2, <1>3, SpotIs DEF Called
<1>6. PICK k : k = x.at[1]
  OBVIOUS
<1>7. x.at = Stmt(k) /\ k \in DOMAIN body /\ body[k].op = "for" /\ x.loop = body[k].arg
  BY <1>4, <1>6 DEF OfStmt
<1>8. PICK l \in Loops : l = body[k].arg
  BY <1>7, LoopOfFor
<1>9. Reaches(block, instr + 1, Test(k))
  <2>1. x.op \notin Terminators
    BY <1>2 DEF Terminators
  <2>2. Then(x) = Test(k)
    BY <1>2, <1>6 DEF Then
  <2> QED
    BY <1>3, <2>1, <2>2, GoesOn
<1>10. counter' \in [Loops -> Int]
  <2>1. counter \in [Loops -> Int] /\ ForRange[l].from \in Int
    BY RangesAreIntegers DEF RunOK
  <2> QED
    BY <1>2, <1>7, <1>8, <2>1
<1>11. RunOK' /\ SourceCalls' = Addresses(stack) /\ SourcePc' = Test(k)
  <2>1. Test(k)[2] # "pushed"
    BY DEF Test
  <2> QED
    BY <1>2, <1>9, <1>10, <2>1, MovedOn, PlainSpot
<1>12. body' = body
  BY SameCode
<1>13. Semantics!For
  BY <1>2, <1>3, <1>5, <1>7, <1>11, <1>12
     DEF Semantics!For, Semantics!At, Semantics!Arg, Stmt, Test
<1> QED
  BY <1>11, <1>13 DEF SourceStep, Semantics!Step

LEMMA StepRuns ==
  ASSUME NEW start, Settled(start), RunOK, RunStepFor, Generated
  PROVE  RunOK' /\ SourceStep
<1>1. PICK x : x = Current
  OBVIOUS
<1>2. /\ x.op = "step" /\ outcome = "running" /\ block' = block /\ instr' = instr + 1 /\ UNCHANGED <<stack, outcome>>
      /\ counter' = [counter EXCEPT ![x.loop] = @ + ForRange[x.loop].step]
  BY <1>1 DEF RunStepFor, AtInstr, Fall
<1>3. /\ x \in AnyInstr /\ Right(x, start) /\ SourcePc = x.at /\ SourceCalls = Called(stack, Spot(x))
      /\ block \in inserted /\ instr \in DOMAIN code[block] /\ x = code[block][instr]
  BY <1>1, <1>2, SourceIs DEF Current
<1>4. OfStmt(x, "next") /\ x.loop = body[Semantics!OpenOf(x.at[1])].arg
  BY <1>2, <1>3 DEF Right, Computes, Branches, Chooses, Returns
<1>5. SourceCalls = Addresses(stack)
  BY <1>2, <1>3, SpotIs DEF Called
<1>6. PICK k : k = x.at[1]
  OBVIOUS
<1>7. PICK j : j = Semantics!OpenOf(k)
  OBVIOUS
<1>8. x.at = Stmt(k) /\ k \in DOMAIN body /\ body[k].op = "next" /\ x.loop = body[j].arg
  BY <1>4, <1>6, <1>7 DEF OfStmt
<1>9. Reaches(block, instr + 1, Test(j))
  <2>1. x.op \notin Terminators
    BY <1>2 DEF Terminators
  <2>2. Then(x) = Test(j)
    BY <1>2, <1>6, <1>7 DEF Then
  <2> QED
    BY <1>3, <2>1, <2>2, GoesOn
<1>10. counter' \in [Loops -> Int]
  <2>1. counter \in [Loops -> Int]
    BY DEF RunOK
  <2>2. CASE x.loop \in Loops
    <3>1. ForRange[x.loop].step \in Int /\ counter[x.loop] \in Int
      BY <2>1, <2>2, RangesAreIntegers
    <3>2. PICK v \in Int : v = counter[x.loop] + ForRange[x.loop].step
      BY <3>1
    <3>3. counter' = [counter EXCEPT ![x.loop] = v]
      BY <1>2, <3>2
    <3> QED
      BY <2>1, <3>3
  <2>3. CASE x.loop \notin Loops
    BY <1>2, <2>1, <2>3
  <2> QED
    BY <2>2, <2>3
<1>11. RunOK' /\ SourceCalls' = Addresses(stack) /\ SourcePc' = Test(j)
  <2>1. Test(j)[2] # "pushed"
    BY DEF Test
  <2> QED
    BY <1>2, <1>9, <1>10, <2>1, MovedOn, PlainSpot
<1>12. body' = body
  BY SameCode
<1>13. Semantics!NextStmt
  <2>1. SourcePc[1] = k /\ SourcePc[2] = "at"
    BY <1>3, <1>8 DEF Stmt
  <2>2. Semantics!OpenOf(SourcePc[1]) = j
    BY <1>7, <2>1
  <2> QED
    BY <1>2, <1>5, <1>8, <1>11, <1>12, <2>1, <2>2
       DEF Semantics!NextStmt, Semantics!At, Test
<1> QED
  BY <1>11, <1>13 DEF SourceStep, Semantics!Step

\* A branch within the source, where nothing else changes.
LEMMA Jumps ==
  ASSUME NEW start, Settled(start), RunOK, Generated, outcome = "running",
         UNCHANGED <<stack, counter, outcome>>, NEW x, x = Current, Spot(x)[2] # "pushed",
         NEW t, block' = t, instr' = 1, NEW spot, Reaches(t, 1, spot), SignKnown(spot), spot[2] # "pushed"
  PROVE  /\ RunOK' /\ SourcePc = x.at /\ SourcePc' = PointOf(spot)
         /\ UNCHANGED <<body, SourceCalls, counter>>
<1>1. SourcePc = x.at /\ SourceCalls = Addresses(stack)
  BY SourceIs DEF Called
<1>2. counter' \in [Loops -> Int] /\ outcome' = "running" /\ stack' = stack
  BY DEF RunOK
<1>3. RunOK' /\ SourceCalls' = Addresses(stack) /\ SourcePc' = PointOf(spot)
  BY <1>2, MovedOn
<1>4. body' = body
  BY SameCode
<1> QED
  BY <1>1, <1>3, <1>4

LEMMA ChoiceRuns ==
  ASSUME NEW start, Settled(start), RunOK, RunChoice, Generated
  PROVE  RunOK' /\ SourceStep
<1>1. PICK x : x = Current
  OBVIOUS
<1>2. PICK c \in {1, 2} : block' = x.to[c] /\ instr' = 1
  BY <1>1 DEF RunChoice, GoToBlock
<1>3. x.op = "choice" /\ outcome = "running" /\ UNCHANGED <<stack, counter, outcome>>
  BY <1>1 DEF RunChoice, AtInstr
<1>4. /\ x \in AnyInstr /\ Right(x, start)
      /\ block \in inserted /\ instr \in DOMAIN code[block] /\ x = code[block][instr]
  BY <1>1, <1>3, SourceIs DEF Current
<1>5. PICK k : k = x.at[1]
  OBVIOUS
<1>6. /\ OfStmt(x, "if") /\ To2(x, start, Stmt(k + 1), Stmt(Semantics!ElseOf(k) + 1))
      /\ Spot(x)[2] # "pushed"
  BY <1>3, <1>4, <1>5, SpotIs DEF Right, Computes, Branches, Chooses, Returns
<1>7. x.at = Stmt(k) /\ k \in DOMAIN body /\ body[k].op = "if"
  BY <1>5, <1>6 DEF OfStmt
<1>8. PICK j \in {k, Semantics!ElseOf(k)} : Reaches(x.to[c], 1, Stmt(j + 1))
  <2>1. Reaches(x.to[1], 1, Stmt(k + 1)) /\ Reaches(x.to[2], 1, Stmt(Semantics!ElseOf(k) + 1))
    BY <1>4, <1>6, Leads
  <2> QED
    BY <1>2, <2>1
<1>9. PICK t : t = x.to[c]
  OBVIOUS
<1>10. PICK spot : spot = Stmt(j + 1)
  OBVIOUS
<1>11. SignKnown(spot) /\ spot[2] # "pushed" /\ PointOf(spot) = spot
  BY <1>10, PlainSpot DEF Stmt
<1>12. RunOK' /\ SourcePc = Stmt(k) /\ SourcePc' = spot /\ UNCHANGED <<body, SourceCalls, counter>>
  BY <1>1, <1>2, <1>3, <1>6, <1>7, <1>8, <1>9, <1>10, <1>11, Jumps
<1>13. Semantics!If
  <2>1. SourcePc[1] = k /\ SourcePc[2] = "at"
    BY <1>12 DEF Stmt
  <2>2. j \in {SourcePc[1], Semantics!ElseOf(SourcePc[1])}
    BY <2>1
  <2>3. Semantics!Only(Semantics!After(j))
    BY <1>10, <1>12 DEF Semantics!Only, Semantics!After, Semantics!GoTo, Stmt
  <2>4. Semantics!At("if")
    BY <1>7, <2>1 DEF Semantics!At
  <2> QED
    BY <2>2, <2>3, <2>4 DEF Semantics!If, Semantics!Only
<1> QED
  BY <1>12, <1>13 DEF SourceStep, Semantics!Step

\* The instruction and the block its condition chooses.
LEMMA CondBrIs ==
  ASSUME NEW start, Settled(start), RunOK, outcome = "running", NEW x, x = Current,
         x.op \in {"positive", "notAbove", "negative", "notBelow"}, NEW k, k = x.at[1], NEW l, l = x.loop
  PROVE  /\ SourcePc = Test(k) /\ x.at = Test(k) /\ k \in DOMAIN body /\ body[k].arg = l /\ l \in Loops
         /\ counter[l] \in Int /\ ForRange[l].step \in Int /\ ForRange[l].to \in Int
         /\ Spot(x)[2] # "pushed" /\ SignKnown(Spot(x)) /\ Spot(x)[1] = k
         /\ Right(x, start) /\ Chooses(x, start)
         /\ \A yes, no : To2(x, start, yes, no) => Reaches(x.to[1], 1, yes) /\ Reaches(x.to[2], 1, no)
<1>1. /\ x \in AnyInstr /\ Right(x, start) /\ SourcePc = x.at
      /\ block \in inserted /\ instr \in DOMAIN code[block] /\ x = code[block][instr]
  BY SourceIs DEF Current
<1>2. OfLoop(x) /\ Chooses(x, start)
  BY <1>1 DEF Right, Computes, Branches, Chooses, Returns
<1>3. x.at = Test(k) /\ k \in DOMAIN body /\ body[k].op = "for" /\ body[k].arg = l
  BY <1>2 DEF OfLoop, OfTest
<1>4. l \in Loops
  BY <1>3, LoopOfFor
<1>5. counter[l] \in Int /\ ForRange[l].step \in Int /\ ForRange[l].to \in Int
  BY <1>4, RangesAreIntegers DEF RunOK
<1>6. Spot(x)[2] # "pushed" /\ Spot(x)[1] = k
  BY <1>1, SpotIs
<1>7. SignKnown(Spot(x))
  BY DEF RunOK
<1>8. \A yes, no : To2(x, start, yes, no) => Reaches(x.to[1], 1, yes) /\ Reaches(x.to[2], 1, no)
  BY <1>1, Leads
<1> QED
  BY <1>1, <1>2, <1>3, <1>4, <1>5, <1>6, <1>7, <1>8

\* The test of the source, with what is known of the sign of the step.
LEMMA TestStep ==
  ASSUME NEW k, k \in DOMAIN body, NEW l \in Loops, body[k].arg = l, SourcePc = Test(k),
         UNCHANGED <<body, SourceCalls, counter>>,
         NEW inside \in BOOLEAN,
         inside <=> \/ ForRange[l].step > 0 /\ counter[l] <= ForRange[l].to
                    \/ ForRange[l].step < 0 /\ counter[l] >= ForRange[l].to,
         SourcePc' = IF inside THEN Stmt(k + 1) ELSE Stmt(Semantics!CloseOf(k) + 1)
  PROVE  SourceStep
<1>1. SourcePc[1] = k /\ SourcePc[2] = "test"
  BY DEF Test
<1>2. Semantics!CloseOf(SourcePc[1]) = Semantics!CloseOf(k)
  BY <1>1
<1>3. Semantics!Test
  <2>1. CASE inside
    BY <1>1, <1>2, <2>1 DEF Semantics!Test, Semantics!Arg, Semantics!Only, Semantics!After, Semantics!GoTo, Stmt
  <2>2. CASE ~inside
    BY <1>1, <1>2, <2>2 DEF Semantics!Test, Semantics!Arg, Semantics!Only, Semantics!After, Semantics!GoTo, Stmt
  <2> QED
    BY <2>1, <2>2
<1> QED
  BY <1>3 DEF SourceStep, Semantics!Step

LEMMA PositiveRuns ==
  ASSUME NEW start, Settled(start), RunOK, RunPositive, Generated
  PROVE  RunOK' /\ SourceStep
<1>1. PICK x : x = Current
  OBVIOUS
<1>2. PICK k : k = x.at[1]
  OBVIOUS
<1>3. PICK l : l = x.loop
  OBVIOUS
<1>4. x.op = "positive" /\ outcome = "running" /\ UNCHANGED <<stack, counter, outcome>> /\ instr' = 1
  BY <1>1 DEF RunPositive, RunCondBr, AtInstr, GoToBlock
<1>5. /\ SourcePc = Test(k) /\ x.at = Test(k) /\ k \in DOMAIN body /\ body[k].arg = l /\ l \in Loops
      /\ counter[l] \in Int /\ ForRange[l].step \in Int /\ ForRange[l].to \in Int
      /\ Spot(x)[2] # "pushed" /\ SignKnown(Spot(x)) /\ Spot(x)[1] = k
      /\ Chooses(x, start)
      /\ \A yes, no : To2(x, start, yes, no) => Reaches(x.to[1], 1, yes) /\ Reaches(x.to[2], 1, no)
  BY <1>1, <1>2, <1>3, <1>4, CondBrIs
<1>6. PICK yes : yes = <<k, "rising">>
  OBVIOUS
<1>7. PICK no : no = <<k, "flat">>
  OBVIOUS
<1>8. To2(x, start, yes, no)
  BY <1>2, <1>4, <1>5, <1>6, <1>7 DEF Chooses
<1>9. Reaches(x.to[1], 1, yes) /\ Reaches(x.to[2], 1, no)
  BY <1>5, <1>8
<1>10. block' = IF ForRange[l].step > 0 THEN x.to[1] ELSE x.to[2]
  BY <1>1, <1>3 DEF RunPositive, RunCondBr, GoToBlock
<1>11. l \in Loops
  BY <1>5
<1>12. CASE ForRange[l].step > 0
  <2>1. PICK t : t = x.to[1]
    OBVIOUS
  <2>2. block' = t /\ Reaches(t, 1, yes)
    BY <1>9, <1>10, <1>12, <2>1
  <2>3. SignKnown(yes) /\ yes[2] # "pushed"
    BY <1>5, <1>6, <1>7, <1>11, <1>12 DEF SignKnown, Stmt
  <2>4. RunOK' /\ SourcePc = x.at /\ SourcePc' = PointOf(yes) /\ UNCHANGED <<body, SourceCalls, counter>>
    BY <1>1, <1>4, <1>5, <2>2, <2>3, Jumps
  <2>5. PointOf(yes) = Test(k)
    BY <1>6, <1>7 DEF PointOf
  <2> QED
    BY <1>5, <2>4, <2>5 DEF SourceStep, Semantics!vars
<1>13. CASE ~(ForRange[l].step > 0)
  <2>1. PICK t : t = x.to[2]
    OBVIOUS
  <2>2. block' = t /\ Reaches(t, 1, no)
    BY <1>9, <1>10, <1>13, <2>1
  <2>3. SignKnown(no) /\ no[2] # "pushed"
    BY <1>5, <1>6, <1>7, <1>11, <1>13 DEF SignKnown, Stmt
  <2>4. RunOK' /\ SourcePc = x.at /\ SourcePc' = PointOf(no) /\ UNCHANGED <<body, SourceCalls, counter>>
    BY <1>1, <1>4, <1>5, <2>2, <2>3, Jumps
  <2>5. PointOf(no) = Test(k)
    BY <1>6, <1>7 DEF PointOf
  <2> QED
    BY <1>5, <2>4, <2>5 DEF SourceStep, Semantics!vars
<1> QED
  BY <1>12, <1>13

LEMMA NegativeRuns ==
  ASSUME NEW start, Settled(start), RunOK, RunNegative, Generated
  PROVE  RunOK' /\ SourceStep
<1>1. PICK x : x = Current
  OBVIOUS
<1>2. PICK k : k = x.at[1]
  OBVIOUS
<1>3. PICK l : l = x.loop
  OBVIOUS
<1>4. x.op = "negative" /\ outcome = "running" /\ UNCHANGED <<stack, counter, outcome>> /\ instr' = 1
  BY <1>1 DEF RunNegative, RunCondBr, AtInstr, GoToBlock
<1>5. /\ SourcePc = Test(k) /\ x.at = Test(k) /\ k \in DOMAIN body /\ body[k].arg = l /\ l \in Loops
      /\ counter[l] \in Int /\ ForRange[l].step \in Int /\ ForRange[l].to \in Int
      /\ Spot(x)[2] # "pushed" /\ SignKnown(Spot(x)) /\ Spot(x)[1] = k
      /\ Chooses(x, start)
      /\ \A yes, no : To2(x, start, yes, no) => Reaches(x.to[1], 1, yes) /\ Reaches(x.to[2], 1, no)
  BY <1>1, <1>2, <1>3, <1>4, CondBrIs
<1>6. PICK yes : yes = <<k, "falling">>
  OBVIOUS
<1>7. PICK no : no = Stmt(Semantics!CloseOf(k) + 1)
  OBVIOUS
<1>8. To2(x, start, yes, no)
  BY <1>2, <1>4, <1>5, <1>6, <1>7 DEF Chooses
<1>9. Reaches(x.to[1], 1, yes) /\ Reaches(x.to[2], 1, no)
  BY <1>5, <1>8
<1>10. block' = IF ForRange[l].step < 0 THEN x.to[1] ELSE x.to[2]
  BY <1>1, <1>3 DEF RunNegative, RunCondBr, GoToBlock
<1>11. ~(ForRange[l].step > 0)
  BY <1>4, <1>5 DEF SignKnown, Spot
<1>12. CASE ForRange[l].step < 0
  <2>1. PICK t : t = x.to[1]
    OBVIOUS
  <2>2. block' = t /\ Reaches(t, 1, yes)
    BY <1>9, <1>10, <1>12, <2>1
  <2>3. SignKnown(yes) /\ yes[2] # "pushed"
    BY <1>5, <1>6, <1>7, <1>11, <1>12 DEF SignKnown, Stmt
  <2>4. RunOK' /\ SourcePc = x.at /\ SourcePc' = PointOf(yes) /\ UNCHANGED <<body, SourceCalls, counter>>
    BY <1>1, <1>4, <1>5, <2>2, <2>3, Jumps
  <2>5. PointOf(yes) = Test(k)
    BY <1>6, <1>7 DEF PointOf
  <2> QED
    BY <1>5, <2>4, <2>5 DEF SourceStep, Semantics!vars
<1>13. CASE ~(ForRange[l].step < 0)
  <2>1. PICK t : t = x.to[2]
    OBVIOUS
  <2>2. block' = t /\ Reaches(t, 1, no)
    BY <1>9, <1>10, <1>13, <2>1
  <2>3. SignKnown(no) /\ no[2] # "pushed"
    BY <1>5, <1>6, <1>7, <1>11, <1>13 DEF SignKnown, Stmt
  <2>4. RunOK' /\ SourcePc = x.at /\ SourcePc' = PointOf(no) /\ UNCHANGED <<body, SourceCalls, counter>>
    BY <1>1, <1>4, <1>5, <2>2, <2>3, Jumps
  <2>5. PointOf(no) = no
    BY <1>6, <1>7, PlainSpot
  <2>6. PICK inside \in BOOLEAN : inside = FALSE
    OBVIOUS
  <2>7. inside <=> \/ ForRange[l].step > 0 /\ counter[l] <= ForRange[l].to
                   \/ ForRange[l].step < 0 /\ counter[l] >= ForRange[l].to
    BY <1>5, <1>11, <1>13, <2>6
  <2>8. SourcePc' = IF inside THEN Stmt(k + 1) ELSE Stmt(Semantics!CloseOf(k) + 1)
    BY <1>6, <1>7, <2>4, <2>5, <2>6
  <2>9. SourceStep
    BY <1>5, <2>4, <2>7, <2>8, TestStep
  <2> QED
    BY <2>4, <2>9
<1> QED
  BY <1>12, <1>13

LEMMA NotAboveRuns ==
  ASSUME NEW start, Settled(start), RunOK, RunNotAbove, Generated
  PROVE  RunOK' /\ SourceStep
<1>1. PICK x : x = Current
  OBVIOUS
<1>2. PICK k : k = x.at[1]
  OBVIOUS
<1>3. PICK l : l = x.loop
  OBVIOUS
<1>4. x.op = "notAbove" /\ outcome = "running" /\ UNCHANGED <<stack, counter, outcome>> /\ instr' = 1
  BY <1>1 DEF RunNotAbove, RunCondBr, AtInstr, GoToBlock
<1>5. /\ SourcePc = Test(k) /\ x.at = Test(k) /\ k \in DOMAIN body /\ body[k].arg = l /\ l \in Loops
      /\ counter[l] \in Int /\ ForRange[l].step \in Int /\ ForRange[l].to \in Int
      /\ Spot(x)[2] # "pushed" /\ SignKnown(Spot(x)) /\ Spot(x)[1] = k
      /\ Chooses(x, start)
      /\ \A yes, no : To2(x, start, yes, no) => Reaches(x.to[1], 1, yes) /\ Reaches(x.to[2], 1, no)
  BY <1>1, <1>2, <1>3, <1>4, CondBrIs
<1>6. PICK yes : yes = Stmt(k + 1)
  OBVIOUS
<1>7. PICK no : no = Stmt(Semantics!CloseOf(k) + 1)
  OBVIOUS
<1>8. To2(x, start, yes, no)
  BY <1>2, <1>4, <1>5, <1>6, <1>7 DEF Chooses
<1>9. Reaches(x.to[1], 1, yes) /\ Reaches(x.to[2], 1, no)
  BY <1>5, <1>8
<1>10. block' = IF counter[l] <= ForRange[l].to THEN x.to[1] ELSE x.to[2]
  BY <1>1, <1>3 DEF RunNotAbove, RunCondBr, GoToBlock
<1>11. ForRange[l].step > 0
  BY <1>4, <1>5 DEF SignKnown, Spot
<1>12. CASE counter[l] <= ForRange[l].to
  <2>1. PICK t : t = x.to[1]
    OBVIOUS
  <2>2. block' = t /\ Reaches(t, 1, yes)
    BY <1>9, <1>10, <1>12, <2>1
  <2>3. SignKnown(yes) /\ yes[2] # "pushed"
    BY <1>5, <1>6, <1>7, <1>11, <1>12 DEF SignKnown, Stmt
  <2>4. RunOK' /\ SourcePc = x.at /\ SourcePc' = PointOf(yes) /\ UNCHANGED <<body, SourceCalls, counter>>
    BY <1>1, <1>4, <1>5, <2>2, <2>3, Jumps
  <2>5. PointOf(yes) = yes
    BY <1>6, <1>7, PlainSpot
  <2>6. PICK inside \in BOOLEAN : inside = TRUE
    OBVIOUS
  <2>7. inside <=> \/ ForRange[l].step > 0 /\ counter[l] <= ForRange[l].to
                   \/ ForRange[l].step < 0 /\ counter[l] >= ForRange[l].to
    BY <1>5, <1>11, <1>12, <2>6
  <2>8. SourcePc' = IF inside THEN Stmt(k + 1) ELSE Stmt(Semantics!CloseOf(k) + 1)
    BY <1>6, <1>7, <2>4, <2>5, <2>6
  <2>9. SourceStep
    BY <1>5, <2>4, <2>7, <2>8, TestStep
  <2> QED
    BY <2>4, <2>9
<1>13. CASE ~(counter[l] <= ForRange[l].to)
  <2>1. PICK t : t = x.to[2]
    OBVIOUS
  <2>2. block' = t /\ Reaches(t, 1, no)
    BY <1>9, <1>10, <1>13, <2>1
  <2>3. SignKnown(no) /\ no[2] # "pushed"
    BY <1>5, <1>6, <1>7, <1>11, <1>13 DEF SignKnown, Stmt
  <2>4. RunOK' /\ SourcePc = x.at /\ SourcePc' = PointOf(no) /\ UNCHANGED <<body, SourceCalls, counter>>
    BY <1>1, <1>4, <1>5, <2>2, <2>3, Jumps
  <2>5. PointOf(no) = no
    BY <1>6, <1>7, PlainSpot
  <2>6. PICK inside \in BOOLEAN : inside = FALSE
    OBVIOUS
  <2>7. inside <=> \/ ForRange[l].step > 0 /\ counter[l] <= ForRange[l].to
                   \/ ForRange[l].step < 0 /\ counter[l] >= ForRange[l].to
    BY <1>5, <1>11, <1>13, <2>6
  <2>8. SourcePc' = IF inside THEN Stmt(k + 1) ELSE Stmt(Semantics!CloseOf(k) + 1)
    BY <1>6, <1>7, <2>4, <2>5, <2>6
  <2>9. SourceStep
    BY <1>5, <2>4, <2>7, <2>8, TestStep
  <2> QED
    BY <2>4, <2>9
<1> QED
  BY <1>12, <1>13

LEMMA NotBelowRuns ==
  ASSUME NEW start, Settled(start), RunOK, RunNotBelow, Generated
  PROVE  RunOK' /\ SourceStep
<1>1. PICK x : x = Current
  OBVIOUS
<1>2. PICK k : k = x.at[1]
  OBVIOUS
<1>3. PICK l : l = x.loop
  OBVIOUS
<1>4. x.op = "notBelow" /\ outcome = "running" /\ UNCHANGED <<stack, counter, outcome>> /\ instr' = 1
  BY <1>1 DEF RunNotBelow, RunCondBr, AtInstr, GoToBlock
<1>5. /\ SourcePc = Test(k) /\ x.at = Test(k) /\ k \in DOMAIN body /\ body[k].arg = l /\ l \in Loops
      /\ counter[l] \in Int /\ ForRange[l].step \in Int /\ ForRange[l].to \in Int
      /\ Spot(x)[2] # "pushed" /\ SignKnown(Spot(x)) /\ Spot(x)[1] = k
      /\ Chooses(x, start)
      /\ \A yes, no : To2(x, start, yes, no) => Reaches(x.to[1], 1, yes) /\ Reaches(x.to[2], 1, no)
  BY <1>1, <1>2, <1>3, <1>4, CondBrIs
<1>6. PICK yes : yes = Stmt(k + 1)
  OBVIOUS
<1>7. PICK no : no = Stmt(Semantics!CloseOf(k) + 1)
  OBVIOUS
<1>8. To2(x, start, yes, no)
  BY <1>2, <1>4, <1>5, <1>6, <1>7 DEF Chooses
<1>9. Reaches(x.to[1], 1, yes) /\ Reaches(x.to[2], 1, no)
  BY <1>5, <1>8
<1>10. block' = IF counter[l] >= ForRange[l].to THEN x.to[1] ELSE x.to[2]
  BY <1>1, <1>3 DEF RunNotBelow, RunCondBr, GoToBlock
<1>11. ForRange[l].step < 0
  BY <1>4, <1>5 DEF SignKnown, Spot
<1>12. CASE counter[l] >= ForRange[l].to
  <2>1. PICK t : t = x.to[1]
    OBVIOUS
  <2>2. block' = t /\ Reaches(t, 1, yes)
    BY <1>9, <1>10, <1>12, <2>1
  <2>3. SignKnown(yes) /\ yes[2] # "pushed"
    BY <1>5, <1>6, <1>7, <1>11, <1>12 DEF SignKnown, Stmt
  <2>4. RunOK' /\ SourcePc = x.at /\ SourcePc' = PointOf(yes) /\ UNCHANGED <<body, SourceCalls, counter>>
    BY <1>1, <1>4, <1>5, <2>2, <2>3, Jumps
  <2>5. PointOf(yes) = yes
    BY <1>6, <1>7, PlainSpot
  <2>6. PICK inside \in BOOLEAN : inside = TRUE
    OBVIOUS
  <2>7. inside <=> \/ ForRange[l].step > 0 /\ counter[l] <= ForRange[l].to
                   \/ ForRange[l].step < 0 /\ counter[l] >= ForRange[l].to
    BY <1>5, <1>11, <1>12, <2>6
  <2>8. SourcePc' = IF inside THEN Stmt(k + 1) ELSE Stmt(Semantics!CloseOf(k) + 1)
    BY <1>6, <1>7, <2>4, <2>5, <2>6
  <2>9. SourceStep
    BY <1>5, <2>4, <2>7, <2>8, TestStep
  <2> QED
    BY <2>4, <2>9
<1>13. CASE ~(counter[l] >= ForRange[l].to)
  <2>1. PICK t : t = x.to[2]
    OBVIOUS
  <2>2. block' = t /\ Reaches(t, 1, no)
    BY <1>9, <1>10, <1>13, <2>1
  <2>3. SignKnown(no) /\ no[2] # "pushed"
    BY <1>5, <1>6, <1>7, <1>11, <1>13 DEF SignKnown, Stmt
  <2>4. RunOK' /\ SourcePc = x.at /\ SourcePc' = PointOf(no) /\ UNCHANGED <<body, SourceCalls, counter>>
    BY <1>1, <1>4, <1>5, <2>2, <2>3, Jumps
  <2>5. PointOf(no) = no
    BY <1>6, <1>7, PlainSpot
  <2>6. PICK inside \in BOOLEAN : inside = FALSE
    OBVIOUS
  <2>7. inside <=> \/ ForRange[l].step > 0 /\ counter[l] <= ForRange[l].to
                   \/ ForRange[l].step < 0 /\ counter[l] >= ForRange[l].to
    BY <1>5, <1>11, <1>13, <2>6
  <2>8. SourcePc' = IF inside THEN Stmt(k + 1) ELSE Stmt(Semantics!CloseOf(k) + 1)
    BY <1>6, <1>7, <2>4, <2>5, <2>6
  <2>9. SourceStep
    BY <1>5, <2>4, <2>7, <2>8, TestStep
  <2> QED
    BY <2>4, <2>9
<1> QED
  BY <1>12, <1>13

LEMMA ManyAddresses ==
  ASSUME NEW s \in Seq(Nat)
  PROVE  /\ Len(Addresses(s)) = Len(s) /\ DOMAIN Addresses(s) = 1 .. Len(s)
         /\ \A D : (\A k \in DOMAIN s : code[s[k]][1].at \in D) => Addresses(s) \in Seq(D)
<1>1. PICK n \in Nat : n = Len(s) /\ DOMAIN s = 1 .. n
  OBVIOUS
<1>2. PICK f : f = Addresses(s)
  OBVIOUS
<1>3. DOMAIN f = 1 .. n /\ \A k \in 1 .. n : f[k] = code[s[k]][1].at
  BY <1>1, <1>2 DEF Addresses
<1>4. f = [k \in 1 .. n |-> code[s[k]][1].at]
  BY <1>1, <1>2 DEF Addresses
<1>5. ASSUME NEW D, \A k \in DOMAIN s : code[s[k]][1].at \in D
      PROVE  f \in Seq(D)
  <2>1. f \in [1 .. n -> D]
    BY <1>1, <1>4, <1>5
  <2> QED
    BY <2>1
<1>6. Len(f) = n
  <2>1. PICK D : D = {code[s[k]][1].at : k \in DOMAIN s}
    OBVIOUS
  <2>2. f \in Seq(D)
    BY <1>5, <2>1
  <2> QED
    BY <1>3, <2>2
<1> QED
  BY <1>1, <1>2, <1>3, <1>5, <1>6

LEMMA NatBefore == ASSUME NEW l \in Nat, l # 0 PROVE \E m \in Nat : l = m + 1
<1>1. l - 1 \in Nat /\ l = (l - 1) + 1
  OBVIOUS
<1> QED
  BY <1>1

LEMMA AppendIn ==
  ASSUME NEW S, NEW s \in Seq(S), NEW e \in S
  PROVE  /\ Append(s, e) \in Seq(S) /\ Len(Append(s, e)) = Len(s) + 1 /\ Append(s, e)[Len(s) + 1] = e
         /\ \A k \in 1 .. Len(s) : Append(s, e)[k] = s[k]
OBVIOUS

LEMMA FrontIn ==
  ASSUME NEW S, NEW s \in Seq(S), NEW n \in Nat, n <= Len(s)
  PROVE  /\ SubSeq(s, 1, n) \in Seq(S) /\ Len(SubSeq(s, 1, n)) = n
         /\ \A k \in 1 .. n : SubSeq(s, 1, n)[k] = s[k]
OBVIOUS

LEMMA LastAddress ==
  ASSUME NEW s \in Seq(Nat), s # <<>>, NEW front, front = SubSeq(s, 1, Len(s) - 1)
  PROVE  /\ front \in Seq(Nat) /\ Len(front) = Len(s) - 1
         /\ Addresses(s) = Append(Addresses(front), code[s[Len(s)]][1].at)
         /\ Addresses(front) = SubSeq(Addresses(s), 1, Len(s) - 1)
         /\ Addresses(s)[Len(s)] = code[s[Len(s)]][1].at
         /\ \A k \in DOMAIN front : k \in DOMAIN s /\ front[k] = s[k]
<1>1. PICK n \in Nat : Len(s) = n + 1 /\ DOMAIN s = 1 .. n + 1
  <2>1. Len(s) \in Nat /\ Len(s) # 0 /\ DOMAIN s = 1 .. Len(s)
    OBVIOUS
  <2>2. PICK l \in Nat : l = Len(s) /\ l # 0
    BY <2>1
  <2>3. PICK m \in Nat : l = m + 1
    BY ONLY <2>2, NatBefore
  <2> QED
    BY ONLY <2>1, <2>2, <2>3
<1>2. /\ front \in Seq(Nat) /\ Len(front) = n /\ DOMAIN front = 1 .. n
      /\ \A k \in 1 .. n : front[k] = s[k] /\ k \in 1 .. n + 1
  BY <1>1
<1>3. PICK D : D = {code[s[k]][1].at : k \in DOMAIN s}
  OBVIOUS
<1>4. PICK f \in Seq(D) : f = Addresses(s)
  BY <1>3, ManyAddresses
<1>5. PICK g \in Seq(D) : g = Addresses(front)
  <2>1. \A k \in DOMAIN front : code[front[k]][1].at \in D
    BY <1>1, <1>2, <1>3
  <2> QED
    BY <1>2, <2>1, ManyAddresses
<1>6. Len(f) = n + 1 /\ \A k \in 1 .. n + 1 : f[k] = code[s[k]][1].at
  BY <1>1, <1>4, ManyAddresses DEF Addresses
<1>7. Len(g) = n /\ \A k \in 1 .. n : g[k] = code[s[k]][1].at
  BY <1>2, <1>5, ManyAddresses DEF Addresses
<1>8. PICK a \in D : a = code[s[n + 1]][1].at
  BY <1>1, <1>3
<1>9. f = Append(g, a)
  <2>0. g \in Seq(D) /\ a \in D
    BY <1>5, <1>8
  <2>1. PICK h \in Seq(D) : h = Append(g, a)
    BY ONLY <2>0, AppendIn
  <2>2. Len(h) = n + 1 /\ h[n + 1] = a /\ \A k \in 1 .. n : h[k] = g[k]
    BY ONLY <1>7, <2>0, <2>1, AppendIn
  <2>3. \A k \in 1 .. n + 1 : k \in 1 .. n \/ k = n + 1
    OBVIOUS
  <2>4. \A k \in 1 .. Len(f) : f[k] = h[k]
    BY <1>6, <1>7, <1>8, <2>2, <2>3
  <2>5. f = h
    BY <1>6, <2>2, <2>4, SameSeq
  <2> QED
    BY <2>1, <2>5
<1>10. g = SubSeq(f, 1, n)
  <2>0. f \in Seq(D) /\ n \in Nat /\ n <= Len(f)
    BY <1>4, <1>6
  <2>1. PICK h \in Seq(D) : h = SubSeq(f, 1, n)
    BY ONLY <2>0, FrontIn
  <2>2. Len(h) = n /\ \A k \in 1 .. n : h[k] = f[k]
    BY ONLY <2>0, <2>1, FrontIn
  <2>3. \A k \in 1 .. n : k \in 1 .. n + 1
    OBVIOUS
  <2>4. \A k \in 1 .. Len(g) : g[k] = h[k]
    BY <1>6, <1>7, <2>2, <2>3
  <2>5. g = h
    BY <1>7, <2>2, <2>4, SameSeq
  <2> QED
    BY <2>1, <2>5
<1>11. n = Len(s) - 1 /\ f[n + 1] = a /\ n + 1 \in 1 .. n + 1
  BY <1>1, <1>6, <1>8
<1> QED
  BY <1>1, <1>2, <1>4, <1>5, <1>8, <1>9, <1>10, <1>11

\* A gosub has happened when its branch is done.
LEMMA GosubRuns ==
  ASSUME NEW start, Settled(start), RunOK, Generated, outcome = "running",
         UNCHANGED <<stack, counter, outcome>>, NEW x, x = Current, x.op = "br",
         NEW k, x.at = Stmt(k), k \in DOMAIN body, body[k].op = "gosub",
         NEW t, block' = t, instr' = 1, NEW spot, Reaches(t, 1, spot),
         spot = Stmt(Semantics!LabelPos(body[k].arg) + 1)
  PROVE  RunOK' /\ SourceStep
<1>1. /\ x \in AnyInstr /\ Right(x, start) /\ SourcePc = Stmt(k) /\ SourceCalls = Called(stack, Spot(x))
  BY SourceIs
<1>2. Spot(x) = <<k, "pushed">>
  BY DEF Spot, Stmt
<1>3. /\ stack \in Seq(Nat) /\ Len(stack) <= GosubDepth /\ stack # <<>> /\ Pushes(stack[Len(stack)], k)
      /\ counter' \in [Loops -> Int] /\ outcome' = "running" /\ stack' = stack
  BY <1>2 DEF RunOK, UnderWay
<1>4. PICK front : front = SubSeq(stack, 1, Len(stack) - 1)
  OBVIOUS
<1>5. /\ Addresses(stack) = Append(Addresses(front), Stmt(k + 1))
      /\ Len(Addresses(front)) = Len(stack) - 1
  <2>1. code[stack[Len(stack)]][1].at = Stmt(k + 1)
    BY <1>3, PushedBegins
  <2>2. front \in Seq(Nat) /\ Len(front) = Len(stack) - 1
    BY <1>3, <1>4, LastAddress
  <2>3. PICK r : r = code[stack[Len(stack)]][1].at
    OBVIOUS
  <2>4. Addresses(stack) = Append(Addresses(front), r)
    BY ONLY <1>3, <1>4, <2>3, LastAddress
  <2>5. Len(Addresses(front)) = Len(front)
    BY ONLY <2>2, ManyAddresses
  <2> QED
    BY ONLY <2>1, <2>2, <2>3, <2>4, <2>5
<1>6. SourceCalls = Addresses(front)
  BY <1>1, <1>2, <1>4 DEF Called
<1>7. SignKnown(spot) /\ spot[2] # "pushed" /\ PointOf(spot) = spot
  BY PlainSpot DEF Stmt
<1>8. RunOK' /\ SourceCalls' = Addresses(stack) /\ SourcePc' = spot
  BY <1>3, <1>7, MovedOn
<1>9. body' = body /\ counter' = counter
  BY SameCode
<1>10. Semantics!Gosub
  <2>1. SourcePc[1] = k /\ SourcePc[2] = "at"
    BY <1>1 DEF Stmt
  <2>2. Len(SourceCalls) < GosubDepth
    <3>1. Len(stack) \in Nat
      BY <1>3
    <3> QED
      BY <1>3, <1>5, <1>6, <3>1, DepthIsPositive
  <2>3. SourceCalls' = Append(SourceCalls, <<SourcePc[1] + 1, "at">>)
    BY <1>5, <1>6, <1>8, <2>1 DEF Stmt
  <2>4. SourcePc' = <<Semantics!LabelPos(body[SourcePc[1]].arg) + 1, "at">>
    BY <1>8, <2>1 DEF Stmt
  <2>5. Semantics!At("gosub")
    BY <2>1 DEF Semantics!At
  <2> QED
    BY <1>9, <2>2, <2>3, <2>4, <2>5 DEF Semantics!Gosub, Semantics!After, Semantics!GoTo, Semantics!Arg
<1> QED
  BY <1>8, <1>10 DEF SourceStep, Semantics!Step

LEMMA BrRuns ==
  ASSUME NEW start, Settled(start), RunOK, RunBr, Generated
  PROVE  RunOK' /\ SourceStep
<1>1. PICK x : x = Current
  OBVIOUS
<1>2. x.op = "br" /\ outcome = "running" /\ UNCHANGED <<stack, counter, outcome>> /\ block' = x.to[1] /\ instr' = 1
  BY <1>1 DEF RunBr, AtInstr, GoToBlock
<1>3. /\ x \in AnyInstr /\ Right(x, start) /\ SourcePc = x.at
      /\ block \in inserted /\ instr \in DOMAIN code[block] /\ x = code[block][instr]
  BY <1>1, <1>2, SourceIs DEF Current
<1>4. Branches(x, start)
  BY <1>2, <1>3 DEF Right, Computes, Chooses, Returns
<1>5. PICK k : k = x.at[1]
  OBVIOUS
<1>6. PICK t : t = x.to[1]
  OBVIOUS
<1>7. \A spot : To1(x, start, spot) => Reaches(t, 1, spot)
  BY <1>3, <1>6, Leads
<1>8. CASE OfTest(x) /\ To1(x, start, Test(k))
  <2>1. PICK spot : spot = Test(k)
    OBVIOUS
  <2>2. x.at = spot /\ Spot(x)[2] # "pushed"
    BY <1>2, <1>5, <1>8, <2>1 DEF OfTest, Spot, Test
  <2>3. Reaches(t, 1, spot) /\ SignKnown(spot) /\ spot[2] # "pushed" /\ PointOf(spot) = spot
    BY <1>7, <1>8, <2>1, PlainSpot DEF Test
  <2>4. RunOK' /\ SourcePc = x.at /\ SourcePc' = spot /\ UNCHANGED <<body, SourceCalls, counter>>
    BY <1>1, <1>2, <1>6, <2>2, <2>3, Jumps
  <2> QED
    BY <2>2, <2>4 DEF SourceStep, Semantics!vars
<1>9. ASSUME x.at = Stmt(k), k \in DOMAIN body, NEW spot, BrGoes(k, spot), To1(x, start, spot)
      PROVE  RunOK' /\ SourceStep
  <2>1. Reaches(t, 1, spot)
    BY <1>7, <1>9
  <2>2. CASE body[k].op = "gosub"
    <3>1. spot = Stmt(Semantics!LabelPos(body[k].arg) + 1)
      BY <1>9, <2>2 DEF BrGoes
    <3> QED
      BY <1>1, <1>2, <1>6, <1>9, <2>1, <2>2, <3>1, GosubRuns
  <2>3. CASE body[k].op # "gosub"
    <3>1. Spot(x)[2] # "pushed"
      BY <1>2, <1>9, <2>3 DEF Spot, Stmt
    <3>2. SignKnown(spot) /\ spot[2] # "pushed" /\ PointOf(spot) = spot
      BY <1>9, PlainSpot DEF BrGoes, Stmt
    <3>3. RunOK' /\ SourcePc = Stmt(k) /\ SourcePc' = spot /\ UNCHANGED <<body, SourceCalls, counter>>
      BY <1>1, <1>2, <1>6, <1>9, <2>1, <3>1, <3>2, Jumps
    <3>4. SourcePc[1] = k /\ SourcePc[2] = "at"
      BY <3>3 DEF Stmt
    <3>5. ASSUME NEW j, spot = Stmt(j + 1)
          PROVE  Semantics!Only(Semantics!After(j))
      BY <3>3, <3>5 DEF Semantics!Only, Semantics!After, Semantics!GoTo, Stmt
    <3>6. CASE body[k].op \in {"label", "endif"}
      <4>1. spot = Stmt(SourcePc[1] + 1)
        BY <1>9, <3>4, <3>6 DEF BrGoes
      <4>2. Semantics!Walk
        BY <1>9, <3>4, <3>5, <3>6, <4>1 DEF Semantics!Walk, Semantics!At
      <4> QED
        BY <3>3, <4>2 DEF SourceStep, Semantics!Step
    <3>7. CASE body[k].op = "loop"
      <4>1. spot = Stmt(SourcePc[1] + 1)
        BY <1>9, <3>4, <3>7 DEF BrGoes
      <4>2. Semantics!Loop
        BY <1>9, <3>4, <3>5, <3>7, <4>1 DEF Semantics!Loop, Semantics!At
      <4> QED
        BY <3>3, <4>2 DEF SourceStep, Semantics!Step
    <3>8. CASE body[k].op = "goto"
      <4>1. spot = Stmt(Semantics!LabelPos(body[SourcePc[1]].arg) + 1)
        BY <1>9, <3>4, <3>8 DEF BrGoes
      <4>2. Semantics!Goto
        BY <1>9, <3>4, <3>5, <3>8, <4>1 DEF Semantics!Goto, Semantics!At, Semantics!Arg
      <4> QED
        BY <3>3, <4>2 DEF SourceStep, Semantics!Step
    <3>9. CASE body[k].op = "else"
      <4>1. spot = Stmt(EndifOf(k) + 1)
        BY <1>9, <3>9 DEF BrGoes
      <4>2. EndifOf(k) = Semantics!First({j \in SourcePc[1] .. Len(body) : Semantics!Open(SourcePc[1], j) = -1})
        BY <3>4 DEF EndifOf
      <4>3. Semantics!Else
        BY <1>9, <3>4, <3>5, <3>9, <4>1, <4>2 DEF Semantics!Else, Semantics!At
      <4> QED
        BY <3>3, <4>3 DEF SourceStep, Semantics!Step
    <3>10. CASE body[k].op = "endloop"
      <4>1. spot = Stmt(Semantics!OpenOf(SourcePc[1]) + 1)
        BY <1>9, <3>4, <3>10 DEF BrGoes
      <4>2. Semantics!Endloop
        BY <1>9, <3>4, <3>5, <3>10, <4>1 DEF Semantics!Endloop, Semantics!At
      <4> QED
        BY <3>3, <4>2 DEF SourceStep, Semantics!Step
    <3>11. CASE body[k].op = "exit"
      <4>1. spot = Stmt(Semantics!CloseOf(Semantics!LoopPos(body[SourcePc[1]].arg)) + 1)
        BY <1>9, <3>4, <3>11 DEF BrGoes
      <4>2. Semantics!Exit
        BY <1>9, <3>4, <3>5, <3>11, <4>1 DEF Semantics!Exit, Semantics!At, Semantics!Arg
      <4> QED
        BY <3>3, <4>2 DEF SourceStep, Semantics!Step
    <3>12. CASE body[k].op = "next"
      <4>1. spot = Stmt(k)
        BY <1>9, <3>12 DEF BrGoes
      <4> QED
        BY <3>3, <4>1 DEF SourceStep, Semantics!vars
    <3> QED
      BY <1>9, <2>3, <3>6, <3>7, <3>8, <3>9, <3>10, <3>11, <3>12 DEF BrGoes
  <2> QED
    BY <2>2, <2>3
<1> QED
  BY <1>4, <1>5, <1>8, <1>9 DEF Branches

\* The run stops where it is: at an instruction that is no half of a gosub.
LEMMA Stops ==
  ASSUME NEW start, Settled(start), RunOK, Generated, outcome = "running", NEW x, x = Current, x.op # "br",
         outcome' \in {"halted", "undefined"}, UNCHANGED <<block, instr, stack, counter>>,
         UndefinedOnlyAtTheStackLimits'
  PROVE  RunOK' /\ UNCHANGED <<body, SourceCalls, counter>> /\ SourceCalls = Addresses(stack) /\ SourcePc = x.at
<1>1. /\ x \in AnyInstr /\ Right(x, start) /\ SourcePc = x.at /\ SourceCalls = Called(stack, Spot(x))
      /\ block \in inserted /\ instr \in DOMAIN code[block] /\ x = code[block][instr]
  BY SourceIs DEF Current
<1>2. Spot(x)[2] # "pushed"
  BY <1>1, SpotIs
<1>3. PICK b : b = block
  OBVIOUS
<1>4. PICK i : i = instr
  OBVIOUS
<1>5. PICK s : s = stack
  OBVIOUS
<1>6. PICK spot : spot = Spot(x)
  OBVIOUS
<1>7. Reaches(b, i, spot)
  BY <1>1, <1>3, <1>4, <1>6 DEF Reaches
<1>8. /\ s \in Seq(Nat) /\ Len(s) <= GosubDepth /\ PushedAll(s) /\ UnderWay(s, spot)
      /\ SignKnown(spot) /\ counter' \in [Loops -> Int]
  BY <1>5, <1>6 DEF RunOK
<1>9. b = block' /\ i = instr' /\ s = stack' /\ outcome' \in {"running", "halted", "undefined"}
  BY <1>3, <1>4, <1>5
<1>10. RunOK' /\ SourceCalls' = Called(s, spot)
  BY <1>2, <1>6, <1>7, <1>8, <1>9, Moved
<1>11. body' = body
  BY SameCode
<1> QED
  BY <1>1, <1>2, <1>5, <1>6, <1>10, <1>11 DEF Called

\* A push is not a step of the source, unless it has no slot left.
LEMMA PushRuns ==
  ASSUME NEW start, Settled(start), RunOK, RunPush, Generated
  PROVE  RunOK' /\ SourceStep
<1>1. PICK x : x = Current
  OBVIOUS
<1>2. x.op = "push" /\ outcome = "running" /\ counter' = counter
  BY <1>1 DEF RunPush, AtInstr
<1>3. /\ x \in AnyInstr /\ Right(x, start) /\ SourcePc = x.at /\ SourceCalls = Called(stack, Spot(x))
      /\ block \in inserted /\ instr \in DOMAIN code[block] /\ x = code[block][instr]
  BY <1>1, <1>2, SourceIs DEF Current
<1>4. OfStmt(x, "gosub")
  BY <1>2, <1>3 DEF Right, Computes, Branches, Chooses, Returns
<1>5. PICK k : k = x.at[1]
  OBVIOUS
<1>6. x.at = Stmt(k) /\ k \in DOMAIN body /\ body[k].op = "gosub"
  BY <1>4, <1>5 DEF OfStmt
<1>7. SourceCalls = Addresses(stack)
  BY <1>2, <1>3, SpotIs DEF Called
<1>8. /\ stack \in Seq(Nat) /\ Len(stack) \in Nat /\ Len(stack) <= GosubDepth
      /\ \A i \in DOMAIN stack : \E j : Pushes(stack[i], j)
      /\ counter' \in [Loops -> Int]
  BY <1>2 DEF RunOK, PushedAll
<1>9. PICK r : r = x.to[1]
  OBVIOUS
<1>10. Pushes(r, k)
  BY <1>2, <1>3, <1>6, <1>9 DEF Pushes
<1>11. r \in Nat
  BY <1>10, PushedBegins
<1>12. CASE Len(stack) < GosubDepth /\ stack' = Append(stack, r) /\ Fall /\ UNCHANGED outcome
  <2>1. PICK s : s = Append(stack, r)
    OBVIOUS
  <2>2. /\ s \in Seq(Nat) /\ Len(s) = Len(stack) + 1 /\ s[Len(stack) + 1] = r
        /\ \A i \in 1 .. Len(stack) : s[i] = stack[i]
    BY ONLY <1>8, <1>11, <2>1, AppendIn
  <2>3. s # <<>> /\ Len(s) <= GosubDepth /\ s[Len(s)] = r
    BY <1>8, <1>12, <2>2, DepthIsPositive
  <2>4. PushedAll(s)
    <3> SUFFICES ASSUME NEW i \in DOMAIN s PROVE \E j : Pushes(s[i], j)
      BY DEF PushedAll
    <3>1. CASE i \in 1 .. Len(stack)
      <4>1. i \in DOMAIN stack /\ s[i] = stack[i]
        BY <1>8, <2>2, <3>1
      <4> QED
        BY <1>8, <4>1
    <3>2. CASE i \notin 1 .. Len(stack)
      <4>1. i = Len(stack) + 1
        BY <1>8, <2>2, <3>2
      <4> QED
        BY <1>10, <2>2, <4>1
    <3> QED
      BY <3>1, <3>2
  <2>5. PICK b : b = block
    OBVIOUS
  <2>6. PICK i : i = instr + 1
    OBVIOUS
  <2>7. PICK spot : spot = <<k, "pushed">>
    OBVIOUS
  <2>8. Reaches(b, i, spot)
    <3>1. x.op \notin Terminators
      BY <1>2 DEF Terminators
    <3>2. Then(x) = spot
      BY <1>2, <1>5, <2>7 DEF Then
    <3> QED
      BY <1>3, <2>5, <2>6, <3>1, <3>2, GoesOn
  <2>9. SignKnown(spot) /\ spot[2] = "pushed" /\ spot[1] = k /\ PointOf(spot) = Stmt(k)
    BY <2>7 DEF SignKnown, PointOf
  <2>10. b = block' /\ i = instr' /\ s = stack' /\ outcome' = "running" /\ outcome' \in {"running", "halted", "undefined"}
    BY <1>2, <1>12, <2>1, <2>5, <2>6 DEF Fall
  <2>11. UndefinedOnlyAtTheStackLimits'
    BY <2>10 DEF UndefinedOnlyAtTheStackLimits
  <2>12. UnderWay(s, spot)
    BY <1>10, <2>3, <2>9 DEF UnderWay
  <2>13. RunOK' /\ SourceCalls' = Called(s, spot) /\ SourcePc' = PointOf(spot)
    BY <1>8, <2>2, <2>3, <2>4, <2>8, <2>9, <2>10, <2>11, <2>12, Moved
  <2>14. SubSeq(s, 1, Len(s) - 1) = stack
    <3>1. Len(s) - 1 = Len(stack) /\ Len(stack) <= Len(s)
      BY <1>8, <2>2
    <3>2. PICK h \in Seq(Nat) : h = SubSeq(s, 1, Len(stack))
      BY ONLY <1>8, <2>2, <3>1, FrontIn
    <3>3. Len(h) = Len(stack) /\ \A j \in 1 .. Len(stack) : h[j] = s[j]
      BY ONLY <1>8, <2>2, <3>1, <3>2, FrontIn
    <3>4. h = stack
      <4>1. \A j \in 1 .. Len(h) : h[j] = stack[j]
        BY <2>2, <3>3
      <4> QED
        BY <1>8, <3>2, <3>3, <4>1, SameSeq
    <3> QED
      BY <3>1, <3>2, <3>4
  <2>15. SourceCalls' = Addresses(stack)
    BY <2>9, <2>13, <2>14 DEF Called
  <2>16. body' = body
    BY SameCode
  <2> QED
    BY <1>2, <1>3, <1>6, <1>7, <2>9, <2>13, <2>15, <2>16 DEF SourceStep, Semantics!vars
<1>13. CASE Len(stack) >= GosubDepth /\ outcome' = "undefined" /\ Stay /\ UNCHANGED stack
  <2>1. UNCHANGED <<block, instr, stack, counter>>
    BY <1>2, <1>13 DEF Stay
  <2>2. Len(stack) = GosubDepth
    BY <1>8, <1>13, DepthIsPositive
  <2>3. Current' = x
    BY <1>1, <2>1, SameCode DEF Current
  <2>4. UndefinedOnlyAtTheStackLimits'
    BY <1>2, <2>1, <2>2, <2>3 DEF UndefinedOnlyAtTheStackLimits
  <2>5. RunOK' /\ UNCHANGED <<body, SourceCalls, counter>>
    BY <1>1, <1>2, <1>13, <2>1, <2>4, Stops
  <2>6. Len(SourceCalls) = GosubDepth
    <3>1. Len(Addresses(stack)) = Len(stack)
      BY ONLY <1>8, ManyAddresses
    <3> QED
      BY ONLY <1>7, <2>2, <3>1
  <2>7. SourcePc' = Semantics!Undefined
    <3>1. SourcePc' = <<0, "undefined">>
      BY <1>13, SameCode DEF SourcePc, Settled
    <3>2. Semantics!Undefined = <<0, "undefined">>
      BY DEF Semantics!Undefined
    <3> QED
      BY <3>1, <3>2
  <2>8. Semantics!At("gosub")
    BY <1>3, <1>6 DEF Semantics!At, Stmt
  <2>9. Semantics!Gosub
    BY <2>5, <2>6, <2>7, <2>8 DEF Semantics!Gosub
  <2> QED
    BY <2>5, <2>9 DEF SourceStep, Semantics!Step
<1> QED
  BY <1>1, <1>9, <1>12, <1>13 DEF RunPush

\* A return goes on behind the last gosub, or there was none.
LEMMA ReturnRuns ==
  ASSUME NEW start, Settled(start), RunOK, RunReturn, Generated, ReturnsReachEveryGosub
  PROVE  RunOK' /\ SourceStep
<1>1. PICK x : x = Current
  OBVIOUS
<1>2. x.op = "indirectbr" /\ outcome = "running" /\ counter' = counter
  BY <1>1 DEF RunReturn, AtInstr
<1>3. /\ x \in AnyInstr /\ Right(x, start) /\ SourcePc = x.at /\ SourceCalls = Called(stack, Spot(x))
      /\ block \in inserted /\ instr \in DOMAIN code[block] /\ x = code[block][instr]
  BY <1>1, <1>2, SourceIs DEF Current
<1>4. OfStmt(x, "return")
  BY <1>2, <1>3 DEF Right, Computes, Branches, Chooses, Returns
<1>5. Semantics!At("return")
  BY <1>3, <1>4 DEF OfStmt, Semantics!At, Stmt
<1>6. SourceCalls = Addresses(stack)
  BY <1>2, <1>3, SpotIs DEF Called
<1>7. /\ stack \in Seq(Nat) /\ Len(stack) \in Nat /\ Len(stack) <= GosubDepth
      /\ \A i \in DOMAIN stack : \E j : Pushes(stack[i], j)
      /\ counter' \in [Loops -> Int]
  BY <1>2 DEF RunOK, PushedAll
<1>8. dests[block] = returnPoints
  <2>1. <<block, x>> \in Content(code)
    BY <1>3, InFunction
  <2>2. Knows(Content(code), returnPoints, dests)
    BY DEF Settled, Traced
  <2>3. block \in DOMAIN dests
    BY <1>2, <2>1, <2>2 DEF Knows
  <2> QED
    BY <2>3 DEF ReturnsReachEveryGosub
<1>9. ASSUME stack # <<>>
      PROVE  \E j : Pushes(stack[Len(stack)], j)
  <2>1. Len(stack) \in DOMAIN stack
    BY <1>7, <1>9
  <2> QED
    BY <1>7, <2>1
<1>10. CASE ReturnIsDefined /\ GoToBlock(stack[Len(stack)]) /\ stack' = SubSeq(stack, 1, Len(stack) - 1) /\ UNCHANGED outcome
  <2>1. stack # <<>>
    BY <1>10 DEF ReturnIsDefined
  <2>2. PICK r : r = stack[Len(stack)]
    OBVIOUS
  <2>3. PICK j : Pushes(r, j)
    BY <1>9, <2>1, <2>2
  <2>4. Reaches(r, 1, Stmt(j + 1)) /\ code[r][1].at = Stmt(j + 1)
    BY <2>3, PushedBegins
  <2>5. PICK s : s = SubSeq(stack, 1, Len(stack) - 1)
    OBVIOUS
  <2>6. /\ s \in Seq(Nat) /\ Len(s) = Len(stack) - 1
        /\ Addresses(s) = SubSeq(Addresses(stack), 1, Len(stack) - 1)
        /\ Addresses(stack)[Len(stack)] = code[stack[Len(stack)]][1].at
        /\ \A i \in DOMAIN s : i \in DOMAIN stack /\ s[i] = stack[i]
    BY ONLY <1>7, <2>1, <2>5, LastAddress
  <2>7. Len(s) <= GosubDepth /\ PushedAll(s)
    <3>1. Len(stack) - 1 <= GosubDepth
      BY <1>7, DepthIsPositive
    <3> QED
      BY <1>7, <2>6, <3>1 DEF PushedAll
  <2>8. PICK spot : spot = Stmt(j + 1)
    OBVIOUS
  <2>9. SignKnown(spot) /\ PointOf(spot) = spot /\ spot[2] # "pushed" /\ UnderWay(s, spot)
    BY <2>8, PlainSpot DEF Stmt, UnderWay
  <2>10. PICK one : one = 1
    OBVIOUS
  <2>11. r = block' /\ one = instr' /\ s = stack' /\ outcome' = "running" /\ outcome' \in {"running", "halted", "undefined"}
    BY <1>2, <1>10, <2>2, <2>5, <2>10 DEF GoToBlock
  <2>12. UndefinedOnlyAtTheStackLimits'
    BY <2>11 DEF UndefinedOnlyAtTheStackLimits
  <2>13. RunOK' /\ SourceCalls' = Called(s, spot) /\ SourcePc' = PointOf(spot)
    BY <1>7, <2>4, <2>6, <2>7, <2>8, <2>9, <2>10, <2>11, <2>12, Moved
  <2>14. SourceCalls' = SubSeq(Addresses(stack), 1, Len(stack) - 1)
    BY <2>6, <2>9, <2>13 DEF Called
  <2>15. SourcePc' = Addresses(stack)[Len(stack)]
    BY <2>2, <2>4, <2>6, <2>8, <2>9, <2>13
  <2>16. Len(Addresses(stack)) = Len(stack)
    BY ONLY <1>7, ManyAddresses
  <2>17. SourceCalls # <<>>
    <3>1. Len(stack) # 0
      BY <1>7, <2>1
    <3> QED
      BY <1>6, <2>16, <3>1
  <2>18. SourceCalls[Len(SourceCalls)] = Addresses(stack)[Len(stack)] /\ Len(SourceCalls) = Len(stack)
    BY <1>6, <2>16
  <2>19. body' = body
    BY SameCode
  <2>20. Semantics!Return
    BY <1>2, <1>5, <1>6, <2>14, <2>15, <2>17, <2>18, <2>19 DEF Semantics!Return
  <2> QED
    BY <2>13, <2>20 DEF SourceStep, Semantics!Step
<1>11. CASE ~ReturnIsDefined /\ outcome' = "undefined" /\ Stay /\ UNCHANGED stack
  <2>1. UNCHANGED <<block, instr, stack, counter>>
    BY <1>2, <1>11 DEF Stay
  <2>2. stack = <<>>
    <3> SUFFICES ASSUME stack # <<>> PROVE FALSE
      OBVIOUS
    <3>1. PICK j : Pushes(stack[Len(stack)], j)
      BY <1>9
    <3>2. stack[Len(stack)] \in returnPoints
      BY <3>1, PushedBegins
    <3> QED
      BY <1>8, <1>11, <3>2 DEF ReturnIsDefined
  <2>3. Current' = x
    BY <1>1, <2>1, SameCode DEF Current
  <2>4. UndefinedOnlyAtTheStackLimits'
    BY <1>2, <2>1, <2>2, <2>3 DEF UndefinedOnlyAtTheStackLimits
  <2>5. RunOK' /\ UNCHANGED <<body, SourceCalls, counter>>
    BY <1>1, <1>2, <1>11, <2>1, <2>4, Stops
  <2>6. SourceCalls = <<>>
    BY <1>6, <2>2 DEF Addresses
  <2>7. SourcePc' = Semantics!Undefined
    <3>1. SourcePc' = <<0, "undefined">>
      BY <1>11, SameCode DEF SourcePc, Settled
    <3>2. Semantics!Undefined = <<0, "undefined">>
      BY DEF Semantics!Undefined
    <3> QED
      BY <3>1, <3>2
  <2>8. Semantics!Return
    BY <1>5, <2>5, <2>6, <2>7 DEF Semantics!Return
  <2> QED
    BY <2>5, <2>8 DEF SourceStep, Semantics!Step
<1> QED
  BY <1>10, <1>11 DEF RunReturn

LEMMA RetRuns ==
  ASSUME NEW start, Settled(start), RunOK, RunRet, Generated
  PROVE  RunOK' /\ SourceStep
<1>1. PICK x : x = Current
  OBVIOUS
<1>2. x.op = "ret" /\ outcome = "running" /\ UNCHANGED <<block, instr, stack, counter>> /\ outcome' = "halted"
  BY <1>1 DEF RunRet, AtInstr, Stay
<1>3. x \in AnyInstr /\ Right(x, start)
  BY <1>1, <1>2, SourceIs
<1>4. OfStmt(x, "end") \/ x.at = Stmt(Len(body) + 1)
  BY <1>2, <1>3 DEF Right, Computes, Branches, Chooses, Returns
<1>5. RunOK' /\ UNCHANGED <<body, SourceCalls, counter>> /\ SourcePc = x.at
  <2>1. UndefinedOnlyAtTheStackLimits'
    BY <1>2 DEF UndefinedOnlyAtTheStackLimits
  <2> QED
    BY <1>1, <1>2, <2>1, Stops
<1>6. SourcePc' = Semantics!Halted
  <2>1. SourcePc' = <<0, "halted">>
    BY <1>2, SameCode DEF SourcePc, Settled
  <2>2. Semantics!Halted = <<0, "halted">>
    BY DEF Semantics!Halted
  <2> QED
    BY <2>1, <2>2
<1>7. Semantics!At("end") \/ SourcePc = <<Len(body) + 1, "at">>
  BY <1>4, <1>5 DEF OfStmt, Semantics!At, Stmt
<1>8. Semantics!End
  BY <1>5, <1>6, <1>7 DEF Semantics!End, Semantics!Only
<1> QED
  BY <1>5, <1>8 DEF SourceStep, Semantics!Step

-----------------------------------------------------------------------------
(* From the generation to the run.                                         *)

LEMMA AcceptedSettles ==
  ASSUME Building, Laid, VerdictIsExact, status = "accepted"
  PROVE  \E start : Settled(start)
<1>1. WellFormed
  BY DEF Building, Verdict
<1>2. NoExit
  BY DEF VerdictIsExact, Local, NoExit
<1>3. PICK start : Traced(start)
  BY <1>2 DEF Laid
<1> QED
  BY <1>1, <1>3 DEF Settled

Begun == status = "accepted" /\ RunInit => RunOK /\ Current.at = Stmt(1)

\* The run begins where the source does.
LEMMA RunBegins == Building /\ Laid /\ VerdictIsExact => Begun
<1> SUFFICES ASSUME Building, Laid, VerdictIsExact, status = "accepted", RunInit
             PROVE  RunOK /\ Current.at = Stmt(1)
  BY DEF Begun
<1>1. PICK start : Settled(start)
  BY AcceptedSettles
<1>2. 1 \in inserted /\ Starts(start, 1, Stmt(1))
  BY <1>1 DEF Settled, Traced
<1>3. PICK b \in inserted : b = 1
  BY <1>2
<1>4. PICK spot : spot = Stmt(1)
  OBVIOUS
<1>5. Reaches(b, 1, spot)
  BY <1>1, <1>2, <1>3, <1>4, BlockBegins
<1>6. PICK x : x = code[b][1]
  OBVIOUS
<1>7. block = b /\ instr = 1 /\ Current = x /\ stack = <<>> /\ counter = [l \in Loops |-> 0] /\ outcome = "running"
  BY <1>3, <1>6 DEF RunInit, Current
<1>8. 1 \in DOMAIN code[b] /\ Spot(x) = spot
  BY <1>5, <1>6 DEF Reaches
<1>9. x \in AnyInstr /\ Right(x, start)
  <2>1. PICK i \in DOMAIN code[b] : i = 1
    BY <1>3, <1>8
  <2> QED
    BY <1>1, <1>6, <2>1, InFunction
<1>10. x.at = Stmt(1)
  <2>1. x.at = PointOf(Spot(x))
    BY <1>9, SpotIs
  <2> QED
    BY <1>4, <1>8, <2>1, PlainSpot
<1>11. SignKnown(spot) /\ UnderWay(stack, spot)
  BY <1>4, PlainSpot DEF UnderWay, Stmt
<1>12. stack \in Seq(Nat) /\ Len(stack) <= GosubDepth /\ PushedAll(stack)
  <2>1. PICK s : s = <<>>
    OBVIOUS
  <2>2. s \in Seq(Nat) /\ Len(s) = 0 /\ DOMAIN s = {}
    BY <2>1
  <2>3. 0 <= GosubDepth
    BY DepthIsPositive
  <2> QED
    BY <1>7, <2>1, <2>2, <2>3 DEF PushedAll
<1>13. counter \in [Loops -> Int]
  BY <1>7
<1>14. UndefinedOnlyAtTheStackLimits
  BY <1>7 DEF UndefinedOnlyAtTheStackLimits
<1> QED
  BY <1>3, <1>7, <1>8, <1>10, <1>11, <1>12, <1>13, <1>14 DEF RunOK

\* While the function is generated, the source has not begun; and it is refused
\* when nothing comes of the function.
LEMMA SourceWaits ==
  ASSUME RunInit
  PROVE  /\ status \in {"generate", "verify"} => SourcePc = <<1, "at">> /\ SourceCalls = <<>>
         /\ status \in {"crashed", "rejected"} => SourcePc = <<0, "refused">> /\ SourceCalls = <<>>
<1>1. outcome = "running" /\ stack = <<>> /\ instr = 1
  BY DEF RunInit
<1>2. status \in {"generate", "verify"} => SourcePc = <<1, "at">>
  BY <1>1 DEF SourcePc
<1>3. status \in {"crashed", "rejected"} => SourcePc = <<0, "refused">>
  BY <1>1 DEF SourcePc
<1>4. status # "accepted" => SourceCalls = <<>>
  BY <1>1 DEF SourceCalls
<1> QED
  BY <1>2, <1>3, <1>4

LEMMA SourceBegins ==
  ASSUME RunInit, Current.at = Stmt(1), status = "accepted"
  PROVE  SourcePc = <<1, "at">> /\ SourceCalls = <<>>
<1>1. outcome = "running" /\ stack = <<>> /\ instr = 1
  BY DEF RunInit
<1>2. SourcePc = <<1, "at">>
  BY <1>1 DEF SourcePc, Stmt
<1>3. SourceCalls = <<>>
  BY <1>1 DEF SourceCalls
<1> QED
  BY <1>2, <1>3

\* Where the source is before the run has done anything.
AtFirst ==
  RunInit =>
    /\ (status \in {"generate", "verify"} \/ (status = "accepted" /\ Current.at = Stmt(1))) =>
         SourcePc = <<1, "at">> /\ SourceCalls = <<>>
    /\ status \in {"crashed", "rejected"} => SourcePc = <<0, "refused">> /\ SourceCalls = <<>>
LEMMA BeginsAtFirst == AtFirst
BY SourceWaits, SourceBegins DEF AtFirst

\* What is accepted compiles, by the text, and what is not does not.
Judged ==
  /\ status = "accepted" => Semantics!Compiles
  /\ status \in {"crashed", "rejected"} => ~Semantics!Compiles

LEMMA AcceptedCompiles == Building /\ VerdictIsExact => Judged
<1> SUFFICES ASSUME Building, VerdictIsExact
             PROVE  /\ status = "accepted" => Semantics!Compiles
                    /\ status \in {"crashed", "rejected"} => ~Semantics!Compiles
  BY DEF Judged
<1> DEFINE Good(i) == Local(body[i]) /\ body[i].op # "unhandled"
<1>1. \A i \in DOMAIN body : body[i].op = "label" => body[i].arg # NULL
  BY BodiesAreItems DEF Building, TypeOK
<1>2. \A l : l \in OwnLabels <=> \E j \in DOMAIN body : body[j].op = "label" /\ body[j].arg = l
  BY DEF OwnLabels
<1>3. Semantics!Compiles <=> \A i \in DOMAIN body : Good(i)
  BY <1>2 DEF Semantics!Compiles, Local
<1>4. \A i \in DOMAIN body : Crashes(body[i]) => ~Good(i)
  BY <1>1, <1>2 DEF Crashes, Local
<1>5. CASE status = "accepted"
  <2>1. \A i \in DOMAIN body : Local(body[i]) /\ ~Crashes(body[i])
    BY <1>5 DEF VerdictIsExact
  <2> QED
    BY <1>3, <1>5, <2>1 DEF Crashes
<1>6. CASE status = "crashed"
  BY <1>3, <1>4, <1>6 DEF VerdictIsExact
<1>7. CASE status = "rejected"
  BY <1>3, <1>7 DEF VerdictIsExact
<1> QED
  BY <1>5, <1>6, <1>7

\* The generator leaves the source where it is, until it refuses it.
LEMMA GenSteps ==
  ASSUME Running, Begun', AtFirst, AtFirst', Building', Judged', GenNextStep, UNCHANGED runVars
  PROVE  Running' /\ [Semantics!Next]_(Semantics!vars)
<1>1. status \in {"generate", "verify"} /\ body' = body
  <2>1. CASE GenExec \/ GenLabel \/ GenGoto \/ GenGosub \/ GenReturn \/ GenCrash
    BY <2>1 DEF GenExec, GenLabel, GenGoto, GenGosub, GenReturn, GenCrash, AtOp, Advance
  <2>2. CASE GenIf \/ GenElse \/ GenEndif \/ GenLoop \/ GenEndloop \/ GenFor \/ GenNext
    BY <2>2 DEF GenIf, GenElse, GenEndif, GenLoop, GenEndloop, GenFor, GenNext, AtOp, Advance
  <2>3. CASE GenExit \/ GenEnd \/ GenExitFunction \/ GenFinish \/ Verify
    BY <2>3 DEF GenExit, GenEnd, GenExitFunction, GenFinish, Verify, AtOp, Advance
  <2> QED
    BY <2>1, <2>2, <2>3 DEF GenNextStep
<1>2. RunInit /\ RunInit' /\ counter' = counter
  BY <1>1 DEF Running, RunInit, runVars
<1>3. SourcePc = <<1, "at">> /\ SourceCalls = <<>>
  BY <1>1, <1>2 DEF AtFirst
<1>4. Running'
  BY <1>2 DEF Running, Begun
<1>5. CASE status' \in {"generate", "verify", "accepted"}
  <2>1. SourcePc' = <<1, "at">> /\ SourceCalls' = <<>>
    BY <1>2, <1>5 DEF Begun, AtFirst
  <2> QED
    BY <1>1, <1>2, <1>3, <1>4, <2>1 DEF Semantics!vars
<1>6. CASE status' \in {"crashed", "rejected"}
  <2>1. SourcePc' = <<0, "refused">> /\ SourceCalls' = <<>>
    BY <1>2, <1>6 DEF AtFirst
  <2>2. Semantics!Compiles' <=> Semantics!Compiles
    BY <1>1 DEF Semantics!Compiles
  <2>3. ~Semantics!Compiles
    BY <1>6, <2>2 DEF Judged
  <2>4. Semantics!Refuse
    BY <1>1, <1>2, <1>3, <2>1 DEF Semantics!Refuse, Semantics!Only, Semantics!Refused
  <2> QED
    BY <1>4, <2>3, <2>4 DEF Semantics!Next
<1>7. status' \in {"generate", "verify", "accepted", "crashed", "rejected"}
  BY DEF Building, TypeOK
<1> QED
  BY <1>5, <1>6, <1>7

LEMMA RunSteps ==
  ASSUME Building, Laid, VerdictIsExact, ReturnsReachEveryGosub, Running, Run, Generated
  PROVE  Running' /\ SourceStep /\ status = "accepted"
<1>1. status = "accepted"
  BY DEF Run, RunExec, RunInitFor, RunStepFor, RunBr, RunChoice, RunPositive, RunNegative, RunNotAbove,
         RunNotBelow, RunCondBr, RunPush, RunReturn, RunRet, AtInstr
<1>2. PICK start : Settled(start)
  BY <1>1, AcceptedSettles
<1>3. RunOK /\ status' = "accepted"
  BY <1>1, SameCode DEF Running
<1>4. CASE RunExec \/ RunInitFor \/ RunStepFor \/ RunBr \/ RunChoice
  BY <1>1, <1>2, <1>3, <1>4, ExecRuns, InitRuns, StepRuns, BrRuns, ChoiceRuns DEF Running
<1>5. CASE RunPositive \/ RunNegative \/ RunNotAbove \/ RunNotBelow
  BY <1>1, <1>2, <1>3, <1>5, PositiveRuns, NegativeRuns, NotAboveRuns, NotBelowRuns DEF Running
<1>6. CASE RunPush \/ RunReturn \/ RunRet
  BY <1>1, <1>2, <1>3, <1>6, PushRuns, ReturnRuns, RetRuns DEF Running
<1> QED
  BY <1>1, <1>4, <1>5, <1>6 DEF Run

LEMMA StutterRuns ==
  ASSUME Running, UNCHANGED vars
  PROVE  Running' /\ UNCHANGED Semantics!vars
<1>1. Generated /\ UNCHANGED <<block, instr, stack, counter, outcome>>
  BY DEF vars, runVars, Generated
<1>2. UNCHANGED <<code, body, status>> /\ Current' = Current
  BY <1>1, SameCode DEF Current
<1>3. SourcePc' = SourcePc
  BY <1>1, <1>2 DEF SourcePc, Current
<1>4. SourceCalls' = SourceCalls
  BY <1>1, <1>2 DEF SourceCalls
<1>5. RunInit' <=> RunInit
  BY <1>1 DEF RunInit
<1>6. RunOK' <=> RunOK
  <2>1. inserted' = inserted
    BY <1>1, SameCode
  <2>2. Spot(Current)' = Spot(Current)
    BY <1>2 DEF Spot
  <2>3. SignKnown(Spot(Current))' <=> SignKnown(Spot(Current))
    BY <1>2, <2>2 DEF SignKnown
  <2>4. PushedAll(stack)' <=> PushedAll(stack)
    BY <1>1, SameCode DEF PushedAll
  <2>5. UnderWay(stack, Spot(Current))' <=> UnderWay(stack, Spot(Current))
    BY <1>1, <1>2, <2>1, <2>2 DEF UnderWay, Pushes, Stmt
  <2>6. UndefinedOnlyAtTheStackLimits' <=> UndefinedOnlyAtTheStackLimits
    BY <1>1, <1>2 DEF UndefinedOnlyAtTheStackLimits
  <2> QED
    BY <1>1, <1>2, <2>1, <2>3, <2>4, <2>5, <2>6 DEF RunOK
<1> QED
  BY <1>1, <1>2, <1>3, <1>4, <1>5, <1>6 DEF Running, Semantics!vars

-----------------------------------------------------------------------------
\* Every step of generation and run, from the invariants.
RunBasis == Building /\ Laid /\ VerdictIsExact /\ ReturnsReachEveryGosub /\ Begun /\ AtFirst /\ Judged

LEMMA NextRuns ==
  RunBasis /\ RunBasis' /\ Running /\ [Next]_vars => Running' /\ [Semantics!Next]_(Semantics!vars)
<1> SUFFICES ASSUME RunBasis, RunBasis', Running, [Next]_vars
             PROVE  Running' /\ [Semantics!Next]_(Semantics!vars)
  OBVIOUS
<1>1. CASE GenNextStep /\ UNCHANGED runVars
  BY <1>1, GenSteps DEF RunBasis
<1>2. CASE Run /\ Generated
  <2>1. Running' /\ SourceStep /\ status = "accepted"
    BY <1>2, RunSteps DEF RunBasis
  <2>2. Semantics!Compiles
    BY <2>1 DEF RunBasis, Judged
  <2> QED
    BY <2>1, <2>2 DEF SourceStep, Semantics!Next
<1>3. CASE UNCHANGED vars
  BY <1>3, StutterRuns
<1> QED
  BY <1>1, <1>2, <1>3 DEF Next

LEMMA RunBasisHolds == Spec => []RunBasis
<1>1. Init => GenInit
  BY DEF Init
<1>2. [Next]_vars => [GenNextStep]_genVars
  BY DEF Next, vars, Generated
<1>3. Spec => GenSpec
  BY <1>1, <1>2, PTL DEF Spec, GenSpec
<1>4. Building /\ Laid /\ VerdictIsExact /\ ReturnsReachEveryGosub => RunBasis
  BY RunBegins, BeginsAtFirst, AcceptedCompiles DEF RunBasis
<1> QED
  BY <1>3, <1>4, BuildingHolds, CodeIsLaid, VerdictExact, ReturnsReach, PTL

LEMMA InitRunsAtFirst == Init /\ AtFirst => Running /\ Semantics!Init
<1> SUFFICES ASSUME Init, AtFirst
             PROVE  Running /\ Semantics!Init
  OBVIOUS
<1>1. status = "generate" /\ RunInit /\ body \in Bodies
  BY DEF Init, GenInit
<1>2. SourcePc = <<1, "at">> /\ SourceCalls = <<>>
  BY <1>1 DEF AtFirst
<1>3. body \in Seq(Items)
  BY <1>1, BodiesAreItems
<1> QED
  BY <1>1, <1>2, <1>3 DEF Running, RunInit, Semantics!Init

\* The run of an accepted function is inside one of its blocks, the addresses on
\* the stack are the continuations of gosubs that its code has, and in the three
\* blocks of a for condition that depend on it the sign of the step is known.
THEOREM RunStaysInFunction == Spec => []Running
<1> QED
  BY InitRunsAtFirst, NextRuns, RunBasisHolds, PTL DEF Spec, RunBasis

\* The behaviour of an accepted function is undefined only when GosubDepth
\* gosubs wait for their return and there is another, or when there is a return
\* and none waits: no indirectbr meets an address that it does not list.
THEOREM OnlyTheStackFails == Spec => []UndefinedOnlyAtTheStackLimits
<1>1. Running => UndefinedOnlyAtTheStackLimits
  BY DEF Running, RunInit, RunOK, UndefinedOnlyAtTheStackLimits
<1> QED
  BY <1>1, RunStaysInFunction, PTL

\* The code of an accepted function does what its statements say: it begins
\* where they begin, and each of its instructions is a step of theirs or none.
\* A function that is not accepted does not compile by its text, and never runs.
\* (This is Source without its fairness.)
THEOREM CodeDoesWhatSourceSays == Spec => Semantics!Init /\ [][Semantics!Next]_(Semantics!vars)
<1> QED
  BY InitRunsAtFirst, NextRuns, RunBasisHolds, RunStaysInFunction, PTL DEF Spec, RunBasis
=============================================================================
