---------------------------- MODULE AstLifecycle ----------------------------
(***************************************************************************)
(* The life of an AST: the semantic actions of the db parser build it on   *)
(* the parser's value stack (src/odb-compiler/src/parsers/db/Parser.y and  *)
(* Driver.cpp), a syntax error throws the stack away, parseDBA merges the  *)
(* files (src/odb-cli/src/AST.cpp), the processes of                       *)
(* src/odb-compiler/src/astpost check and rewrite the tree, and the exit   *)
(* of the program frees it.  A file is the sequence of the grammar rules   *)
(* the LALR parser reduces.  One action is one reduction, one visited      *)
(* node, one swapped child or one released reference.                      *)
(***************************************************************************)
EXTENDS AstHeap

CONSTANTS
  Inputs,   \* the sequences of files parseDBA is given
  Symbols,  \* of each file: the classes of what is on bison's stack, before each
            \* reduction and at the end, as the states of the LALR parser have them
  Groups    \* the sequences of processes a ProcessGroup may hold

Processes == {"eliminate", "defaults", "fields"}
ASSUME GroupsAreProcesses == Groups \subseteq Seq(Processes)

-----------------------------------------------------------------------------
(* What the grammar of Parser.y and its %type declarations leave possible. *)

Rules == [do : STRING, class : ClassNames \cup {"none"}, tag : Tags, pops : Nat, kids : Seq(Nat)]
Types == ClassNames \cup {"null"}
Top(s, n) == SubSeq(s, Len(s) - n + 1, Len(s))
Under(s, n) == SubSeq(s, 1, Len(s) - n)
Arguments(rule, values, null) ==
  [i \in DOMAIN rule.kids |-> IF rule.kids[i] = 0 THEN null ELSE values[rule.kids[i]]]

\* Every $i is used, and once.
UsesEach(rule, types) ==
  /\ \A i \in DOMAIN rule.kids : rule.kids[i] \in 0 .. rule.pops
  /\ \A i, j \in DOMAIN rule.kids : rule.kids[i] = rule.kids[j] => i = j \/ rule.kids[i] = 0
  /\ \A k \in 1 .. rule.pops :
       types[k] = "null" \/ \E i \in DOMAIN rule.kids : rule.kids[i] = k

\* The left hand side of a dot is no operator (udt_field_lvalue, udt_field_rvalue).
Dotted == {"VarRef", "ArrayRef", "FuncCallExpr", "FuncCallExprOrArrayRef", "CommandExpr"}
Constructs(class, types) ==
  /\ Len(types) = IF IsList(class) THEN 1 ELSE Len(Class[class].slots)
  /\ \A i \in DOMAIN types :
       IF types[i] = "null" THEN Accepts(class, i).optional
       ELSE types[i] \in Accepts(class, i).types
  /\ class = "UDTFieldOuter" => types[1] \in Dotted

\* What a rule may pop ...
Reduces(rule, types) ==
  LET arguments == Arguments(rule, types, "null") IN
  CASE rule.do = "new" ->
         /\ rule.class \in ClassNames
         /\ UsesEach(rule, types) /\ Constructs(rule.class, arguments)
    [] rule.do = "null" -> rule.pops = 0
    [] rule.do = "append" ->
         /\ rule.pops = 2 /\ types[1] \in ClassNames
         /\ IsList(types[1]) /\ types[2] \in Class[types[1]].elements
    [] rule.do = "oneline" ->
         /\ UsesEach(rule, types) /\ Len(rule.kids) = 3
         /\ arguments[1] \in Expression
         /\ {arguments[2], arguments[3]} \subseteq Statement \cup {"null"}
    [] rule.do = "elseif" -> UsesEach(rule, types) /\ Constructs("Conditional", arguments)
    [] rule.do = "decl" -> types = <<"ScopedAnnotatedSymbol">>
    [] rule.do = "initializer" -> types[1] \in AnyVarDecl /\ types = <<types[1], "InitializerList">>
    [] rule.do = "incdec" ->
         /\ rule.pops \in {1, 2} /\ rule.class \in AnyAssignment
         /\ types[1] \in Accepts(rule.class, 1).types
         /\ rule.pops = 2 => types[2] \in Expression
    [] rule.do = "program" -> types = <<"Block">>
    [] OTHER -> FALSE

\* ... and what it leaves.
Becomes(rule, types) ==
  CASE rule.do \in {"new", "incdec"} -> rule.class
    [] rule.do \in {"append", "initializer"} -> types[1]
    [] rule.do \in {"elseif", "program"} -> "Block"
    [] rule.do = "oneline" -> "Conditional"
    [] rule.do = "decl" -> "VarDecl"
    [] OTHER -> "null"

IsParse(file, symbols) ==
  /\ file \in Seq(Rules) /\ symbols \in Seq(Seq(Types))
  /\ Len(symbols) = Len(file) + 1 /\ symbols[1] = <<>>
  /\ \A k \in DOMAIN file :
       LET rule == file[k]
           types == Top(symbols[k], rule.pops)
       IN /\ rule.pops <= Len(symbols[k]) /\ Reduces(rule, types)
          /\ symbols[k + 1] = Append(Under(symbols[k], rule.pops), Becomes(rule, types))
          /\ rule.do = "program" => k = Len(file) /\ Len(symbols[k]) = 1
  \* program: a block, which is given to the driver, or nothing.
  /\ \/ file # <<>> /\ file[Len(file)].do = "program"
     \/ Len(file) = 1 /\ file[1].do = "null"
ASSUME InputsAreParses ==
  /\ Inputs \subseteq Seq(DOMAIN Symbols)
  /\ \A input \in Inputs : input # <<>>
  /\ \A file \in DOMAIN Symbols : IsParse(file, Symbols[file])

VARIABLES
  heap,
  input,      \* the files (never changes)
  f, pc,      \* the file being parsed and its next reduction
  stack,      \* bison's value stack
  program,    \* Driver::program_
  block,      \* parseDBA's local reference
  ast,        \* ast_ of odb-cli
  later,      \* references that are about to be released
  phase,
  moved,      \* statements merge() has moved
  group,      \* processes left to execute
  todo,       \* the children accept() has still to come to
  gathered,   \* Visitor::ops of EliminateBitwiseNotRHS
  next,       \* the next of them
  failed,     \* the process that returned false
  fault,      \* what a step used that was not there
  before,     \* the heap when the rewriting began (history)
  swapped     \* the replacement of each replaced node (history)

parser == <<f, pc, stack, program, block, moved>>
pass == <<group, todo, gathered, next, failed, before, swapped>>
vars == <<heap, input, ast, later, phase, fault, parser, pass>>

Init ==
  /\ heap = <<>> /\ later = <<>> /\ stack = <<>>
  /\ input \in Inputs
  /\ f = 1 /\ pc = 1 /\ moved = 0
  /\ program = NULL /\ block = NULL /\ ast = NULL
  /\ phase = "parse"
  /\ group = <<>> /\ todo = <<>> /\ gathered = <<>> /\ next = 1
  /\ failed = "none" /\ fault = "none"
  /\ before = <<>> /\ swapped = <<>>

In(p) == phase = p /\ later = <<>>

-----------------------------------------------------------------------------
(* Reference counting: the releases a step causes come before all else.    *)
ReleaseReference ==
  /\ later # <<>>
  /\ LET r == Release(heap, Head(later), Tail(later))
     IN heap' = r.heap /\ later' = r.later
  /\ UNCHANGED <<input, ast, phase, fault, parser, pass>>

\* TouchRef(n): a Reference that is constructed and destroyed.  The mutant does
\* nothing.
Ignored(n) == UNCHANGED <<heap, later>>
Touch(n) == heap' = AddRef(heap, n) /\ later' = <<n>>

-----------------------------------------------------------------------------
(* Reductions.                                                             *)
Rule == input[f][pc]
Reducing(do) == In("parse") /\ pc <= Len(input[f]) /\ Rule.do = do
Popped == Top(stack, Rule.pops)
Rest == Under(stack, Rule.pops)
Kids == Arguments(Rule, Popped, NULL)

Reduced(h, value, dropped) ==
  /\ heap' = h
  /\ stack' = Append(Rest, value)
  /\ pc' = pc + 1
  /\ later' = dropped
  /\ UNCHANGED <<input, ast, phase, fault, f, program, block, moved, pass>>

\* $$ = new Class($i, ...)
ReduceNew ==
  /\ Reducing("new")
  /\ LET h == Construct(heap, Rule.class, Rule.tag, Kids) IN Reduced(h, Len(h), <<>>)

\* $$ = nullptr: an IF without ELSE.
ReduceNull == Reducing("null") /\ Reduced(heap, NULL, <<>>)

\* $$ = $1; $$->append...($3)
ReduceAppend ==
  /\ Reducing("append")
  /\ Reduced(AppendChild(heap, Popped[1], Popped[2]), Popped[1], <<>>)

\* IF expr THEN stmnt ELSE stmnt: each statement gets a block of its own.
InBlock(h, statement) ==
  IF statement = NULL THEN [heap |-> h, root |-> NULL]
  ELSE [heap |-> Construct(h, "Block", "none", <<statement>>), root |-> Len(h) + 1]
ReduceOneLine ==
  /\ Reducing("oneline")
  /\ LET yes == InBlock(heap, Kids[2])
         no == InBlock(yes.heap, Kids[3])
         h == Construct(no.heap, "Conditional", "none", <<Kids[1], yes.root, no.root>>)
     IN Reduced(h, Len(h), <<>>)

\* ELSEIF: a block with a conditional of its own.
ReduceElseIf ==
  /\ Reducing("elseif")
  /\ LET block1 == InBlock(Construct(heap, "Conditional", "none", Kids), Len(heap) + 1)
     IN Reduced(block1.heap, block1.root, <<>>)

\* A declaration without initializer gets a list with the default value; the
\* mutant leaves it null.
NoDefaultValue(symbol) == Construct(heap, "VarDecl", "none", <<symbol, NULL>>)
WithDefaultValue(symbol) ==
  LET h1 == Construct(heap, "Literal", "none", <<>>)
      h2 == Construct(h1, "InitializerList", "none", <<Len(h1)>>)
  IN Construct(h2, "VarDecl", "none", <<symbol, Len(h2)>>)
ReduceVarDecl ==
  /\ Reducing("decl")
  /\ LET h == WithDefaultValue(Popped[1]) IN Reduced(h, Len(h), <<>>)

\* $$->setInitializer(): the default list is released.
SetInitializer(h, decl, i, list) ==
  [Adopt(h, decl, list) EXCEPT ![decl].kids[i] = list]
ReduceInitializer ==
  /\ Reducing("initializer")
  /\ LET decl == Popped[1]
         i == Len(heap[decl].kids)
     IN Reduced(SetInitializer(heap, decl, i, Popped[2]), decl, <<heap[decl].kids[i]>>)

\* INC and DEC: the operand reads the lvalue, a copy of it is written.  The
\* mutant loses the operand's annotations.
Sloppy(h, n) ==
  LET d == Duplicate(h, n)
  IN [d EXCEPT !.heap = [i \in DOMAIN @ |->
        IF i > Len(h) THEN [@[i] EXCEPT !.tag = "none"] ELSE @[i]]]
CopyOf(h, n) == Duplicate(h, n)
Assigned(h, lvalue, amount) ==
  LET copy == CopyOf(h, lvalue)
      sum == Construct(copy.heap, "BinaryOp", "inc", <<lvalue, amount>>)
  IN Construct(sum, Rule.class, "none", <<copy.root, Len(sum)>>)
ReduceIncDec ==
  /\ Reducing("incdec")
  /\ LET one == Construct(heap, "Literal", "none", <<>>)
         h == IF Rule.pops = 1 THEN Assigned(one, Popped[1], Len(one))
              ELSE Assigned(heap, Popped[1], Popped[2])
     IN Reduced(h, Len(h), <<>>)

\* program: the driver takes a reference to the block; the mutant does not.
NotTaken(n) == heap
Taken(n) == AddRef(heap, n)
GiveProgram ==
  /\ Reducing("program")
  /\ heap' = Taken(stack[Len(stack)])
  /\ program' = stack[Len(stack)]
  /\ pc' = pc + 1
  /\ UNCHANGED <<input, ast, later, phase, fault, f, stack, block, moved, pass>>

-----------------------------------------------------------------------------
(* The end of a parse.                                                     *)
\* YYACCEPT: bison destroys the start symbol that is left on its stack.
AcceptInput ==
  /\ In("parse") /\ pc > Len(input[f])
  /\ Touch(stack[Len(stack)])
  /\ stack' = <<>>
  /\ phase' = "accepted"
  /\ UNCHANGED <<input, ast, fault, f, pc, program, block, moved, pass>>

\* doParse detaches the program and returns it; parseDBA takes a reference to
\* it, or gives up when there is none (an empty file).
ReturnProgram ==
  /\ In("accepted")
  /\ block' = program
  /\ program' = NULL
  /\ heap' = IF program = NULL THEN heap ELSE AddRef([heap EXCEPT ![program].refs = @ - 1], program)
  /\ phase' = IF program = NULL THEN "exit" ELSE "returned"
  /\ UNCHANGED <<input, ast, later, fault, f, pc, stack, moved, pass>>

\* A syntax error can follow any reduction, that of program included.
SyntaxError ==
  /\ In("parse")
  /\ phase' = "discard"
  /\ UNCHANGED <<heap, input, ast, later, fault, parser, pass>>

\* fopen fails.
FileNotOpened ==
  /\ In("parse") /\ pc = 1
  /\ phase' = "exit"
  /\ UNCHANGED <<heap, input, ast, later, fault, parser, pass>>

\* Its %destructor is run for every value on the stack.
DiscardValue ==
  /\ In("discard") /\ stack # <<>>
  /\ Touch(stack[Len(stack)])
  /\ stack' = SubSeq(stack, 1, Len(stack) - 1)
  /\ UNCHANGED <<input, ast, phase, fault, f, pc, program, block, moved, pass>>

\* parse() returns nullptr, parseDBA returns false and destroys the driver.
GiveUp ==
  /\ In("discard") /\ stack = <<>>
  /\ later' = <<program>>
  /\ program' = NULL
  /\ phase' = "exit"
  /\ UNCHANGED <<heap, input, ast, fault, f, pc, stack, block, moved, pass>>

-----------------------------------------------------------------------------
(* parseDBA.                                                               *)
NextFile ==
  /\ f' = f + 1 /\ pc' = 1 /\ moved' = 0
  /\ phase' = IF f < Len(input) THEN "parse" ELSE "parsed"

\* ast_ = block, the first time.
KeepFirst ==
  /\ In("returned") /\ ast = NULL
  /\ ast' = block
  /\ heap' = AddRef(heap, block)
  /\ later' = <<block>>
  /\ block' = NULL
  /\ NextFile
  /\ UNCHANGED <<input, fault, stack, program, pass>>

\* ast_->merge(block): its statements are appended one by one ...
MergeStatement ==
  /\ In("returned") /\ ast # NULL /\ moved < Len(heap[block].kids)
  /\ heap' = AppendChild(heap, ast, heap[block].kids[moved + 1])
  /\ moved' = moved + 1
  /\ UNCHANGED <<input, ast, later, phase, fault, f, pc, stack, program, block, pass>>

\* ... and then cleared there; the empty block goes with parseDBA's reference.
Cleared == [heap EXCEPT ![block].kids = <<>>]
MergeEnds ==
  /\ In("returned") /\ ast # NULL /\ moved = Len(heap[block].kids)
  /\ heap' = Cleared
  /\ later' = heap[block].kids \o <<block>>
  /\ block' = NULL
  /\ NextFile
  /\ UNCHANGED <<input, ast, fault, stack, program, pass>>

-----------------------------------------------------------------------------
(* ProcessGroup::execute.                                                  *)
ExecuteGroup ==
  /\ In("parsed")
  /\ group' \in Groups
  /\ phase' = "group"
  /\ UNCHANGED <<heap, input, ast, later, fault, parser, todo, gathered, next, failed, before, swapped>>

GroupEnds ==
  /\ In("group") /\ group = <<>>
  /\ phase' = "exit"
  /\ UNCHANGED <<heap, input, ast, later, fault, parser, pass>>

Executing(p) == In("group") /\ group # <<>> /\ Head(group) = p
Tree(class) == {n \in Below(heap, ast) : heap[n].class \in class}

\* The process returns ok; the first that returns false ends the group.
Returns(ok) ==
  /\ group' = IF ok THEN Tail(group) ELSE <<>>
  /\ failed' = IF ok THEN failed ELSE Head(group)

\* EnforceSingleDefaultCase: a select without any case is a null pointer.
Defaults(select) ==
  LET kids == heap[heap[select].kids[2]].kids
  IN Cardinality({i \in DOMAIN kids : heap[kids[i]].class = "DefaultCase"})
EnforceSingleDefaultCase ==
  /\ Executing("defaults")
  /\ IF \E n \in Tree({"Select"}) : heap[n].kids[2] = NULL
     THEN phase' = "crashed" /\ UNCHANGED <<group, failed>>
     ELSE phase' = phase /\ Returns(\A n \in Tree({"Select"}) : Defaults(n) = 1)
  /\ UNCHANGED <<heap, input, ast, later, fault, parser, todo, gathered, next, before, swapped>>

\* ValidateUDTFieldNames: what is left of a dot may not be annotated.
Annotated(n) ==
  IF heap[n].class = "CommandExpr" THEN heap[n].tag = "annotated"
  ELSE /\ heap[n].class \in {"VarRef", "ArrayRef", "FuncCallExpr", "FuncCallExprOrArrayRef"}
       /\ heap[heap[n].kids[1]].tag = "annotated"
ValidateUDTFieldNames ==
  /\ Executing("fields")
  /\ Returns(\A n \in Tree({"UDTFieldOuter", "UDTFieldInner"}) : ~Annotated(heap[n].kids[1]))
  /\ UNCHANGED <<heap, input, ast, later, phase, fault, parser, todo, gathered, next, before, swapped>>

-----------------------------------------------------------------------------
(* EliminateBitwiseNotRHS::execute.                                        *)
IsBitwiseNot(h, n) == h[n].class = "BinaryOp" /\ h[n].tag = "not"

NoSideEffects ==
  {"AnnotatedSymbol", "ArrayRef", "BinaryOp", "Conditional", "ArgList",
   "ScopedAnnotatedSymbol", "Symbol", "UDTRef", "UnaryOp", "VarRef", "Literal"}
IsPure(h, n) == \A m \in Below(h, n) : h[m].class \in NoSideEffects

StartGathering ==
  /\ Executing("eliminate")
  /\ todo' = <<ast>>
  /\ next' = 1
  /\ before' = heap /\ swapped' = <<>>
  /\ phase' = "gather"
  /\ UNCHANGED <<heap, input, ast, later, fault, parser, group, gathered, failed>>

\* node->accept(&gatherer) visits a node before its children and passes over
\* those that are null; the operators found are held by reference.
Held(n) == AddRef(heap, n)
VisitNode ==
  /\ In("gather") /\ todo # <<>>
  /\ LET n == Head(todo) IN
       /\ todo' = (IF n = NULL THEN <<>> ELSE heap[n].kids) \o Tail(todo)
       /\ IF n # NULL /\ IsBitwiseNot(heap, n)
          THEN gathered' = Append(gathered, n) /\ heap' = Held(n)
          ELSE UNCHANGED <<gathered, heap>>
  /\ UNCHANGED <<input, ast, later, phase, fault, parser, group, next, failed, before, swapped>>

StartRewriting ==
  /\ In("gather") /\ todo = <<>>
  /\ phase' = "rewrite"
  /\ UNCHANGED <<heap, input, ast, later, fault, parser, pass>>

\* The unary operator that takes the place of op.
Complement(op) == Construct(heap, "UnaryOp", "not", <<heap[op].kids[1]>>)

\* The operand that is discarded; the mutant tests the other one.
Operand(op) == heap[op].kids[1]
Discarded(op) == heap[op].kids[2]

\* op->parent() is read when op is replaced; the mutant remembers what it was
\* when op was gathered.
ParentThen(op) == before[op].parent
ParentNow(op) == heap[op].parent

\* What op->parent()->swapChild(op, ...) finds wrong.
FaultOf(op, p) ==
  IF ~heap[op].live THEN "operator was deleted"
  ELSE IF p \notin Nodes(heap) \/ ~heap[p].live THEN "parent was deleted"
  ELSE IF Swappable(heap, p, op) = {} THEN "not a child of its parent"
  ELSE "none"

AtOperator == In("rewrite") /\ failed = "none" /\ next <= Len(gathered)
SwapOperator ==
  /\ AtOperator /\ IsPure(heap, Discarded(gathered[next]))
  /\ LET op == gathered[next]
         p == ParentNow(op)
         h == Complement(op)
     IN /\ fault' = FaultOf(op, p)
        /\ phase' = IF FaultOf(op, p) = "none" THEN phase ELSE "crashed"
        /\ heap' = IF FaultOf(op, p) = "none" THEN SwapChild(h, p, op, Len(h)) ELSE h
        /\ later' = <<op>>
        /\ swapped' = [n \in DOMAIN swapped \cup {op} |->
                         IF n = op THEN Len(h) ELSE swapped[n]]
  /\ next' = next + 1
  /\ UNCHANGED <<input, ast, parser, group, todo, gathered, failed, before>>

\* Its right hand side has side effects: execute returns false.
RefuseOperator ==
  /\ AtOperator /\ ~IsPure(heap, Discarded(gathered[next]))
  /\ failed' = "eliminate"
  /\ UNCHANGED <<heap, input, ast, later, phase, fault, parser, group, todo, gathered, next, before, swapped>>

Rewritten == In("rewrite") /\ (failed # "none" \/ next > Len(gathered))

\* execute returns and destroys the gatherer and the references it holds.
DropGatherer ==
  /\ Rewritten
  /\ later' = gathered
  /\ gathered' = <<>>
  /\ before' = <<>> /\ swapped' = <<>>
  /\ phase' = "group"
  /\ group' = IF failed = "none" THEN Tail(group) ELSE <<>>
  /\ UNCHANGED <<heap, input, ast, fault, parser, todo, next, failed>>

\* The end of main destroys ast_.
Exits ==
  /\ In("exit")
  /\ later' = <<ast>>
  /\ ast' = NULL
  /\ phase' = "gone"
  /\ UNCHANGED <<heap, input, fault, parser, pass>>

-----------------------------------------------------------------------------
Reduce ==
  ReduceNew \/ ReduceNull \/ ReduceAppend \/ ReduceOneLine \/ ReduceElseIf
    \/ ReduceVarDecl \/ ReduceInitializer \/ ReduceIncDec \/ GiveProgram
Parse ==
  Reduce \/ AcceptInput \/ ReturnProgram \/ FileNotOpened \/ SyntaxError \/ DiscardValue
    \/ GiveUp \/ KeepFirst \/ MergeStatement \/ MergeEnds
Eliminate ==
  StartGathering \/ VisitNode \/ StartRewriting \/ SwapOperator \/ RefuseOperator
    \/ DropGatherer
Process ==
  ExecuteGroup \/ GroupEnds \/ EnforceSingleDefaultCase \/ ValidateUDTFieldNames \/ Eliminate

\* The program ends here and nowhere else: any other state without a successor
\* is a deadlock.
Terminated == phase \in {"gone", "crashed"} /\ later = <<>> /\ UNCHANGED vars

Next == ReleaseReference \/ Parse \/ Process \/ Exits \/ Terminated

Spec == Init /\ [][Next]_vars
-----------------------------------------------------------------------------
Roots == {stack[i] : i \in DOMAIN stack} \cup {program, block, ast}
Attached == UNION {Below(heap, n) : n \in Roots}
PassedOver == UNION {Below(heap, n) : n \in {gathered[i] : i \in DOMAIN gathered}}
ToRelease == UNION {Below(heap, n) : n \in {later[i] : i \in DOMAIN later}}

\* The count of a live node is the number of references to it: those of the
\* live nodes that own it, of ast_, of the driver and of parseDBA, of the
\* gatherer, and those about to be released (Reference, RefCounted).  Values on
\* bison's stack are raw pointers and count for nothing.
References(n) ==
  Cardinality({o \in Live(heap) : n \in Children(heap, o)})
    + Cardinality({i \in 1 .. 3 : <<program, block, ast>>[i] = n})
    + Cardinality({i \in DOMAIN gathered : gathered[i] = n})
    + Cardinality({i \in DOMAIN later : later[i] = n})
CountsAreExact == \A n \in Live(heap) : heap[n].refs = References(n)

\* Nodes in use are alive, and every child in a tree has the node that owns it
\* as parent; so no node is in two trees or twice in one (setParent in the
\* constructors, append, swapChild, duplicate and merge).  While merge() moves
\* statements they are in both blocks.
ChildrenKnowTheirParent ==
  phase # "returned" =>
    \A n \in Attached :
      heap[n].live /\ \A m \in Children(heap, n) : heap[m].live /\ heap[m].parent = n

\* accept() and the dynamic_casts of swapChild rely on every child being there
\* and of its class.
ChildrenFitTheirClass == \A n \in Attached : FitsItsClass(heap, n)

\* So whatever is on bison's stack, in the driver or in ast_ is a tree.
TreesAreWellFormed == ChildrenKnowTheirParent /\ ChildrenFitTheirClass

\* No node is lost: whatever is allocated can be reached from something that
\* will release it, also after a syntax error and a process that failed.  When
\* the program is gone there is no such thing, so no node either.
NothingIsLost == Live(heap) \subseteq Attached \cup PassedOver \cup ToRelease

\* swapChild is called on a live parent that still owns the operator, whatever
\* has been replaced above, below or beside it in the meantime, and when all is
\* done without error the tree is the old one with `complement a' for every
\* `a .. b': nothing else has moved, and none is left
\* (EliminateBitwiseNotRHS::execute).  It ends with an error exactly if an
\* operator of the tree as parsed discards an operand with side effects, however
\* deep, and even if the operator itself is in an operand that is discarded.
Image(n) == IF n \in DOMAIN swapped THEN swapped[n] ELSE n
Kept(n) ==
  /\ ~IsBitwiseNot(heap, n)
  /\ heap[n].class = before[n].class /\ heap[n].tag = before[n].tag
  /\ heap[n].kids = [i \in DOMAIN before[n].kids |-> Image(before[n].kids[i])]
Replaces(n, op) ==
  /\ swapped[op] = n /\ IsBitwiseNot(before, op)
  /\ heap[n].class = "UnaryOp" /\ heap[n].tag = "not"
  /\ heap[n].kids = <<Image(before[op].kids[1])>>
RewritingIsExact ==
  /\ fault = "none"
  /\ Rewritten /\ failed = "none" =>
       \A n \in Below(heap, ast) :
         IF n \in Nodes(before) THEN Kept(n) ELSE \E op \in DOMAIN swapped : Replaces(n, op)
  /\ Rewritten =>
       (failed = "eliminate" <=>
          \E op \in Below(before, ast) :
            IsBitwiseNot(before, op) /\ ~IsPure(before, before[op].kids[2]))

\* INC and DEC write the lvalue they read: the copy has the same classes and
\* names, before any process and after those that succeed (Driver::newIncDec).
Shape(h, n) ==
  LET Kid(m, i) == IF i \in Slots(h, m) THEN h[m].kids[i] ELSE NULL
      S[m \in {NULL} \cup Nodes(h)] ==
        IF m = NULL THEN <<>>
        ELSE <<<<h[m].class, h[m].tag, Len(h[m].kids)>>>>
               \o S[Kid(m, 1)] \o S[Kid(m, 2)] \o S[Kid(m, 3)]
  IN S[n]
IncDecWritesWhatItReads ==
  failed = "none" /\ phase \in {"parse", "parsed", "group"} =>
    \A n \in Attached :
      heap[n].class = "BinaryOp" /\ heap[n].tag = "inc" /\ heap[n].parent # Unset =>
        Shape(heap, heap[n].kids[1]) = Shape(heap, heap[heap[n].parent].kids[1])

\* The message of EnforceSingleDefaultCase.cpp:30-32.
RejectsMultipleDefaultsOnly ==
  failed = "defaults" /\ phase = "group" => \E n \in Tree({"Select"}) : Defaults(n) > 1
=============================================================================
