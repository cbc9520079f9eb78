----------------------------- MODULE Expressions -----------------------------
(***************************************************************************)
(* Expressions and variables from the AST to the running program: the      *)
(* rest of ASTConverter (types, implicit declarations, casts) and of       *)
(* CodeGenerator, which LabelResolution and BlockGenerator leave out.      *)
(* First the main program is converted and then the functions, in any      *)
(* order; if there was no error all of them are generated; if LLVM takes   *)
(* the module the main program runs.  Of a conditional only the condition  *)
(* is here, and of a for loop everything but its body.                     *)
(***************************************************************************)
EXTENDS LlvmValues, TLC, Functions

CONSTANTS
  Programs,  \* a set of [main |-> statements, functions |-> [name -> function]]
  MaxShown   \* a run that has shown so much goes on no further in the model

VARIABLES
  program,     \* the one of Programs that is compiled (never changes)
  status,      \* what the compiler does, or how it ended
  fn, pos,     \* the function in work, and its next statement
  todo,        \* the functions left
  variables,   \* FunctionDefinition::VariableScope: [function -> [key -> type]]
  ir,          \* [function -> statements of the IR]
  returnTypes, \* types of the return expressions that have been set
  errorOccurred,
  frames,      \* the run: a stack of [fn, pos, env, round]
  output       \* what the run shows

vars == <<program, status, fn, pos, todo, variables, ir, returnTypes, errorOccurred, frames, output>>

Main == "main"
Body(p, f) == IF f = Main THEN p.main ELSE p.functions[f].body
Names == DOMAIN program.functions

-----------------------------------------------------------------------------
(* Conversion of an expression.  It may declare variables and find errors, *)
(* so it takes and returns [ir, scope, error, fatal].                      *)

IrLiteral(type, value) == [k |-> "literal", type |-> type, value |-> value]

\* newIntLikeLiteral
IntLikeType(value) ==
  CASE value >= 2^Width["Dword"] -> "DoubleInteger"
    [] value >= 2^(Width["Integer"] - 1) -> "Dword"
    [] value >= 2^Width["Word"] -> "Integer"
    [] value >= 2^Width["Byte"] -> "Word"
    [] OTHER -> "Byte"

getTypeFromAnnotation(annotation) ==
  CASE annotation = "" -> "Integer" [] annotation = "$" -> "String" [] annotation = "#" -> "Float"

Declared(scope, key, type) == IF key \in DOMAIN scope THEN scope ELSE (key :> type) @@ scope
resolveVariableRef(key, c) ==
  [c EXCEPT !.scope = Declared(@, key, getTypeFromAnnotation(key[2]))]

\* getType of a "xor" terminates, and so does that of everything over it, of a
\* call of a function that returns it too.
NoType == "fatal"
\* Mutant: what cannot be converted is left as it is.
ensureTypeLeniently(c, type) ==
  IF c.ir.type = NoType THEN [c EXCEPT !.fatal = TRUE]
  ELSE IF c.ir.type # type /\ isTypeConvertible(c.ir.type, type)
  THEN [c EXCEPT !.ir = [k |-> "cast", type |-> type, of |-> c.ir]]
  ELSE c
ensureType(c, type) ==
  IF c.ir.type = NoType THEN [c EXCEPT !.fatal = TRUE]
  ELSE IF c.ir.type = type THEN c
  ELSE IF isTypeConvertible(c.ir.type, type)
  THEN [c EXCEPT !.ir = [k |-> "cast", type |-> type, of |-> c.ir]]
  ELSE [c EXCEPT !.error = TRUE]

\* BinaryExpression::getType
BinaryType(op, left) ==
  IF op = "LOGICAL_XOR" THEN NoType ELSE IF op \in Comparisons \cup Logical THEN "Boolean" ELSE left
getBinaryOpCommonType(left, right) == left.type

RECURSIVE convertExpression(_, _), convertArguments(_, _, _)
convertArguments(exprs, types, c) ==
  IF exprs = <<>> THEN [c EXCEPT !.ir = <<>>]
  ELSE LET first == ensureType(convertExpression(Head(exprs), c), Head(types))
           rest == convertArguments(Tail(exprs), Tail(types), first)
       IN [rest EXCEPT !.ir = <<first.ir>> \o @]

convertFunctionCallExpression(call, c) ==
  IF call.name \notin Names \/ Len(call.args) # Len(program.functions[call.name].params)
  THEN [c EXCEPT !.fatal = TRUE, !.ir = IrLiteral(NoType, 0)]
  ELSE LET params == program.functions[call.name].params
           args == convertArguments(call.args,
                     [k \in DOMAIN params |-> getTypeFromAnnotation(params[k][2])], c)
           type == IF call.name \in DOMAIN returnTypes THEN returnTypes[call.name] ELSE "void"
       IN [args EXCEPT !.ir = [k |-> "call", name |-> call.name, args |-> args.ir, type |-> type],
                       !.fatal = @ \/ type = NoType]

\* With the overload chosen already; see CommandCalls.
convertCommandCallExpression(call, c) ==
  LET args == convertArguments(call.args,
                [k \in DOMAIN call.takes |-> getTypeFromCommandType(call.takes[k])], c)
  IN [args EXCEPT !.ir = [k |-> "command", args |-> args.ir,
        takes |-> [k \in DOMAIN call.takes |-> getTypeFromCommandType(call.takes[k])],
        type |-> getTypeFromCommandType(call.ret)]]

convertExpression(e, c) ==
  CASE e.k = "int" -> [c EXCEPT !.ir = IrLiteral(IntLikeType(e.int), e.int)]
    [] e.k = "literal" -> [c EXCEPT !.ir = IrLiteral(e.type, e.value)]
    [] e.k = "var" ->
         LET r == resolveVariableRef(e.key, c)
         IN [r EXCEPT !.ir = [k |-> "var", type |-> r.scope[e.key], key |-> e.key]]
    [] e.k = "unary" ->
         LET r == convertExpression(e.of, c)
         IN [r EXCEPT !.ir = [k |-> "unary", op |-> e.op, of |-> @, type |-> @.type]]
    [] e.k = "binary" ->
         LET lhs == convertExpression(e.lhs, c)
             rhs == convertExpression(e.rhs, lhs)
             common == getBinaryOpCommonType(lhs.ir, rhs.ir)
             left == ensureType([rhs EXCEPT !.ir = lhs.ir], common)
             right == ensureType([left EXCEPT !.ir = rhs.ir], common)
         IN [right EXCEPT !.ir = [k |-> "binary", op |-> e.op, lhs |-> left.ir, rhs |-> @,
                                  type |-> BinaryType(e.op, left.ir.type)]]
    [] e.k = "call" -> convertFunctionCallExpression(e, c)
    [] e.k = "command" -> convertCommandCallExpression(e, c)

-----------------------------------------------------------------------------
(* Conversion of the program, a statement at a time *)

Context == [ir |-> <<>>, scope |-> variables[fn], error |-> errorOccurred, fatal |-> FALSE]
Statement == Body(program, fn)[pos]
Converting(kind) ==
  status = "convert" /\ pos <= Len(Body(program, fn)) /\ Statement.k = kind

\* Keeps what the conversion c of the statement leaves behind.
Emit(c, statement) ==
  /\ status' = IF c.fatal THEN "fatal" ELSE status
  /\ variables' = [variables EXCEPT ![fn] = c.scope]
  /\ errorOccurred' = c.error
  /\ ir' = [ir EXCEPT ![fn] = Append(@, statement)]
  /\ pos' = pos + 1
  /\ UNCHANGED <<program, fn, todo, returnTypes, frames, output>>

Store(key, c) == [k |-> "assign", key |-> key, e |-> c.ir]

\* A variable that exists is not declared again; null becomes the statement.
ConvertVarDecl ==
  /\ Converting("decl")
  /\ IF Statement.key \in DOMAIN variables[fn]
     THEN Emit([Context EXCEPT !.error = TRUE], [k |-> "null"])
     ELSE \E c \in {LET declared == [Context EXCEPT !.scope = Declared(@, Statement.key, Statement.type)]
                    IN ensureType(convertExpression(Statement.e, declared), Statement.type)} :
            Emit(c, Store(Statement.key, c))

ConvertVarAssignment ==
  /\ Converting("assign")
  /\ \E c \in {LET resolved == resolveVariableRef(Statement.key, Context)
               IN ensureType(convertExpression(Statement.e, resolved), resolved.scope[Statement.key])} :
       Emit(c, Store(Statement.key, c))

ConvertConditional ==
  /\ Converting("if")
  /\ \E c \in {ensureType(convertExpression(Statement.e, Context), "Boolean")} :
       Emit(c, [k |-> "if", e |-> c.ir])

\* The three expressions of a for loop in the counter's type, with the context after them.
ConvertedLoop(s) ==
  LET resolved == resolveVariableRef(s.key, Context)
      type == resolved.scope[s.key]
      init == ensureType(convertExpression(s.from, resolved), type)
      end == ensureType(convertExpression(s.to, init), type)
      step == IF s.step = <<>>
              THEN ensureType([end EXCEPT !.ir = IrLiteral("Integer", 1)], type)
              ELSE ensureType(convertExpression(s.step[1], end), type)
  IN [step EXCEPT !.ir = [k |-> "for", key |-> s.key, from |-> init.ir, to |-> end.ir, step |-> @]]
ConvertForLoop == Converting("for") /\ \E c \in {ConvertedLoop(Statement)} : Emit(c, c.ir)

ConvertFunctionCall ==
  /\ Converting("call") \/ Converting("command")
  /\ \E c \in {convertExpression(Statement, Context)} : Emit(c, [k |-> "call", e |-> c.ir])

\* Without a value there is no expression: convertExpression dereferences null.
ConvertFuncExit ==
  /\ Converting("exitfunction")
  /\ \E c \in {IF Statement.e = <<>> THEN [Context EXCEPT !.fatal = TRUE]
              ELSE convertExpression(Statement.e[1], Context)} :
       Emit(c, [k |-> "exitfunction", e |-> c.ir])

Result(f) == IF f = Main THEN <<>> ELSE program.functions[f].ret
\* The end of a function sets its return expression; any other may be next.
EndOfFunction ==
  /\ status = "convert" /\ pos > Len(Body(program, fn))
  /\ \E c \in {IF Result(fn) = <<>> THEN Context ELSE convertExpression(Result(fn)[1], Context)} :
       /\ variables' = [variables EXCEPT ![fn] = c.scope]
       /\ errorOccurred' = c.error
       /\ returnTypes' = IF Result(fn) = <<>> THEN returnTypes ELSE (fn :> c.ir.type) @@ returnTypes
       /\ IF c.fatal THEN status' = "fatal" /\ UNCHANGED <<fn, todo>>
          ELSE IF todo # {} THEN fn' \in todo /\ todo' = todo \ {fn'} /\ UNCHANGED status
          ELSE /\ status' = IF c.error THEN "error" ELSE "generate"
               /\ fn' = Main /\ todo' = Names
  /\ pos' = 1
  /\ UNCHANGED <<program, ir, frames, output>>

-----------------------------------------------------------------------------
(* Generation.  The value of an expression is a type of LLVM, or Null where *)
(* the generator gave up.  A null operand crashes the next instruction      *)
(* ("crash"), operands of wrong types make a module LLVM turns down         *)
(* ("bad"), by its verifier or its assertions.                              *)

Null == "null"
Value(type, effects) == [type |-> type, effects |-> effects]

\* Which instructions exist for which operands; Null with a message for others.
GenerateBinary(op, l, r) ==
  LET effects == l.effects \cup r.effects
      use == (IF Null \in {l.type, r.type} THEN {"crash"} ELSE {})
               \cup (IF l.type # r.type THEN {"bad"} ELSE {})
      numbers == IsInteger(l.type) \/ l.type = "Float"
  IN CASE l.type = Null /\ op # "POW" -> Value(Null, effects \cup {"crash"})
       [] op = "POW" -> Value(Null, effects)
       [] op = "ADD" /\ (numbers \/ l.type = "DoubleFloat") -> Value(l.type, effects \cup use)
       [] op \in {"SUB", "MUL", "DIV", "MOD"} /\ numbers -> Value(l.type, effects \cup use)
       [] op \in Comparisons /\ numbers -> Value("Boolean", effects \cup use)
       [] op \in Shifts \cup OnBits ->
            Value(l.type, effects \cup use \cup (IF IsInteger(l.type) THEN {} ELSE {"bad"}))
       [] op = "BITWISE_NOT" ->
            Value(l.type, effects \cup (IF IsInteger(l.type) THEN {} ELSE {"bad"}))
       [] OTHER -> Value(Null, effects)

GenerateUnary(op, v) ==
  IF op # "NEGATE" THEN Value(Null, v.effects)
  ELSE IF v.type = Null THEN Value(Null, v.effects \cup {"crash"})
  ELSE IF IsInteger(v.type) \/ IsFloatingPoint(v.type) THEN v
  ELSE Value(Null, v.effects)

\* from and to are what the IR says; the value may be of another type.
GenerateCast(from, to, v) ==
  IF from = to THEN v
  ELSE IF v.type = Null THEN Value(Null, v.effects \cup {"crash"})
  ELSE Value(to, v.effects \cup (IF IsInteger(from) = IsInteger(v.type)
                                    /\ IsFloatingPoint(from) = IsFloatingPoint(v.type)
                                 THEN {} ELSE {"bad"}))

GenerateCall(args, takes, ret) ==
  Value(ret, UNION {args[k].effects : k \in DOMAIN args}
               \cup (IF \E k \in DOMAIN args : args[k].type = Null THEN {"crash"} ELSE {})
               \cup (IF \E k \in DOMAIN args : args[k].type # takes[k] THEN {"bad"} ELSE {}))

RECURSIVE generateExpression(_)
generateExpression(e) ==
  CASE e.k \in {"literal", "var"} -> Value(getLLVMType(e.type), {})
    [] e.k = "cast" ->
         GenerateCast(getLLVMType(e.of.type), getLLVMType(e.type), generateExpression(e.of))
    [] e.k = "unary" -> GenerateUnary(e.op, generateExpression(e.of))
    [] e.k = "binary" ->
         GenerateBinary(e.op, generateExpression(e.lhs), generateExpression(e.rhs))
    [] e.k = "call" ->     \* the prototype of a function returns void
         LET params == program.functions[e.name].params
         IN GenerateCall([k \in DOMAIN e.args |-> generateExpression(e.args[k])],
                         [k \in DOMAIN params |-> getTypeFromAnnotation(params[k][2])], "void")
    [] e.k = "command" ->
         GenerateCall([k \in DOMAIN e.args |-> generateExpression(e.args[k])],
                      [k \in DOMAIN e.takes |-> getLLVMType(e.takes[k])], getLLVMType(e.type))

Effects(value, type) ==
  value.effects \cup (IF value.type = Null THEN {"crash"} ELSE {})
    \cup (IF value.type # type THEN {"bad"} ELSE {})

GenerateStatement(f, s) ==
  LET storage == getLLVMType(variables[f][s.key])
      used(e, type) == Effects(generateExpression(e), type)
  IN CASE s.k = "assign" -> used(s.e, storage)
       [] s.k = "if" -> used(s.e, "Boolean")
       [] s.k = "for" ->
            used(s.from, storage) \cup used(s.to, storage) \cup used(s.step, storage)
              \cup (IF IsInteger(storage) THEN {} ELSE {"bad"})
       [] s.k = "call" -> generateExpression(s.e).effects
       [] s.k = "exitfunction" ->   \* ret of null is a ret without a value
            LET v == generateExpression(s.e)
            IN v.effects \cup (IF v.type = Null THEN {} ELSE {"bad"})

\* One function's body; the effects of all of them meet in generateModule.
\* After the ret of an exitfunction the block goes on, if the body does.
EffectsOf(f) ==
  UNION {GenerateStatement(f, ir[f][k]) : k \in DOMAIN ir[f]}
    \cup (IF \E k \in 1 .. Len(ir[f]) - 1 : ir[f][k].k = "exitfunction" THEN {"bad"} ELSE {})
GenerateModule ==
  /\ status = "generate"
  /\ \E effects \in {UNION {EffectsOf(f) : f \in Names \cup {Main}}} :
       status' = IF "crash" \in effects THEN "crashed"
                 ELSE IF "bad" \in effects THEN "rejected" ELSE "run"
  /\ frames' = IF status' # "run" THEN <<>>
               ELSE <<[fn |-> Main, pos |-> 1, round |-> FALSE, env |-> [key \in DOMAIN variables[Main] |-> 0]]>>
  /\ UNCHANGED <<program, fn, pos, todo, variables, ir, returnTypes, errorOccurred, output>>

-----------------------------------------------------------------------------
(* The run *)

CommandResult == 1    \* what a command of the runtime returns, as an example

Then(V, f(_)) == UNION {f(v) : v \in V}
RECURSIVE Evaluate(_, _)
Evaluate(e, env) ==
  CASE e.k = "literal" -> {IF IsInteger(getLLVMType(e.type)) THEN Wrapped(e.value, e.type) ELSE e.value}
    [] e.k = "var" -> {env[e.key]}
    [] e.k = "cast" ->
         Then(Evaluate(e.of, env), LAMBDA n : Cast(n, generateExpression(e.of).type, getLLVMType(e.type)))
    [] e.k = "unary" ->
         {IF IsInteger(e.type) THEN Wrapped(-n, e.type) ELSE -n : n \in Evaluate(e.of, env)}
    [] e.k = "binary" ->
         LET type == generateExpression(e.lhs).type
             op(a, b) == IF e.op \in Comparisons THEN {IF Compared(e.op, a, b) THEN -1 ELSE 0}
                         ELSE IF IsInteger(type) THEN IntegerOp(e.op, a, b, Width[type])
                         ELSE FloatOp(e.op, a, b)
         IN Then(Evaluate(e.lhs, env), LAMBDA a : Then(Evaluate(e.rhs, env), LAMBDA b : op(a, b)))
    [] e.k = "command" ->
         IF \E k \in DOMAIN e.args : Evaluate(e.args[k], env) = {} THEN {} ELSE {CommandResult}

Top == frames[Len(frames)]
Running(kind) ==
  status = "run" /\ frames # <<>> /\ Top.pos <= Len(ir[Top.fn]) /\ ir[Top.fn][Top.pos].k = kind
Current == ir[Top.fn][Top.pos]
SetTop(frame) == frames' = [frames EXCEPT ![Len(frames)] = frame]
Advanced == [Top EXCEPT !.pos = @ + 1]
ValueOf(e) == Evaluate(e, Top.env)
\* Division by zero, a float too large, a shift too far: undefined behaviour.
Undefined == status' = "undefined" /\ UNCHANGED <<frames, output>>
Shown(what, values) == Append(output, <<what, values>>)
RunUnchanged == UNCHANGED <<program, fn, pos, todo, variables, ir, returnTypes, errorOccurred>>

RunAssign ==
  /\ Running("assign")
  /\ \/ ValueOf(Current.e) = {} /\ Undefined
     \/ \E n \in ValueOf(Current.e) : SetTop([Advanced EXCEPT !.env[Current.key] = n])
        /\ UNCHANGED <<status, output>>
  /\ RunUnchanged

RunConditional ==
  /\ Running("if")
  /\ \/ ValueOf(Current.e) = {} /\ Undefined
     \/ \E n \in ValueOf(Current.e) : output' = Shown("if", <<IF n = 0 THEN 0 ELSE 1>>)
        /\ SetTop(Advanced) /\ UNCHANGED status
  /\ RunUnchanged

\* Initialisation, then the condition and the increment once for each round.
CounterType == getLLVMType(variables[Top.fn][Current.key])
RunForInit ==
  /\ Running("for") /\ ~Top.round
  /\ \/ ValueOf(Current.from) = {} /\ Undefined
     \/ \E n \in ValueOf(Current.from) : SetTop([Top EXCEPT !.env[Current.key] = n, !.round = TRUE])
        /\ UNCHANGED <<status, output>>
  /\ RunUnchanged

InRange(counter, to, step) ==
  \/ step > 0 /\ counter <= to
  \/ step < 0 /\ counter >= to
\* Mutant: the counter is left as it is.
NotIncremented(counter, step) == counter
Incremented(counter, step) == Wrapped(counter + step, CounterType)

RunForRound ==
  /\ Running("for") /\ Top.round /\ Len(output) < MaxShown
  /\ \/ {} \in {ValueOf(Current.to), ValueOf(Current.step)} /\ Undefined
     \/ \E to \in ValueOf(Current.to), step \in ValueOf(Current.step) :
          LET counter == Top.env[Current.key]
          IN IF InRange(counter, to, step)
             THEN /\ output' = Shown("round", <<counter>>)
                  /\ SetTop([Top EXCEPT !.env[Current.key] = Incremented(counter, step)])
                  /\ UNCHANGED status
             ELSE SetTop([Advanced EXCEPT !.round = FALSE]) /\ UNCHANGED <<status, output>>
  /\ RunUnchanged

\* A function starts with its own variables only: nothing stores the arguments.
RunCall ==
  /\ Running("call")
  /\ LET args == Current.e.args
     IN \/ (\E k \in DOMAIN args : ValueOf(args[k]) = {}) /\ Undefined
        \/ /\ \A k \in DOMAIN args : ValueOf(args[k]) # {}
           /\ IF Current.e.k = "command"
              THEN /\ output' = Shown("command", [k \in DOMAIN args |-> CHOOSE n \in ValueOf(args[k]) : TRUE])
                   /\ SetTop(Advanced)
              ELSE /\ frames' = Append([frames EXCEPT ![Len(frames)] = Advanced],
                        [fn |-> Current.e.name, pos |-> 1, round |-> FALSE,
                         env |-> [key \in DOMAIN variables[Current.e.name] |-> 0]])
                   /\ UNCHANGED output
           /\ UNCHANGED status
  /\ RunUnchanged

\* The end of a body, or a ret without a value.
RunReturn ==
  /\ status = "run" /\ frames # <<>>
  /\ Top.pos > Len(ir[Top.fn]) \/ Running("exitfunction")
  /\ frames' = SubSeq(frames, 1, Len(frames) - 1)
  /\ status' = IF Len(frames) = 1 THEN "done" ELSE "run"
  /\ UNCHANGED output
  /\ RunUnchanged

-----------------------------------------------------------------------------

Init ==
  /\ program \in Programs
  /\ status = "convert" /\ fn = Main /\ pos = 1
  /\ todo = Names
  /\ variables = [f \in Names \cup {Main} |-> <<>>]
  /\ ir = [f \in Names \cup {Main} |-> <<>>]
  /\ returnTypes = <<>>
  /\ errorOccurred = FALSE
  /\ frames = <<>> /\ output = <<>>

Convert ==
  \/ ConvertVarDecl \/ ConvertVarAssignment \/ ConvertConditional \/ ConvertForLoop
  \/ ConvertFunctionCall \/ ConvertFuncExit \/ EndOfFunction
Execute ==
  \/ RunAssign \/ RunConditional \/ RunForInit \/ RunForRound \/ RunCall \/ RunReturn

Next == Convert \/ GenerateModule \/ Execute
\* Weak fairness of Next: CanMove is where it is enabled, and every step is one of it.
CanMove ==
  \/ status \in {"convert", "generate"}
  \/ status = "run" /\ (Running("for") /\ Top.round => Len(output) < MaxShown)
Fairness == []<>~CanMove \/ []<><<TRUE>>_vars

Spec == Init /\ [][Next]_vars /\ Fairness
=============================================================================
