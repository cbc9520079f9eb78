-------------------------- MODULE ExpressionMeaning --------------------------
(***************************************************************************)
(* What Expressions is checked against: which programs are well typed, in  *)
(* terms of the source alone, and what a program that deals with small     *)
(* numbers means.  A meaning that is not claimed is the empty set.         *)
(***************************************************************************)
EXTENDS Expressions, SequencesExt

-----------------------------------------------------------------------------
(* Kinds of values: what is left of the types. *)

KindOf(type) ==
  CASE type = "Boolean" -> "truth"
    [] type \in Integral \ {"Boolean"} -> "whole"
    [] OTHER -> type                        \* Float, DoubleFloat, String, void
Numeric == {"truth", "whole", "Float", "DoubleFloat"}
Goes(from, to) == from = to \/ {from, to} \subseteq Numeric

DeclarationsOf(p, f, key) ==
  {k \in DOMAIN Body(p, f) : Body(p, f)[k].k = "decl" /\ Body(p, f)[k].key = key}
VariableKind(p, f, key) ==
  LET decls == DeclarationsOf(p, f, key)
  IN KindOf(IF decls = {} THEN getTypeFromAnnotation(key[2])
            ELSE Body(p, f)[CHOOSE k \in decls : TRUE].type)

RECURSIVE Kind(_, _, _)
Kind(p, f, e) ==
  CASE e.k = "int" -> "whole"
    [] e.k = "literal" -> KindOf(e.type)
    [] e.k = "var" -> VariableKind(p, f, e.key)
    [] e.k = "unary" -> Kind(p, f, e.of)
    [] e.k = "binary" -> IF e.op \in Comparisons \cup Logical THEN "truth" ELSE Kind(p, f, e.lhs)
    [] e.k = "call" -> "void"
    [] e.k = "command" -> KindOf(getTypeFromCommandType(e.ret))

\* Which operators there are for which left operand.  In strict programs "and"
\* and "or" stand between truth values; others may pass, depending on the rest.
OperatorExists(op, kind, strict) ==
  CASE op \in {"POW", "LOGICAL_XOR"} -> FALSE
    [] op = "ADD" -> kind \in Numeric
    [] op \in {"SUB", "MUL", "DIV", "MOD"} \cup Comparisons -> kind \in Numeric \ {"DoubleFloat"}
    [] op \in Logical -> kind = "truth" \/ (kind = "whole" /\ ~strict)
    [] OTHER -> kind \in {"truth", "whole"}

\* The value of a function of the program cannot be used.
RECURSIVE WellTyped(_, _, _, _)
WellTyped(p, f, e, strict) ==
  CASE e.k \in {"int", "literal", "var"} -> TRUE
    [] e.k = "unary" ->
         e.op = "NEGATE" /\ Kind(p, f, e.of) \in Numeric /\ WellTyped(p, f, e.of, strict)
    [] e.k = "binary" ->
         /\ WellTyped(p, f, e.lhs, strict) /\ WellTyped(p, f, e.rhs, strict)
         /\ OperatorExists(e.op, Kind(p, f, e.lhs), strict)
         /\ Kind(p, f, e.rhs) \in Numeric
    [] e.k = "call" -> FALSE
    [] e.k = "command" ->
         /\ e.ret # "0"
         /\ \A k \in DOMAIN e.args :
              /\ WellTyped(p, f, e.args[k], strict)
              /\ Goes(Kind(p, f, e.args[k]), KindOf(getTypeFromCommandType(e.takes[k])))

RECURSIVE KeysIn(_)
KeysIn(e) ==
  CASE e.k \in {"int", "literal"} -> {}
    [] e.k = "var" -> {e.key}
    [] e.k = "unary" -> KeysIn(e.of)
    [] e.k = "binary" -> KeysIn(e.lhs) \cup KeysIn(e.rhs)
    [] e.k \in {"call", "command"} -> UNION {KeysIn(e.args[k]) : k \in DOMAIN e.args}
KeysOf(s) ==
  CASE s.k \in {"call", "command"} -> KeysIn(s)
    [] s.k \in {"assign", "decl"} -> KeysIn(s.e) \cup {s.key}
    [] s.k = "for" ->
         {s.key} \cup KeysIn(s.from) \cup KeysIn(s.to) \cup UNION {KeysIn(s.step[k]) : k \in DOMAIN s.step}
    [] s.k = "exitfunction" -> UNION {KeysIn(s.e[k]) : k \in DOMAIN s.e}
    [] OTHER -> KeysIn(s.e)

WellTypedStatement(p, f, k, strict) ==
  LET s == Body(p, f)[k]
      fits(e, kind) == WellTyped(p, f, e, strict) /\ Goes(Kind(p, f, e), kind)
      kindOfKey == VariableKind(p, f, s.key)
  IN CASE s.k = "decl" ->
            /\ \A j \in 1 .. k - 1 : s.key \notin KeysOf(Body(p, f)[j])
            /\ fits(s.e, kindOfKey)
       [] s.k = "assign" -> fits(s.e, kindOfKey)
       [] s.k = "if" -> fits(s.e, "truth")
       [] s.k = "for" ->
            /\ kindOfKey \in {"whole", "truth"}
            /\ \A e \in {s.from, s.to} \cup Range(s.step) : fits(e, kindOfKey)
       [] s.k = "call" ->
            /\ s.name \in DOMAIN p.functions /\ Len(s.args) = Len(p.functions[s.name].params)
            /\ \A j \in DOMAIN s.args :
                 fits(s.args[j], KindOf(getTypeFromAnnotation(p.functions[s.name].params[j][2])))
       [] s.k = "command" ->
            \A j \in DOMAIN s.args : fits(s.args[j], KindOf(getTypeFromCommandType(s.takes[j])))
       [] s.k = "exitfunction" -> ~strict /\ s.e # <<>>
WellTypedProgram(p, strict) ==
  /\ \A f \in DOMAIN p.functions \cup {Main} :
       \A k \in DOMAIN Body(p, f) : WellTypedStatement(p, f, k, strict)
  /\ strict => \A f \in DOMAIN p.functions :
                 \A k \in DOMAIN p.functions[f].ret : WellTyped(p, f, p.functions[f].ret[k], TRUE)

-----------------------------------------------------------------------------
(* Meanings: numbers are numbers as long as the narrowest type holds them,  *)
(* and a truth value is none: only FALSE and 0, and TRUE and 1 where a      *)
(* truth value is wanted, stand for each other.                             *)

Small(kind, n) ==
  LET limit == 2^(Width["Byte"] - 1)
  IN CASE kind = "whole" -> n \in -limit .. limit - 1
       [] kind \in {"Float", "DoubleFloat"} -> n \in -2 * limit .. 2 * (limit - 1)
       [] OTHER -> TRUE
Claimed(kind, V) == {n \in V : Small(kind, n)}

Converted(n, from, to) ==
  LET whole == IF from = "whole" THEN n ELSE Quotient(n, 2)
  IN CASE from = to \/ {from, to} = {"Float", "DoubleFloat"} -> {n}
       [] from = "truth" -> {m \in {n} : n = 0}
       [] to = "truth" -> {m \in {n} : n = 0 \/ (from = "whole" /\ n = 1)}
       [] OTHER -> Claimed(to, {IF to = "whole" THEN whole ELSE 2 * n})

OfWholes(op, a, b) ==
  IF op \in Shifts /\ b \notin 0 .. Width["Byte"] - 1 THEN {}
  ELSE IntegerOp(op, a, b, Width["DoubleInteger"])
OfTruths(op, a, b) ==
  CASE op \in {"BITWISE_OR", "LOGICAL_OR"} -> {IF a = 1 THEN 1 ELSE b}
    [] op \in {"BITWISE_AND", "LOGICAL_AND"} -> {IF a = 1 THEN b ELSE 0}
    [] op = "BITWISE_XOR" -> {IF a = b THEN 0 ELSE 1}
    [] op = "BITWISE_NOT" -> {1 - a}
    [] OTHER -> {}
Operation(op, kind, a, b) ==
  IF op \in Comparisons
  THEN IF kind = "truth" /\ op \notin {"EQUAL", "NOT_EQUAL"} THEN {}
       ELSE {IF Compared(op, a, b) THEN 1 ELSE 0}
  ELSE CASE kind = "whole" -> Claimed(kind, OfWholes(op, a, b))
         [] kind = "truth" -> OfTruths(op, a, b)
         [] OTHER -> Claimed(kind, FloatOp(op, a, b))

\* env maps a variable to the set of its value; a parameter's is empty.
RECURSIVE Meaning(_, _, _, _)
Meaning(p, f, e, env) ==
  CASE e.k = "int" -> Claimed("whole", {e.int})
    [] e.k = "literal" -> Claimed(KindOf(e.type), {e.value})
    [] e.k = "var" -> env[e.key]
    [] e.k = "unary" ->
         LET kind == Kind(p, f, e.of)
         IN IF kind = "truth" THEN {} ELSE Claimed(kind, {-n : n \in Meaning(p, f, e.of, env)})
    [] e.k = "binary" ->
         LET kind == Kind(p, f, e.lhs)
             rhs == Then(Meaning(p, f, e.rhs, env), LAMBDA n : Converted(n, Kind(p, f, e.rhs), kind))
         IN Then(Meaning(p, f, e.lhs, env), LAMBDA a : Then(rhs, LAMBDA b : Operation(e.op, kind, a, b)))
    [] e.k = "command" ->
         IF \E k \in DOMAIN e.args : Meaning(p, f, e.args[k], env) = {} THEN {} ELSE {CommandResult}
As(p, f, e, kind, env) ==
  Then(Meaning(p, f, e, env), LAMBDA n : Converted(n, Kind(p, f, e), kind))

With(key, V, env, f(_)) == Then({[env EXCEPT ![key] = {n}] : n \in V}, f)

\* The output from statement k of f on; rounds of a for are as many as it says.
RECURSIVE Outputs(_, _, _, _), Rounds(_, _, _, _)
Rounds(p, f, k, env) ==
  LET s == Body(p, f)[k]
      kind == VariableKind(p, f, s.key)
      step == IF s.step = <<>> THEN {1} ELSE As(p, f, s.step[1], kind, env)
      next(by) == Claimed(kind, {n + by : n \in env[s.key]})
  IN Then(As(p, f, s.to, kind, env), LAMBDA to : Then(step, LAMBDA by : Then(env[s.key], LAMBDA n :
       IF kind = "truth" THEN {}
       ELSE IF ~InRange(n, to, by) THEN Outputs(p, f, k + 1, env)
       ELSE With(s.key, next(by), env, LAMBDA later :
              {<<<<"round", <<n>>>>>> \o out : out \in Rounds(p, f, k, later)}))))

Fresh(p, f) ==
  LET keys == UNION {KeysOf(Body(p, f)[k]) : k \in DOMAIN Body(p, f)}
      params == IF f = Main THEN {} ELSE Range(p.functions[f].params)
  IN [key \in keys |-> IF key \in params THEN {} ELSE {0}]

Outputs(p, f, k, env) ==
  IF k > Len(Body(p, f)) THEN {<<>>}
  ELSE LET s == Body(p, f)[k]
           as(e, kind) == As(p, f, e, kind, env)
           then(V, key) == With(key, V, env, LAMBDA later : Outputs(p, f, k + 1, later))
           shown(what, values) == {<<<<what, values>>>> \o out : out \in Outputs(p, f, k + 1, env)}
           given == [j \in DOMAIN s.args |-> IF s.k = "command"
                       THEN as(s.args[j], KindOf(getTypeFromCommandType(s.takes[j])))
                       ELSE as(s.args[j], KindOf(getTypeFromAnnotation(p.functions[s.name].params[j][2])))]
       IN CASE s.k \in {"decl", "assign"} -> then(as(s.e, VariableKind(p, f, s.key)), s.key)
            [] s.k = "if" -> Then(as(s.e, "truth"), LAMBDA n : shown("if", <<n>>))
            [] s.k = "for" ->
                 LET from == as(s.from, VariableKind(p, f, s.key))
                 IN With(s.key, from, env, LAMBDA later : Rounds(p, f, k, later))
            [] s.k \in {"call", "command"} /\ {} \in Range(given) -> {}
            [] s.k = "call" /\ {} \notin Range(given) ->
                 Then(Outputs(p, s.name, 1, Fresh(p, s.name)), LAMBDA called :
                   {called \o out : out \in Outputs(p, f, k + 1, env)})
            [] s.k = "command" /\ {} \notin Range(given) ->
                 shown("command", [j \in DOMAIN given |-> CHOOSE n \in given[j] : TRUE])

Strict == WellTypedProgram(program, TRUE)
Loose == WellTypedProgram(program, FALSE)
Meanings == IF Strict THEN Outputs(program, Main, 1, Fresh(program, Main)) ELSE {}

-----------------------------------------------------------------------------
(* Properties *)

\* What compiles: a program that keeps the rules of types, as they can be seen
\* in the source, is converted, generated and taken by LLVM, in whatever order
\* its functions come; and what is taken breaks none of them (but for "and" and
\* "or" of numbers, which may pass where no condition needs their value).
AcceptedIffWellTyped ==
  /\ status \in {"fatal", "error", "crashed", "rejected"} => ~Strict
  /\ status \in {"run", "undefined", "done"} => Loose

\* What runs shows what the source says, step by step, as long as the numbers
\* on the way fit the narrowest type and nothing reads a parameter: casts to and
\* fro, the choice of the left operand's type and LLVM's instructions lose nothing.
SmallValuesAreExact ==
  \A meaning \in Meanings :
    /\ status # "undefined"
    /\ IsPrefix(output, meaning)
    /\ status = "done" => output = meaning

\* A literal that is stored has its own value there: Byte, Word and Dword stand
\* for uint8_t, uint16_t and uint32_t.
LiteralsKeepTheirValue ==
  \A k \in DOMAIN frames :
    LET body == Body(program, frames[k].fn)  at == frames[k].pos - 1
    IN at > 0 /\ body[at].k = "assign" /\ body[at].e.k = "int" /\ body[at].key[2] = ""
         => frames[k].env[body[at].key] = body[at].e.int

\* Conversion and generation come to an end, and so does the run of a program with
\* a meaning (another's may go on for ever, after the largest number the smallest).
Finishes ==
  /\ <>(status \notin {"convert", "generate"})
  /\ Meanings # {} ~> status = "done"
=============================================================================
