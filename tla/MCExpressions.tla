---------------------------- MODULE MCExpressions ----------------------------
(***************************************************************************)
(* Expressions for widths of 1, 4, 6, 8 and 10 bits in the place of 1, 8,  *)
(* 16, 32 and 64: every operator between every two kinds of operands, in   *)
(* an argument, an assignment or a condition, some of these nested; for    *)
(* loops around zero and at the limits; variables declared before, after   *)
(* and between uses; functions with parameters and results.                *)
(***************************************************************************)
EXTENDS ExpressionMeaning

MCWidth == [Boolean |-> 1, Byte |-> 4, Word |-> 6, Integer |-> 8, Dword |-> 8, DoubleInteger |-> 10]

Num(n) == [k |-> "int", int |-> n]
Lit(type, value) == [k |-> "literal", type |-> type, value |-> value]
Var(key) == [k |-> "var", key |-> key]
Unary(op, e) == [k |-> "unary", op |-> op, of |-> e]
Binary(op, l, r) == [k |-> "binary", op |-> op, lhs |-> l, rhs |-> r]
CallOf(name, args) == [k |-> "call", name |-> name, args |-> args]
CommandOf(takes, args, ret) == [k |-> "command", takes |-> takes, args |-> args, ret |-> ret]

Vx == <<"x", "">>  Vn == <<"n", "">>  Vb == <<"b", "">>  Vd == <<"d", "">>
Vy == <<"y", "#">>  Vs == <<"s", "$">>
Decl(key, type, e) == [k |-> "decl", key |-> key, type |-> type, e |-> e]
Assign(key, e) == [k |-> "assign", key |-> key, e |-> e]
If(e) == [k |-> "if", e |-> e]
For(key, from, to, step) == [k |-> "for", key |-> key, from |-> from, to |-> to, step |-> step]
Show(letter, e) == CommandOf(<<letter>>, <<e>>, "0")
ExitFunction(e) == [k |-> "exitfunction", e |-> <<e>>]
BareExitFunction == [k |-> "exitfunction", e |-> <<>>]
Program(main) == [main |-> main, functions |-> <<>>]
Function(params, body, ret) == [params |-> params, body |-> body, ret |-> ret]

BinaryOps ==
  Comparisons \cup Shifts \cup OnBits \cup {"ADD", "SUB", "MUL", "DIV", "MOD", "POW", "BITWISE_NOT"}

\* x = -3, y# = 1.5, d = 2.0, b = true; n and s$ are not assigned.
Start ==
  <<Decl(Vb, "Boolean", Lit("Boolean", 1)), Decl(Vd, "DoubleFloat", Num(2)),
    Assign(Vx, Unary("NEGATE", Num(3))), Assign(Vy, Lit("Float", 3))>>
After(use) == Program(Start \o <<use>>)
Leaves ==
  {Num(0), Num(1), Num(7), Num(15), Var(Vx), Var(Vy), Var(Vd), Var(Vb), Var(Vs), Lit("Float", 5),
   CommandOf(<<>>, <<>>, "L")}
Few == {Num(2), Num(130), Var(Vx), Var(Vb), Lit("Float", 1)}
Inner ==
  {Binary(op, l, r) : op \in {"ADD", "DIV", "LESS_THAN", "LOGICAL_AND"}, l \in Few, r \in Few}
    \cup {Unary(op, e) : op \in {"NEGATE", "LOGICAL_NOT"}, e \in Leaves}
Outer ==
  {Binary(op, l, r) : op \in {"SUB", "EQUAL", "LOGICAL_OR", "BITWISE_XOR"}, l \in Inner,
                      r \in {Num(1), Var(Vx), Var(Vb)}}
    \cup {Binary(op, l, r) : op \in {"MUL", "LOGICAL_AND"}, l \in {Num(1), Var(Vy), Var(Vb)}, r \in Inner}
Limits == {0, 1, 7, 8, 15, 16, 63, 64, 127, 128, 255, 256}

ExpressionPrograms ==
  {After(Show("L", Binary(op, l, r))) : op \in BinaryOps, l \in Leaves, r \in Leaves}
    \cup UNION {{Program(Start \o <<use, Show("R", Var(Vn))>>) :
                   use \in {Show("L", e), Assign(Vn, e), If(e)}} : e \in Inner}
    \cup {After(If(e)) : e \in Outer}
    \cup {Program(<<Decl(Vn, type, Num(v)), Show(letter, Var(Vn))>>) :
            type \in Integral \cup {"Float", "DoubleFloat", "String"}, v \in Limits,
            letter \in {"L", "F", "R", "S"}}
    \cup {Program(<<Assign(Vx, Num(v)), Show("L", Var(Vx))>>) : v \in Limits}

Counters == {Num(0), Num(3), Num(6), Num(9), Unary("NEGATE", Num(2)), Lit("Float", 5)}
ForPrograms ==
  {Program(<<For(Vn, from, to, step), Show("L", Var(Vn))>>) :
     from \in Counters, to \in Counters, step \in {<<>>} \cup {<<e>> : e \in Counters}}
    \cup {Program(<<Decl(Vn, type, Num(1)), For(Vn, Num(5), Num(7), <<>>)>>) :
            type \in {"Byte", "Boolean", "Float", "String"}}
    \cup {Program(<<For(Vn, Num(1), Binary("SUB", Num(5), Var(Vn)), <<Var(Vx)>>)>>),
          Program(<<Assign(Vx, Num(1)), For(Vn, Num(1), Binary("SUB", Num(7), Var(Vn)), <<Var(Vx)>>)>>)}

DeclPrograms ==
  {Program(<<first, second, third>>) :
     first \in {Assign(Vx, Num(2)), Decl(Vx, "Word", Num(5)), Show("L", Var(Vy))},
     second \in {Decl(Vx, "Float", Var(Vx)), Decl(Vy, "Integer", Num(20)), Assign(Vy, Var(Vx)), If(Var(Vs))},
     third \in {Decl(Vs, "String", Lit("String", 0)), Assign(Vx, Var(Vs)), Show("F", Var(Vy))}}

\* f with a parameter and a result; g, which uses f or not.
Square == Binary("POW", Var(Vx), Num(2))
FunctionPrograms ==
  {[main |-> main,
    functions |-> [f |-> Function(<<Vx>>, body, ret), g |-> Function(<<>>, <<>>, gret)]] :
     main \in {<<CallOf("f", <<Num(4)>>), Show("L", Var(Vn))>>, <<Assign(Vn, CallOf("f", <<Num(4)>>))>>,
               <<CallOf("g", <<>>), CallOf("f", <<Lit("String", 0)>>)>>, <<CallOf("f", <<>>)>>,
               <<CallOf("g", <<>>)>>, <<Show("L", CallOf("h", <<>>))>>},
     body \in {<<>>, <<Show("L", Var(Vx))>>, <<Assign(Vx, Num(6)), Show("L", Var(Vx)), CallOf("g", <<>>)>>,
               <<BareExitFunction>>, <<ExitFunction(Var(Vx))>>, <<ExitFunction(Square)>>,
               <<ExitFunction(Square), Show("L", Num(1))>>},
     ret \in {<<>>, <<Var(Vx)>>, <<Binary("ADD", Var(Vx), Num(1))>>, <<Binary("ADD", Var(Vs), Var(Vx))>>,
            <<Binary("LOGICAL_XOR", Var(Vx), Num(1))>>},
     gret \in {<<>>, <<CallOf("f", <<Num(1)>>)>>, <<Binary("ADD", CallOf("f", <<Num(1)>>), Num(1))>>}}

MCPrograms == ExpressionPrograms \cup ForPrograms \cup DeclPrograms \cup FunctionPrograms
=============================================================================
