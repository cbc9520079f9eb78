--------------------------- MODULE MCAstLifecycle ---------------------------
(***************************************************************************)
(* Programs for AstLifecycle, written as the reductions of their parse: a  *)
(* statement of every kind, and every expression up to two operators over  *)
(* literals, variables and calls in the places where expressions stand.    *)
(***************************************************************************)
EXTENDS AstLifecycle, SequencesExt

Do(do, class, tag, pops, kids) ==
  [do |-> do, class |-> class, tag |-> tag, pops |-> pops, kids |-> kids]
InOrder(n) == [i \in 1 .. n |-> i]
New(class, n) == <<Do("new", class, "none", n, InOrder(n))>>
NewTagged(class, tag, n) == <<Do("new", class, tag, n, InOrder(n))>>
Placed(class, pops, kids) == <<Do("new", class, "none", pops, kids)>>
AppendRule == <<Do("append", "none", "none", 2, <<>>)>>
NullRule == <<Do("null", "none", "none", 0, <<>>)>>

\* Expressions.
Name == New("AnnotatedSymbol", 0)
NameStr == NewTagged("AnnotatedSymbol", "annotated", 0)
Lit == New("Literal", 0)
Var == Name \o New("VarRef", 1)
VarStr == NameStr \o New("VarRef", 1)
Args(e) == e \o New("ArgList", 1)
Args2(d, e) == Args(d) \o e \o AppendRule
Call0 == Name \o Placed("FuncCallExpr", 1, <<1, 0>>)
CallOrArray(args) == Name \o args \o New("FuncCallExprOrArrayRef", 2)
Command(e) == Args(e) \o New("CommandExpr", 1)
Not(d, e) == d \o e \o NewTagged("BinaryOp", "not", 2)
Plus(d, e) == d \o e \o NewTagged("BinaryOp", "plus", 2)
Minus(e) == e \o New("UnaryOp", 1)
Element(args) == Name \o args \o New("ArrayRef", 2)
Field(left) == left \o Var \o New("UDTFieldOuter", 2)
Field2(left) == left \o Var \o VarStr \o New("UDTFieldInner", 2) \o New("UDTFieldOuter", 2)

\* Statements.
Assign(e) == Var \o e \o New("VarAssignment", 2)
Statements(list) == list[1] \o New("Block", 1) \o FlattenSeq([i \in 1 .. Len(list) - 1 |-> list[i + 1] \o AppendRule])
Body(s) == Statements(<<s>>)
Inc(lvalue, class) == lvalue \o <<Do("incdec", class, "none", 1, <<>>)>>
IncBy(lvalue, class, e) == lvalue \o e \o <<Do("incdec", class, "none", 2, <<>>)>>
SubReturn0 == New("SubReturn", 0)
OneLine(pops, kids) == <<Do("oneline", "none", "none", pops, kids)>>
Scoped == New("ScopedAnnotatedSymbol", 0)
DeclInt == Scoped \o <<Do("decl", "VarDecl", "none", 1, <<>>)>>
DeclUDT == Scoped \o New("UDTRef", 0) \o Placed("UDTVarDecl", 2, <<1, 2, 0>>)
Dim == Scoped \o Args(Lit) \o New("ArrayDecl", 2)
Initialized(decl, list) == decl \o list \o <<Do("initializer", "none", "none", 2, <<>>)>>
List(d, e) == d \o New("InitializerList", 1) \o e \o AppendRule
CaseOf(e, body) == e \o body \o New("Case", 2)
CaseEmpty(e) == e \o Placed("Case", 1, <<1, 0>>)
Default0 == Placed("DefaultCase", 0, <<0>>)
DefaultOf(body) == body \o New("DefaultCase", 1)
SelectOf(cases) == Var \o cases \o New("Select", 2)
Cases(c1, c2) == c1 \o New("CaseList", 1) \o c2 \o AppendRule

Program(body) == body \o <<Do("program", "none", "none", 1, <<>>)>>
File(s) == Program(Body(s))

-----------------------------------------------------------------------------
Leaves == {Lit, Call0}
Pairs == {Not(d, e) : d \in Leaves, e \in Leaves} \cup {Plus(Lit, Lit)}
Nested == {Not(d, e) : d \in Pairs, e \in Leaves \cup Pairs} \cup {Not(d, e) : d \in Leaves, e \in Pairs}
ExpressionFiles == {File(Assign(e)) : e \in Pairs \cup Nested}

\* `0 .. v', the operator without side effects, wherever an expression stands.
Pure == Not(Lit, Var)
Jump(class) == New("Symbol", 0) \o New(class, 1)
ForOf(pops, kids) == Placed("ForLoop", pops, kids)

Assignments ==
  {Inc(VarStr, "VarAssignment"),
   IncBy(Element(Args(Pure)), "ArrayAssignment", Pure),
   Inc(Field(Element(Args2(Lit, Pure))), "UDTFieldAssignment"),
   Inc(Element(Args(Not(Lit, Call0))), "ArrayAssignment"),
   Assign(CallOrArray(Args(Pure))),
   Assign(Field(Command(Pure))),
   Assign(Minus(Field(VarStr))),
   Assign(Field2(Var))}
Blocks ==
  {Pure \o Assign(Lit) \o SubReturn0 \o OneLine(3, <<1, 2, 3>>),
   Pure \o Assign(Pure) \o OneLine(2, <<1, 2, 0>>),
   Pure \o Assign(Pure) \o OneLine(2, <<1, 0, 2>>),
   Lit \o Body(Assign(Lit)) \o Pure \o Body(SubReturn0) \o NullRule
     \o <<Do("elseif", "none", "none", 3, <<1, 2, 3>>)>> \o New("Conditional", 3),
   Pure \o Body(Assign(Pure)) \o NullRule \o New("Conditional", 3),
   Pure \o Body(Assign(Pure)) \o New("WhileLoop", 2),
   Body(New("Exit", 0)) \o Pure \o Placed("UntilLoop", 2, <<2, 1>>),
   Body(Assign(Pure)) \o New("InfiniteLoop", 1),
   Placed("InfiniteLoop", 0, <<0>>),
   Assign(Lit) \o Pure \o Pure \o Body(Assign(Pure)) \o Name \o ForOf(5, <<1, 2, 3, 5, 4>>),
   Assign(Lit) \o Pure \o ForOf(2, <<1, 2, 0, 0, 0>>),
   Name \o Args(Var) \o Body(Pure \o New("FuncExit", 1)) \o Pure \o New("FuncDecl", 4),
   Name \o Body(Placed("FuncExit", 0, <<0>>)) \o Placed("FuncDecl", 2, <<1, 0, 2, 0>>)}
Selects ==
  {SelectOf(Cases(DefaultOf(Body(Assign(Pure))), CaseEmpty(Pure))),
   SelectOf(Cases(CaseOf(Pure, Body(Assign(Lit))), Default0)),
   SelectOf(Cases(Default0, Default0)),
   SelectOf(CaseEmpty(Lit) \o New("CaseList", 1)),
   Var \o Placed("Select", 1, <<1, 0>>)}
Declarations ==
  {Name \o Pure \o New("ConstDeclExpr", 2),
   DeclInt,
   Initialized(DeclInt, List(Pure, Lit)),
   Initialized(DeclUDT, List(Lit, Pure)),
   New("Symbol", 0) \o Dim \o New("UDTDeclBody", 1) \o DeclInt \o AppendRule
     \o Scoped \o Args(Lit) \o New("UDTRef", 0) \o New("UDTArrayDecl", 3) \o AppendRule
     \o New("UDTDecl", 2)}
Simple ==
  {Args2(Pure, Lit) \o New("CommandStmnt", 1),
   Placed("CommandStmnt", 0, <<0>>),
   Name \o Args(Pure) \o New("FuncCallStmnt", 2),
   Jump("Goto"), Jump("Label"), Jump("SubCall")}

StatementFiles == {File(s) : s \in Assignments \cup Blocks \cup Selects \cup Declarations \cup Simple}
TwoStatements == Program(Statements(<<Assign(Pure), Jump("Label")>>))

\* The same expressions where they are copied.
CopiedFiles == {File(Inc(Element(Args(e)), "ArrayAssignment")) : e \in Pairs \cup Nested}

MCInputs ==
  {<<x>> : x \in ExpressionFiles \cup CopiedFiles \cup StatementFiles \cup {NullRule}}
    \cup {<<x, y>> : x \in {TwoStatements, File(Jump("Goto"))}, y \in {TwoStatements, NullRule}}
    \cup {<<TwoStatements, TwoStatements, TwoStatements>>}

MCSymbols ==
  LET parsed == UNION {{files[i] : i \in DOMAIN files} : files \in MCInputs}
      of(file) ==
        LET symbols[k \in 1 .. Len(file) + 1] ==
              IF k = 1 THEN <<>>
              ELSE LET rule == file[k - 1]
                   IN Append(Under(symbols[k - 1], rule.pops),
                             Becomes(rule, Top(symbols[k - 1], rule.pops)))
        IN [k \in 1 .. Len(file) + 1 |-> symbols[k]]
  IN [file \in parsed |-> of(file)]

MCGroups ==
  {<<>>, <<"eliminate">>, <<"eliminate", "eliminate">>, <<"fields", "eliminate", "defaults">>}
=============================================================================
