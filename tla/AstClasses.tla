----------------------------- MODULE AstClasses -----------------------------
(***************************************************************************)
(* The node classes of the AST (src/odb-compiler/src/ast/*.cpp): which     *)
(* children a node of each class owns, in the order in which accept()      *)
(* visits them, of which classes they may be, and which may be null.       *)
(* A class whose children are vectors has an element type instead.         *)
(* adopts is FALSE where swapChild does not make the node the parent of    *)
(* the child it swaps in.                                                  *)
(***************************************************************************)
EXTENDS Naturals, Sequences

Required(types) == [types |-> types, optional |-> FALSE, swaps |-> TRUE]
Optional(types) == [types |-> types, optional |-> TRUE, swaps |-> TRUE]
\* A child on which swapChild ends in its assert(false).
Unswappable(slot) == [slot EXCEPT !.swaps = FALSE]

Fixed(slots) == [slots |-> slots, elements |-> {}, adopts |-> TRUE]
ListOf(types) == [slots |-> <<>>, elements |-> types, adopts |-> TRUE]
NoChildren == Fixed(<<>>)
WithoutAdopting(class) == [class EXCEPT !.adopts = FALSE]

-----------------------------------------------------------------------------
\* The abstract classes.
LValue == {"VarRef", "ArrayRef", "UDTFieldOuter", "UDTFieldInner"}
Expression ==
  LValue \cup {"Literal", "BinaryOp", "UnaryOp", "CommandExpr", "FuncCallExpr",
               "FuncCallExprOrArrayRef", "InitializerList"}
AnyAssignment == {"VarAssignment", "ArrayAssignment", "UDTFieldAssignment"}
Loop == {"InfiniteLoop", "WhileLoop", "UntilLoop", "ForLoop"}
AnyVarDecl == {"VarDecl", "UDTVarDecl"}
AnyArrayDecl == {"ArrayDecl", "UDTArrayDecl"}
Statement ==
  AnyAssignment \cup Loop \cup AnyVarDecl \cup AnyArrayDecl
    \cup {"CommandStmnt", "Conditional", "ConstDeclExpr", "Exit", "FuncCallStmnt",
          "FuncDecl", "FuncExit", "Goto", "Label", "Select", "SubCall", "SubReturn",
          "UDTDecl"}

\* The concrete classes.
Symbol == NoChildren
AnnotatedSymbol == NoChildren
ScopedAnnotatedSymbol == NoChildren
UDTRef == NoChildren
Literal == NoChildren
ArgList == ListOf(Expression)
InitializerList == ListOf(Expression)
Block == ListOf(Statement)
VarRef == Fixed(<<Required({"AnnotatedSymbol"})>>)
ArrayRef == Fixed(<<Required({"AnnotatedSymbol"}), Required({"ArgList"})>>)
UDTFieldOuter == WithoutAdopting(Fixed(<<Required(Expression), Required(LValue)>>))
UDTFieldInner == WithoutAdopting(Fixed(<<Required(LValue), Required(LValue)>>))
BinaryOp == Fixed(<<Required(Expression), Required(Expression)>>)
UnaryOp == Fixed(<<Required(Expression)>>)
CommandExpr == Fixed(<<Optional({"ArgList"})>>)
CommandStmnt == Fixed(<<Optional({"ArgList"})>>)
FuncCallExpr == Fixed(<<Required({"AnnotatedSymbol"}), Optional({"ArgList"})>>)
FuncCallExprOrArrayRef == Fixed(<<Required({"AnnotatedSymbol"}), Optional({"ArgList"})>>)
FuncCallStmnt == Fixed(<<Required({"AnnotatedSymbol"}), Optional({"ArgList"})>>)
VarAssignment == Fixed(<<Required({"VarRef"}), Required(Expression)>>)
ArrayAssignment == Fixed(<<Required({"ArrayRef"}), Required(Expression)>>)
UDTFieldAssignment == Fixed(<<Required({"UDTFieldOuter"}), Required(Expression)>>)
ConstDeclExpr == Fixed(<<Required({"AnnotatedSymbol"}), Required(Expression)>>)
VarDecl == Fixed(<<Required({"ScopedAnnotatedSymbol"}), Required({"InitializerList"})>>)
UDTVarDecl ==
  WithoutAdopting(Fixed(<<Unswappable(Required({"ScopedAnnotatedSymbol"})),
                          Unswappable(Required({"UDTRef"})), Optional({"InitializerList"})>>))
ArrayDecl == Fixed(<<Required({"ScopedAnnotatedSymbol"}), Required({"ArgList"})>>)
UDTArrayDecl ==
  WithoutAdopting(Fixed(<<Required({"ScopedAnnotatedSymbol"}), Required({"ArgList"}),
                          Required({"UDTRef"})>>))
UDTDecl == WithoutAdopting(Fixed(<<Required({"Symbol"}), Required({"UDTDeclBody"})>>))
UDTDeclBody == WithoutAdopting(ListOf(AnyVarDecl \cup AnyArrayDecl))
Conditional == Fixed(<<Required(Expression), Optional({"Block"}), Optional({"Block"})>>)
InfiniteLoop == Fixed(<<Optional({"Block"})>>)
WhileLoop == Fixed(<<Required(Expression), Optional({"Block"})>>)
UntilLoop == Fixed(<<Required(Expression), Optional({"Block"})>>)
ForLoop ==
  Fixed(<<Required(AnyAssignment), Required(Expression), Optional(Expression),
          Optional({"AnnotatedSymbol"}), Optional({"Block"})>>)
Exit == NoChildren
FuncDecl ==
  Fixed(<<Required({"AnnotatedSymbol"}), Unswappable(Optional({"ArgList"})), Optional({"Block"}),
          Optional(Expression)>>)
FuncExit == Fixed(<<Optional(Expression)>>)
Goto == WithoutAdopting(Fixed(<<Required({"Symbol"})>>))
Label == Fixed(<<Required({"Symbol"})>>)
SubCall == Fixed(<<Required({"Symbol"})>>)
SubReturn == NoChildren
Select == Fixed(<<Required(Expression), Optional({"CaseList"})>>)
CaseList == ListOf({"Case", "DefaultCase"})
Case == Fixed(<<Required(Expression), Optional({"Block"})>>)
DefaultCase == Fixed(<<Optional({"Block"})>>)

\* Every class by its name.
Class ==
  [Symbol |-> Symbol, AnnotatedSymbol |-> AnnotatedSymbol,
   ScopedAnnotatedSymbol |-> ScopedAnnotatedSymbol, UDTRef |-> UDTRef,
   Literal |-> Literal, ArgList |-> ArgList, InitializerList |-> InitializerList,
   Block |-> Block, VarRef |-> VarRef, ArrayRef |-> ArrayRef,
   UDTFieldOuter |-> UDTFieldOuter, UDTFieldInner |-> UDTFieldInner,
   BinaryOp |-> BinaryOp, UnaryOp |-> UnaryOp, CommandExpr |-> CommandExpr,
   CommandStmnt |-> CommandStmnt, FuncCallExpr |-> FuncCallExpr,
   FuncCallExprOrArrayRef |-> FuncCallExprOrArrayRef, FuncCallStmnt |-> FuncCallStmnt,
   VarAssignment |-> VarAssignment, ArrayAssignment |-> ArrayAssignment,
   UDTFieldAssignment |-> UDTFieldAssignment, ConstDeclExpr |-> ConstDeclExpr,
   VarDecl |-> VarDecl, UDTVarDecl |-> UDTVarDecl, ArrayDecl |-> ArrayDecl,
   UDTArrayDecl |-> UDTArrayDecl, UDTDecl |-> UDTDecl, UDTDeclBody |-> UDTDeclBody,
   Conditional |-> Conditional, InfiniteLoop |-> InfiniteLoop, WhileLoop |-> WhileLoop,
   UntilLoop |-> UntilLoop, ForLoop |-> ForLoop, Exit |-> Exit, FuncDecl |-> FuncDecl,
   FuncExit |-> FuncExit, Goto |-> Goto, Label |-> Label, SubCall |-> SubCall,
   SubReturn |-> SubReturn, Select |-> Select, CaseList |-> CaseList, Case |-> Case,
   DefaultCase |-> DefaultCase]

ClassNames == DOMAIN Class
IsList(class) == Class[class].elements # {}

\* What slot i of a node of that class accepts.
Accepts(class, i) ==
  IF IsList(class) THEN Required(Class[class].elements) ELSE Class[class].slots[i]
=============================================================================
