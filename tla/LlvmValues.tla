----------------------------- MODULE LlvmValues -----------------------------
(***************************************************************************)
(* The types and values of the generated code, as the code generator of    *)
(* src/odb-compiler/src/ir/codegen/CodeGenerator.cpp asks LLVM for them.   *)
(* An integer is the number its bits mean as a signed one, a float is a    *)
(* number of halves (an operation rounds to the next one towards zero).    *)
(* A value that may not exist is a set of at most one.                     *)
(***************************************************************************)
EXTENDS IrTypes, Integers, Sequences, Bitwise

CONSTANT Width    \* [integral type -> bits]
ASSUME WidthAssumption ==
  /\ Width \in [Integral -> Nat \ {0}]
  /\ Width["Boolean"] = 1 /\ 1 < Width["Byte"] /\ Width["Byte"] < Width["Word"]
  /\ Width["Word"] < Width["Integer"] /\ Width["Integer"] = Width["Dword"]
  /\ Width["Integer"] < Width["DoubleInteger"]

\* Integer and Dword are one type of LLVM.
getLLVMType(type) == IF type = "Dword" THEN "Integer" ELSE type
IsInteger(llvm) == isIntegralType(llvm)
IsFloatingPoint(llvm) == isFloatingPointType(llvm)

Abs(n) == IF n < 0 THEN -n ELSE n
Signed(n, w) == LET u == n % 2^w IN IF u >= 2^(w - 1) THEN u - 2^w ELSE u
Wrapped(n, llvm) == Signed(n, Width[llvm])
Representable(n, llvm) == Wrapped(n, llvm) = n
Quotient(a, b) == LET q == Abs(a) \div Abs(b) IN IF (a < 0) = (b < 0) THEN q ELSE -q
Remainder(a, b) == a - b * Quotient(a, b)

\* Mutant: narrower integers are filled up with zeros.
ZeroExtended(n, from, to) == Wrapped(n % 2^Width[from], to)
\* CreateIntCast(_, _, isSigned = true)
IntCast(n, from, to) == Wrapped(n, to)

Cast(n, from, to) ==
  IF from = to \/ (IsFloatingPoint(from) /\ IsFloatingPoint(to)) THEN {n}
  ELSE IF IsInteger(from) /\ IsInteger(to) THEN {IntCast(n, from, to)}
  ELSE IF IsInteger(from) THEN {2 * n}
  ELSE {m \in {Quotient(n, 2)} : Representable(m, to)}

Bits(op, a, b, w) ==
  LET x == a % 2^w  y == b % 2^w
  IN Signed(CASE op \in {"BITWISE_AND", "LOGICAL_AND"} -> x & y
              [] op \in {"BITWISE_OR", "LOGICAL_OR"} -> x | y
              [] OTHER -> x ^^ y, w)

Comparisons == {"LESS_THAN", "LESS_EQUAL", "GREATER_THAN", "GREATER_EQUAL", "EQUAL", "NOT_EQUAL"}
Compared(op, a, b) ==
  CASE op = "LESS_THAN" -> a < b
    [] op = "LESS_EQUAL" -> a <= b
    [] op = "GREATER_THAN" -> a > b
    [] op = "GREATER_EQUAL" -> a >= b
    [] op = "EQUAL" -> a = b
    [] OTHER -> a # b

Logical == {"LOGICAL_OR", "LOGICAL_AND", "LOGICAL_XOR"}
OnBits == {"BITWISE_OR", "BITWISE_AND", "BITWISE_XOR"} \cup Logical
Division == {"DIV", "MOD"}
Shifts == {"SHIFT_LEFT", "SHIFT_RIGHT"}

\* An instruction of integers with w bits; none where LLVM leaves it undefined.
IntegerOp(op, a, b, w) ==
  IF op \in Division /\ (b = 0 \/ (a = -(2^(w - 1)) /\ b = -1)) THEN {}
  ELSE IF op \in Shifts /\ b \notin 0 .. w - 1 THEN {}
  ELSE {Signed(CASE op = "ADD" -> a + b
                 [] op = "SUB" -> a - b
                 [] op = "MUL" -> a * b
                 [] op = "DIV" -> Quotient(a, b)
                 [] op = "MOD" -> Remainder(a, b)
                 [] op = "SHIFT_LEFT" -> a * 2^b
                 [] op = "SHIFT_RIGHT" -> a \div 2^b
                 [] op = "BITWISE_NOT" -> -a - 1
                 [] op \in OnBits -> Bits(op, a, b, w), w)}
\* Of floats; a division by zero has no result that halves could count.
FloatOp(op, a, b) ==
  IF op \in Division /\ b = 0 THEN {}
  ELSE {CASE op = "ADD" -> a + b
          [] op = "SUB" -> a - b
          [] op = "MUL" -> Quotient(a * b, 2)
          [] op = "DIV" -> Quotient(2 * a, b)
          [] op = "MOD" -> Remainder(a, b)}
=============================================================================
