------------------------------- MODULE IrTypes -------------------------------
(***************************************************************************)
(* The types of the intermediate representation, Type of                   *)
(* src/odb-compiler/include/odb-compiler/ir/Node.hpp, and which of them    *)
(* the converter and the code generator turn into which.  "Complex" stands *)
(* for it and for the vectors, matrices and quaternions; types of user     *)
(* defined records are never made.                                         *)
(***************************************************************************)

Integral == {"DoubleInteger", "Integer", "Dword", "Word", "Byte", "Boolean"}
FloatingPoint == {"DoubleFloat", "Float"}
BuiltinTypes == Integral \cup FloatingPoint \cup {"String", "Complex"}
Types == BuiltinTypes \cup {"void"}

isIntegralType(type) == type \in Integral
isFloatingPointType(type) == type \in FloatingPoint

isTypeConvertible(source, target) ==
  \/ source = target
  \/ /\ isIntegralType(source) \/ isFloatingPointType(source)
     /\ isIntegralType(target) \/ isFloatingPointType(target)

\* The letters of Command::Type.
CommandTypes ==
  [L |-> "Integer", F |-> "Float", S |-> "String", O |-> "DoubleFloat",
   R |-> "DoubleInteger", D |-> "Dword"]
KnownLetter(letter) == letter \in DOMAIN CommandTypes \cup {"0"}
getTypeFromCommandType(letter) == IF letter = "0" THEN "void" ELSE CommandTypes[letter]
=============================================================================
