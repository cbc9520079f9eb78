---------------------------- MODULE DynamicLibrary ----------------------------
(***************************************************************************)
(* DynamicLibrary of src/odb-sdk/src on Linux: which shared objects open   *)
(* finds its tables in, and which symbols a loop up to getSymbolCount sees.*)
(* A shared object is a record: dyn, the tags of its dynamic section in    *)
(* order, symbols, its symbol table without the null symbol, exports,      *)
(* whether any symbol is in its GNU hash table, and symoffset, the index   *)
(* of the first that may be.                                               *)
(***************************************************************************)
EXTENDS Integers, Sequences, FiniteSetsExt

Tables == {"SYMTAB", "HASH", "GNU_HASH", "SYMENT", "STRTAB"}

\* The search stops at the fourth entry it knows.
Found(library) ==
  LET dyn == library.dyn
      known(k) == Cardinality({j \in 1 .. k : dyn[j] \in Tables})
  IN {dyn[k] : k \in {k \in DOMAIN dyn : dyn[k] \in Tables /\ known(k) <= 4}}

open(library) ==
  /\ {"SYMTAB", "SYMENT", "STRTAB"} \subseteq Found(library)
  /\ Found(library) \cap {"HASH", "GNU_HASH"} # {}

\* nchain of a hash table counts the null symbol; the walk through the last
\* chain of a GNU hash table ends at the index of the last symbol; without
\* any chain the result is symoffset.
getSymbolCount(library) ==
  LET n == Len(library.symbols)
  IN IF "GNU_HASH" \notin Found(library) THEN n + 1
     ELSE IF library.exports THEN n ELSE library.symoffset

\* getSymbolAt(idx) is entry idx + 1 of the table, which is not checked.
getSymbolAt(library, idx) == library.symbols[idx + 1]
InTable(library, idx) == idx < Len(library.symbols)
=============================================================================
