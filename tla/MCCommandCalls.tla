---------------------------- MODULE MCCommandCalls ----------------------------
(***************************************************************************)
(* CommandCalls for plugins of up to four symbols: overloads, capitals,    *)
(* names within names, entries that are no commands or cannot be parsed,   *)
(* and every kind of hash table; up to two of them in the SDK's directory  *)
(* or an additional one.  DBPro's string tables bring commands with two    *)
(* arguments and with letters that stand for no type.                      *)
(***************************************************************************)
EXTENDS CommandCalls, TLC

CONSTANTS none, Core, Twice, Capitals, Names, Broken, Pair, Both, SysV, Bare, Strings, User, Short, Again

Symbol(name, typeinfo) == [name |-> name, typeinfo |-> typeinfo]
Object(dyn, symbols) ==
  [dyn |-> dyn, symbols |-> symbols, exports |-> TRUE, symoffset |-> 1, strings |-> <<>>]
GnuDyn == <<"GNU_HASH", "STRTAB", "SYMTAB", "other", "SYMENT">>
Gnu(symbols) == Object(GnuDyn, symbols)
Entry(name, returns, types) ==
  [name |-> name, returns |-> returns, types |-> types, tokens |-> 4, keyword |-> FALSE]
Table(strings) == [Gnu(<<>>) EXCEPT !.strings = strings]

ab == <<"a", "b">>
a_b == <<"a", " ", "b">>
a_bb == <<"a", " ", "b", "b">>
aDollar == <<"a", "$">>
A3 == <<"A", "3">>

MCLibraries ==
  Core :> Gnu(<<Symbol(ab, <<"0", "(", "S", ")">>), Symbol(none, none),
                Symbol(ab, <<"0", "(", "L", ")">>), Symbol(aDollar, <<"S", "(", ")">>)>>)
  @@ Twice :> Gnu(<<Symbol(ab, <<"0", "(", "L", ")">>), Symbol(a_b, none)>>)
  @@ Capitals :> Gnu(<<Symbol(A3, <<"L", "(", "F", ")">>), Symbol(<<"A", "b">>, <<"0", "(", "F", ")">>)>>)
  @@ Names :> Gnu(<<Symbol(a_bb, <<"0", "(", ")">>), Symbol(a_b, <<"0", "(", "O", ")", "x">>),
                    Symbol(<<"a">>, <<"R", "(", "D", ")">>)>>)
  @@ Broken :> Gnu(<<Symbol(aDollar, <<"0", "(", ")">>), Symbol(ab, <<"0", "(", "L">>)>>)
  @@ Pair :> Gnu(<<Symbol(a_b, <<"0", "(", "L", "S", ")">>)>>)
  @@ Both :> Object(<<"HASH", "GNU_HASH", "STRTAB", "SYMTAB", "SYMENT">>,
                    <<Symbol(ab, <<"0", "(", "S", ")">>)>>)
  @@ SysV :> Object(<<"HASH", "STRTAB", "SYMTAB", "SYMENT">>, <<Symbol(a_bb, <<"0", "(", "R", ")">>)>>)
  @@ Bare :> [Object(GnuDyn, <<>>) EXCEPT !.exports = FALSE]
  @@ Strings :> Table(<<Entry(ab, FALSE, <<"L", "F">>), Entry(ab, FALSE, <<"F", "L">>),
                        Entry(ab, TRUE, <<"L", "F", "F">>), Entry(ab, FALSE, <<"L", "X">>),
                        [Entry(a_b, FALSE, <<"L">>) EXCEPT !.keyword = TRUE]>>)
  @@ User :> Table(<<Entry(ab, FALSE, <<"S", "L">>), Entry(A3, TRUE, <<"X", "0">>),
                     [Entry(a_b, FALSE, <<>>) EXCEPT !.tokens = 1],
                     Entry(a_b, FALSE, <<"L", "Q">>), Entry(a_b, FALSE, <<"F", "D">>)>>)
  @@ Again :> Table(<<Entry(ab, FALSE, <<"S">>)>>)
  @@ Short :> Table(<<[Entry(aDollar, FALSE, <<"L">>) EXCEPT !.tokens = 2]>>)

Objects == {Core, Twice, Capitals, Names, Broken, Pair, Both, SysV, Bare}
SomePluginDirs == {<<>>, <<none>>, <<{Core}>>}
Setup(sdk, win32, sdkDirs, pluginDirs) ==
  [sdk |-> sdk, win32 |-> win32, root |-> TRUE, sdkDirs |-> sdkDirs, pluginDirs |-> pluginDirs]
MCSetups ==
  {Setup("ODB", win32, <<dir>>, more) :
     win32 \in BOOLEAN, dir \in {none} \cup {{k, l} : k, l \in Objects}, more \in SomePluginDirs}
  \cup {Setup("DarkBASIC", win32, <<{Strings}, user, none>>, more) :
          win32 \in BOOLEAN, user \in {none, {User}, {Short}},
          more \in {<<>>, <<none, {User}>>, <<{Strings}>>}}
  \cup {Setup("DarkBASIC", TRUE, <<{Strings}, {Again}, none>>, <<{Again}>>),
        Setup("DarkBASIC", TRUE, <<{}, {Strings}, none>>, <<{User}>>)}
  \cup {[Setup(sdk, TRUE, <<none, none, none>>, <<>>) EXCEPT !.root = FALSE] : sdk \in {"ODB", "DarkBASIC"}}

MCTexts == {ab, <<"A", "b">>, a_b, a_bb, <<"a">>, aDollar, <<"a", "3">>, A3, <<"a", "b", "b">>, <<"b">>}
MCCallArgs ==
  {<<>>} \cup {<<type>> : type \in {"Byte", "Integer", "DoubleInteger", "Float", "String"}}
  \cup {"Byte", "Integer", "Float", "DoubleFloat", "String"} \X {"Integer", "Float", "DoubleFloat"}
=============================================================================
