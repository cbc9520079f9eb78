---------------------------- MODULE MCCommandLexer ----------------------------
(***************************************************************************)
(* Small files for CommandLexer: every sequence of up to four tokens over  *)
(* two words, a keyword, an integer, an annotation and another token, and  *)
(* every sequence of five over three of them; with commands of one to      *)
(* three words, one with an integer inside, one that ends in an annotation *)
(* and two that are or begin with the keyword.                             *)
(***************************************************************************)
EXTENDS CommandLexer, SequencesExt

Token(kind, word) == [kind |-> kind, word |-> word]
a == Token("symbol", "a")
b == Token("symbol", "b")
loop == Token("symbol", "loop")
three == Token("integer", "3")
dollar == Token("annotation", "$")
comma == Token("other", ",")
quoted == Token("string", "quoted")
EndOfFile == Token("end", "")

MCSources ==
  {Append(s, EndOfFile) :
     s \in BoundedSeq({a, b, loop, three, dollar, comma}, 4) \cup TupleOf({a, b, quoted}, 5)}

MCCommands ==
  {<<"a">>, <<"a", " ", "b">>, <<"a", " ", "b", " ", "a">>, <<"b", " ", "3", "b">>,
   <<"a", "$">>, <<"loop">>, <<"loop", " ", "b">>}
MCKeywords == {<<"loop">>}

\* A command that begins with an integer, as in "3d".
IntegerCommands == MCCommands \cup {<<"3", "b">>}
=============================================================================
