----------------------------- MODULE MCFrontend -----------------------------
(***************************************************************************)
(* Short programs over two names and two strings, with some statements     *)
(* that do not parse.                                                      *)
(***************************************************************************)
EXTENDS Frontend

CONSTANT MaxStatements

\* A statement as the types and the texts of its tokens.
S(types, texts) == [tokens |-> types, text |-> texts]

Statements ==
  UNION {
    {S(<<"LET", "IDENT", "EQ", "NUMBER">>, <<"", n, "", "1">>) : n \in {"a", "b"}},
    {S(<<"LET", "IDENT", "EQ", "IDENT">>, <<"", "a", "", n>>) : n \in {"a", "b"}},
    {S(<<"LABEL", "IDENT">>, <<"", n>>) : n \in {"a", "b"}},
    {S(<<"GOTO", "IDENT">>, <<"", n>>) : n \in {"a", "b"}},
    {S(<<"PRINT", "STRING">>, <<"", n>>) : n \in {"s", "t"}},
    {S(<<"IF", "IDENT", "EQEQ", "NUMBER", "THEN">>, <<"", "a", "", "1", "">>),
     S(<<"ENDIF">>, <<"">>), S(<<"INPUT", "IDENT">>, <<"", "b">>),
     S(<<"GOTO", "NUMBER">>, <<"", "1">>), S(<<"LET", "NUMBER">>, <<"", "1">>)}}

RECURSIVE Concat(_)
Concat(list) ==
  IF list = <<>> THEN S(<<>>, <<>>)
  ELSE S(Head(list).tokens \o Concat(Tail(list)).tokens,
         Head(list).text \o Concat(Tail(list)).text)

MCPrograms == {Concat(l) : l \in UNION {[1 .. n -> Statements] : n \in 0 .. MaxStatements}}
=============================================================================
