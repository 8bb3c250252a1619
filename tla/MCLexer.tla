------------------------------- MODULE MCLexer -------------------------------
(***************************************************************************)
(* Files put together from pieces that bring out every class of character, *)
(* keywords, comments, line ends and escapes.                              *)
(***************************************************************************)
EXTENDS Lexer

CONSTANT MaxPieces

Pieces == {<<c>> : c \in {"n", "1", "_", " ", "\n", "\r", "\"", "'", "\\", "=", "-", "?"}}
          \cup {<<"I", "F">>, <<"R", "E", "M">>}
MCFiles == {FlattenSeq(p) : p \in BoundedSeq(Pieces, MaxPieces)}
           \cup {<<"\"">> \o FlattenSeq(p) \o <<"\"">> :
                  p \in BoundedSeq({<<c>> : c \in {"n", "0", "\"", "\\", "?"}}, MaxPieces)}

MCLetters == {"n", "I", "F", "R", "E", "M"}
MCChar == UNION {{p[i] : i \in 1 .. Len(p)} : p \in Pieces} \cup {"0", NUL}
MCKeywords == [w \in {<<"I", "F">>, <<"R", "E", "M">>} |-> IF Len(w) = 2 THEN "IF" ELSE "REM"]
=============================================================================
