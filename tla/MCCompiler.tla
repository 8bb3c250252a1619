----------------------------- MODULE MCCompiler -----------------------------
(***************************************************************************)
(* Programs of three kinds: expressions of all shapes, control flow of all *)
(* shapes, and some that are turned down.                                  *)
(***************************************************************************)
EXTENDS Compiler

CONSTANT MaxBlockStatements

\* A piece of a program is a sequence of [type, text].
K(type) == <<[type |-> type, text |-> ""]>>
I(name) == <<[type |-> "IDENT", text |-> name]>>
N(digits) == <<[type |-> "NUMBER", text |-> digits]>>
Str(string) == <<[type |-> "STRING", text |-> string]>>

LetTo(name, expr) == K("LET") \o I(name) \o K("EQ") \o expr
PrintOf(expr) == K("PRINT") \o expr
InputTo(name) == K("INPUT") \o I(name)
WithInput(statement) == LetTo("a", N("0")) \o InputTo("a") \o statement

\* Expressions of three operands, with all operators and signs.
Operand == {I("a"), K("MINUS") \o N("3")}
Op == {K("PLUS"), K("MINUS"), K("MULT"), K("DIV")}
Expr == {x \o p \o y \o q \o z : x, y \in Operand, z \in {N("2")}, p, q \in Op}
Expressions == {WithInput(LetTo("b", e) \o PrintOf(I("b"))) : e \in Expr}

Comparisons ==
  {WithInput(K(kw[1]) \o e \o K(op) \o N("1") \o K(kw[2]) \o PrintOf(I("a"))
     \o LetTo("a", N("1") \o K("DIV") \o I("a")) \o K(kw[3])) :
     kw \in {<<"IF", "THEN", "ENDIF">>, <<"WHILE", "REPEAT", "ENDWHILE">>},
     op \in {"EQEQ", "NOTEQ", "GT", "GTE", "LT", "LTE"},
     e \in {I("a"), K("PLUS") \o I("a") \o K("MULT") \o N("2")}}

\* Blocks of n statements, nested or one after the other.
Simple == {K("LABEL") \o I("l"), K("GOTO") \o I("l"), PrintOf(Str("s")),
           LetTo("a", I("a") \o K("PLUS") \o N("1"))}
Around == {<<"IF", "THEN", "ENDIF">>, <<"WHILE", "REPEAT", "ENDWHILE">>}
Blocks[n \in Nat] ==
  IF n = 0 THEN {<<>>}
  ELSE {s \o rest : s \in Simple, rest \in Blocks[n - 1]}
         \cup UNION {{K(kw[1]) \o I("a") \o K("LT") \o N("1") \o K(kw[2]) \o inner \o K(kw[3])
                        \o rest :
                        kw \in Around, inner \in Blocks[k], rest \in Blocks[n - 1 - k]} :
                     k \in 0 .. n - 1}
Nested(block) == K("WHILE") \o I("a") \o K("LT") \o N("1") \o K("REPEAT") \o block \o K("ENDWHILE")
ControlFlow ==
  {WithInput(block) : block \in UNION {Blocks[n] : n \in 0 .. MaxBlockStatements}
                                  \cup {Nested(block) : block \in Blocks[MaxBlockStatements]}}

Others ==
  {<<>>, K("PRINT"), K("ENDIF"), PrintOf(Str("s")) \o PrintOf(Str("t")) \o PrintOf(Str("s")),
   K("LABEL") \o I("b") \o InputTo("b"), PrintOf(I("b")) \o LetTo("b", N("1")),
   K("LABEL") \o I("l") \o K("GOTO") \o N("1"),
   LetTo("a", K("MINUS") \o N("3") \o K("MINUS") \o N("1"))
     \o PrintOf(I("a") \o K("DIV") \o K("MINUS") \o N("1")) \o PrintOf(Str("s"))}

MCPrograms ==
  {[tokens |-> [i \in 1 .. Len(p) |-> p[i].type], text |-> [i \in 1 .. Len(p) |-> p[i].text]] :
     p \in Expressions \cup Comparisons \cup ControlFlow \cup Others}

MCNumberValue == [d \in {"0", "1", "2", "3"} |->
  CASE d = "0" -> 0 [] d = "1" -> 1 [] d = "2" -> 2 [] d = "3" -> 3]
=============================================================================
