----------------------------- MODULE GrammarProofs -----------------------------
(***************************************************************************)
(* What the proofs about the parser need to know of the grammar and of     *)
(* trees, whatever the state of the parser: what reading a token leaves of *)
(* a form, and which tokens may follow a text; which forms a statement has *)
(* and which places its items; and the functions that read a tree along    *)
(* its links.                                                              *)
(***************************************************************************)
EXTENDS Grammar, AstTreeProofs, WellFoundedInduction

-----------------------------------------------------------------------------
(***************************************************************************)
(* The forms of a statement.                                               *)
(***************************************************************************)
LEMMA FormCases ==
  ASSUME NEW kw
  PROVE  /\ kw = "PRINT" => Form(kw) = <<Token({"PRINT"}), TokenOr({"STRING"}, "EXPRESSION")>>
         /\ kw = "IF" => Form(kw) = <<Token({"IF"}), Part("COMPARISON"), Token({"THEN"}),
                                      Part("BLOCK"), Token({"ENDIF"})>>
         /\ kw = "WHILE" => Form(kw) = <<Token({"WHILE"}), Part("COMPARISON"), Token({"REPEAT"}),
                                         Part("BLOCK"), Token({"ENDWHILE"})>>
         /\ kw = "LET" => Form(kw) = <<Token({"LET"}), Ident, Token({"EQ"}), Part("EXPRESSION")>>
         /\ kw \notin {"PRINT", "IF", "WHILE", "LET"} => Form(kw) = <<Token({kw}), Ident>>
<1>1. kw = "PRINT" => kw # "IF" /\ kw # "WHILE" /\ kw # "LET"
  OBVIOUS
<1>2. kw = "IF" => kw # "PRINT" /\ kw # "WHILE" /\ kw # "LET"
  OBVIOUS
<1>3. kw = "WHILE" => kw # "PRINT" /\ kw # "IF" /\ kw # "LET"
  OBVIOUS
<1>4. kw = "LET" => kw # "PRINT" /\ kw # "IF" /\ kw # "WHILE"
  OBVIOUS
<1>5. kw \notin {"PRINT", "IF", "WHILE", "LET"} => kw # "PRINT" /\ kw # "IF" /\ kw # "WHILE" /\ kw # "LET"
  OBVIOUS
<1>. QED  BY <1>1, <1>2, <1>3, <1>4, <1>5, Zenon DEF Form

\* What may stand at a place of a rule; a statement has the places of its Form.
Fits(fn, kw, at, symbol) ==
  \/ fn = "PROGRAM" /\ at = 1 /\ symbol = "STATEMENT"
  \/ /\ fn = "STATEMENT" /\ at \in 1 .. Len(Form(kw))
     /\ \/ symbol \in Form(kw)[at].expect
        \/ symbol \in {"COMPARISON", "EXPRESSION"} /\ symbol = Form(kw)[at].call
        \/ symbol = "STATEMENT" /\ Form(kw)[at].call = "BLOCK"
  \/ fn = "COMPARISON" /\ at \in {1, 3} /\ symbol = "EXPRESSION"
  \/ fn = "COMPARISON" /\ at = 2 /\ symbol \in COMPARISON_OPS
  \/ fn = "EXPRESSION" /\ at = 1 /\ symbol = "TERM"
  \/ fn = "EXPRESSION" /\ at = 2 /\ symbol \in SIGNS
  \/ fn = "TERM" /\ at = 1 /\ symbol = "UNARY"
  \/ fn = "TERM" /\ at = 2 /\ symbol \in {"DIV", "MULT"}
  \/ fn = "UNARY" /\ at = 1 /\ symbol \in SIGNS
  \/ fn = "UNARY" /\ at = 2 /\ symbol = "PRIMARY"
  \/ fn = "PRIMARY" /\ at = 1 /\ symbol \in {"NUMBER", "IDENT"}

-----------------------------------------------------------------------------
(***************************************************************************)
(* What is left to read of a form.                                         *)
(***************************************************************************)
RULES == {"PROGRAM", "statements", "STATEMENT", "COMPARISON", "operator", "EXPRESSION", "terms",
          "TERM", "unaries", "UNARY", "PRIMARY"}

\* The atoms that the grammar is used with.
Atoms(atoms) == /\ TOKEN \subseteq atoms /\ atoms \subseteq SYMBOL

\* A symbol in front of a form.
Then(x, s) == <<x>> \o s

LEMMA ThenForm ==
  ASSUME NEW x \in SYMBOL, NEW s \in Seq(SYMBOL)
  PROVE  /\ Then(x, s) \in Seq(SYMBOL) /\ Then(x, s) # <<>>
         /\ Head(Then(x, s)) = x /\ Tail(Then(x, s)) = s
<1>1. PICK f : f = Then(x, s)
  OBVIOUS
<1>2. f \in Seq(SYMBOL) /\ Len(f) = Len(s) + 1 /\ f[1] = x /\ Len(s) \in Nat
  BY <1>1 DEF Then
<1>3. f # <<>>
  BY <1>2
<1>4. Head(f) = x
  BY <1>2
<1>5. Tail(f) = s
  BY <1>1, <1>2, <1>3 DEF Then
<1>. QED  BY <1>1, <1>2, <1>3, <1>4, <1>5

LEMMA FrontOf ==
  ASSUME NEW f \in Seq(SYMBOL), NEW s \in Seq(SYMBOL), f # <<>>
  PROVE  f \o s = Then(Head(f), Tail(f) \o s)
<1>1. PICK g, h, u : g = f \o s /\ u = Tail(f) \o s /\ h = <<Head(f)>> \o u
  OBVIOUS
<1>2. /\ Len(f) \in Nat \ {0} /\ Len(s) \in Nat
      /\ Tail(f) \in Seq(SYMBOL) /\ Len(Tail(f)) = Len(f) - 1
      /\ \A i \in 1 .. Len(f) - 1 : Tail(f)[i] = f[i + 1]
      /\ Head(f) = f[1]
  OBVIOUS
<1>3. /\ u \in Seq(SYMBOL) /\ Len(u) = Len(f) - 1 + Len(s)
      /\ \A i \in 1 .. Len(u) : u[i] = IF i <= Len(f) - 1 THEN Tail(f)[i] ELSE s[i - (Len(f) - 1)]
  BY <1>1, <1>2
<1>4. /\ g \in Seq(SYMBOL) /\ Len(g) = Len(f) + Len(s)
      /\ \A i \in 1 .. Len(g) : g[i] = IF i <= Len(f) THEN f[i] ELSE s[i - Len(f)]
  BY <1>1, <1>2
<1>5. /\ h \in Seq(SYMBOL) /\ Len(h) = 1 + Len(u)
      /\ \A i \in 1 .. Len(h) : h[i] = IF i = 1 THEN Head(f) ELSE u[i - 1]
  <2>1. <<Head(f)>> \in Seq(SYMBOL)
    BY <1>2
  <2>. QED  BY <1>1, <1>3, <2>1
<1>6. ASSUME NEW i \in 1 .. Len(g) PROVE g[i] = h[i]
  <2>1. CASE i = 1
    BY <1>2, <1>3, <1>4, <1>5, <2>1
  <2>2. CASE i # 1 /\ i <= Len(f)
    <3>1. i - 1 \in 1 .. Len(f) - 1 /\ i - 1 \in 1 .. Len(u) /\ i \in 1 .. Len(h)
      BY <1>2, <1>3, <1>4, <1>5, <2>2
    <3>2. g[i] = f[i] /\ h[i] = u[i - 1]
      BY <1>4, <1>5, <2>2, <3>1
    <3>3. u[i - 1] = Tail(f)[i - 1] /\ Tail(f)[i - 1] = f[(i - 1) + 1] /\ (i - 1) + 1 = i
      BY <1>2, <1>3, <1>4, <2>2, <3>1
    <3>. QED  BY <3>2, <3>3
  <2>3. CASE i # 1 /\ i > Len(f)
    <3>1. i - 1 \in 1 .. Len(u) /\ i \in 1 .. Len(h) /\ ~ (i - 1 <= Len(f) - 1)
      BY <1>2, <1>3, <1>4, <1>5, <2>3
    <3>2. i - 1 - (Len(f) - 1) = i - Len(f)
      BY <1>2, <1>4
    <3>3. g[i] = s[i - Len(f)] /\ h[i] = u[i - 1]
      BY <1>4, <1>5, <2>3, <3>1
    <3>4. u[i - 1] = s[i - 1 - (Len(f) - 1)]
      BY <1>3, <3>1
    <3>. QED  BY <3>2, <3>3, <3>4
  <2>. QED  BY <1>4, <2>1, <2>2, <2>3
<1>7. g = h
  BY <1>2, <1>3, <1>4, <1>5, <1>6
<1>. QED  BY <1>1, <1>7 DEF Then

LEMMA FormSplits ==
  ASSUME NEW s \in Seq(SYMBOL)
  PROVE  <<>> \o s = s /\ \A x \in SYMBOL : <<x>> \o s = Then(x, s)
BY DEF Then

LEMMA FormTwo ==
  ASSUME NEW s \in Seq(SYMBOL), NEW x \in SYMBOL, NEW y \in SYMBOL
  PROVE  <<x, y>> \o s = Then(x, Then(y, s))
<1>1. PICK f : f = <<x, y>>
  OBVIOUS
<1>2. f \in Seq(SYMBOL) /\ f # <<>> /\ Head(f) = x /\ Tail(f) = <<y>>
  BY <1>1
<1>3. f \o s = Then(Head(f), Tail(f) \o s)
  BY <1>2, FrontOf
<1>4. <<y>> \o s = Then(y, s)
  BY FormSplits
<1>. QED  BY <1>1, <1>2, <1>3, <1>4, Zenon

LEMMA FormThree ==
  ASSUME NEW s \in Seq(SYMBOL), NEW x \in SYMBOL, NEW y \in SYMBOL, NEW z \in SYMBOL
  PROVE  <<x, y, z>> \o s = Then(x, Then(y, Then(z, s)))
<1>1. PICK f : f = <<x, y, z>>
  OBVIOUS
<1>2. f \in Seq(SYMBOL) /\ f # <<>> /\ Head(f) = x /\ Tail(f) = <<y, z>>
  BY <1>1
<1>3. f \o s = Then(Head(f), Tail(f) \o s)
  BY <1>2, FrontOf
<1>4. <<y, z>> \o s = Then(y, Then(z, s))
  BY FormTwo
<1>. QED  BY <1>1, <1>2, <1>3, <1>4, Zenon

LEMMA FormFour ==
  ASSUME NEW s \in Seq(SYMBOL), NEW x \in SYMBOL, NEW y \in SYMBOL, NEW z \in SYMBOL,
         NEW u \in SYMBOL
  PROVE  <<x, y, z, u>> \o s = Then(x, Then(y, Then(z, Then(u, s))))
<1>1. PICK f : f = <<x, y, z, u>>
  OBVIOUS
<1>2. f \in Seq(SYMBOL) /\ f # <<>> /\ Head(f) = x /\ Tail(f) = <<y, z, u>>
  BY <1>1
<1>3. f \o s = Then(Head(f), Tail(f) \o s)
  BY <1>2, FrontOf
<1>4. <<y, z, u>> \o s = Then(y, Then(z, Then(u, s)))
  BY FormThree
<1>. QED  BY <1>1, <1>2, <1>3, <1>4, Zenon

LEMMA FormFive ==
  ASSUME NEW s \in Seq(SYMBOL), NEW x \in SYMBOL, NEW y \in SYMBOL, NEW z \in SYMBOL,
         NEW u \in SYMBOL, NEW v \in SYMBOL
  PROVE  <<x, y, z, u, v>> \o s = Then(x, Then(y, Then(z, Then(u, Then(v, s)))))
<1>1. PICK f : f = <<x, y, z, u, v>>
  OBVIOUS
<1>2. f \in Seq(SYMBOL) /\ f # <<>> /\ Head(f) = x /\ Tail(f) = <<y, z, u, v>>
  BY <1>1
<1>3. f \o s = Then(Head(f), Tail(f) \o s)
  BY <1>2, FrontOf
<1>4. <<y, z, u, v>> \o s = Then(y, Then(z, Then(u, Then(v, s))))
  BY FormFour
<1>. QED  BY <1>1, <1>2, <1>3, <1>4, Zenon

\* Every symbol of the grammar.
LEMMA SymbolList ==
  /\ {"PRINT", "IF", "WHILE", "LABEL", "GOTO", "LET", "INPUT", "ENDIF", "ENDWHILE", "ELSE",
      "EQEQ", "NOTEQ", "GT", "LT", "GTE", "LTE", "PLUS", "MINUS", "MULT", "DIV", "EQ", "THEN",
      "REPEAT", "IDENT", "NUMBER", "STRING"} \subseteq TOKEN
  /\ TOKEN \subseteq SYMBOL /\ RULES \subseteq SYMBOL /\ TOKEN \cap RULES = {}
BY DEF SYMBOL, TOKEN, COMPARISON_OPS, GRAMMAR_TYPE, STATEMENT_START_KEYWORDS, CONTROL_FLOW_TOKENS,
       SIGNS, RULES

LEMMA RuleList ==
  /\ Productions("PROGRAM") = {<<"statements">>}
  /\ Productions("statements") = {<<>>, <<"STATEMENT", "statements">>}
  /\ Productions("STATEMENT") =
       {<<"PRINT", "EXPRESSION">>, <<"PRINT", "STRING">>,
        <<"IF", "COMPARISON", "THEN", "statements", "ENDIF">>,
        <<"WHILE", "COMPARISON", "REPEAT", "statements", "ENDWHILE">>,
        <<"LABEL", "IDENT">>, <<"GOTO", "IDENT">>,
        <<"LET", "IDENT", "EQ", "EXPRESSION">>, <<"INPUT", "IDENT">>}
  /\ Productions("COMPARISON") = {<<"EXPRESSION", "operator", "EXPRESSION">>}
  /\ Productions("operator") = {<<"EQEQ">>, <<"NOTEQ">>, <<"GT">>, <<"GTE">>, <<"LT">>, <<"LTE">>}
  /\ Productions("EXPRESSION") = {<<"TERM", "terms">>}
  /\ Productions("terms") = {<<>>, <<"MINUS", "TERM", "terms">>, <<"PLUS", "TERM", "terms">>}
  /\ Productions("TERM") = {<<"UNARY", "unaries">>}
  /\ Productions("unaries") = {<<>>, <<"DIV", "UNARY", "unaries">>, <<"MULT", "UNARY", "unaries">>}
  /\ Productions("UNARY") = {<<"PRIMARY">>, <<"PLUS", "PRIMARY">>, <<"MINUS", "PRIMARY">>}
  /\ Productions("PRIMARY") = {<<"NUMBER">>, <<"IDENT">>}
<1>1. Productions("operator") = {<<"EQEQ">>, <<"NOTEQ">>, <<"GT">>, <<"GTE">>, <<"LT">>, <<"LTE">>}
  <2>1. Productions("operator") = {<<op>> : op \in {"EQEQ", "NOTEQ", "GT", "GTE", "LT", "LTE"}}
    BY DEF Productions
  <2>2. ASSUME NEW f PROVE f \in {<<op>> : op \in {"EQEQ", "NOTEQ", "GT", "GTE", "LT", "LTE"}}
                       <=> f \in {<<"EQEQ">>, <<"NOTEQ">>, <<"GT">>, <<"GTE">>, <<"LT">>, <<"LTE">>}
    BY Zenon
  <2>. QED  BY <2>1, <2>2
<1>. QED  BY <1>1 DEF Productions

LEMMA ProductionForms == \A x \in RULES : \A rhs \in Productions(x) : rhs \in Seq(SYMBOL)
<1>1. /\ \A x \in SYMBOL : <<x>> \in Seq(SYMBOL)
      /\ \A x, y \in SYMBOL : <<x, y>> \in Seq(SYMBOL)
      /\ \A x, y, z \in SYMBOL : <<x, y, z>> \in Seq(SYMBOL)
      /\ \A x, y, z, u \in SYMBOL : <<x, y, z, u>> \in Seq(SYMBOL)
      /\ \A x, y, z, u, v \in SYMBOL : <<x, y, z, u, v>> \in Seq(SYMBOL)
      /\ <<>> \in Seq(SYMBOL)
  OBVIOUS
<1>2. {"PRINT", "IF", "WHILE", "LABEL", "GOTO", "LET", "INPUT", "ENDIF", "ENDWHILE",
       "EQEQ", "NOTEQ", "GT", "LT", "GTE", "LTE", "PLUS", "MINUS", "MULT", "DIV", "EQ", "THEN",
       "REPEAT", "IDENT", "NUMBER", "STRING", "PROGRAM", "statements", "STATEMENT", "COMPARISON",
       "operator", "EXPRESSION", "terms", "TERM", "unaries", "UNARY", "PRIMARY"} \subseteq SYMBOL
  BY SymbolList DEF RULES
<1>3. /\ <<"PRINT", "EXPRESSION">> \in Seq(SYMBOL) /\ <<"PRINT", "STRING">> \in Seq(SYMBOL)
      /\ <<"LABEL", "IDENT">> \in Seq(SYMBOL) /\ <<"GOTO", "IDENT">> \in Seq(SYMBOL)
      /\ <<"INPUT", "IDENT">> \in Seq(SYMBOL)
      /\ <<"STATEMENT", "statements">> \in Seq(SYMBOL) /\ <<"TERM", "terms">> \in Seq(SYMBOL)
      /\ <<"UNARY", "unaries">> \in Seq(SYMBOL)
      /\ <<"PLUS", "PRIMARY">> \in Seq(SYMBOL) /\ <<"MINUS", "PRIMARY">> \in Seq(SYMBOL)
  BY <1>1, <1>2
<1>4. /\ <<"EXPRESSION", "operator", "EXPRESSION">> \in Seq(SYMBOL)
      /\ <<"MINUS", "TERM", "terms">> \in Seq(SYMBOL) /\ <<"PLUS", "TERM", "terms">> \in Seq(SYMBOL)
      /\ <<"DIV", "UNARY", "unaries">> \in Seq(SYMBOL) /\ <<"MULT", "UNARY", "unaries">> \in Seq(SYMBOL)
      /\ <<"LET", "IDENT", "EQ", "EXPRESSION">> \in Seq(SYMBOL)
  BY <1>1, <1>2
<1>5. /\ <<"IF", "COMPARISON", "THEN", "statements", "ENDIF">> \in Seq(SYMBOL)
      /\ <<"WHILE", "COMPARISON", "REPEAT", "statements", "ENDWHILE">> \in Seq(SYMBOL)
  BY <1>1, <1>2
<1>6. /\ \A op \in {"EQEQ", "NOTEQ", "GT", "LT", "GTE", "LTE", "NUMBER", "IDENT", "statements", "PRIMARY"} :
           <<op>> \in Seq(SYMBOL)
  BY <1>1, <1>2
<1>. QED  BY <1>1, <1>3, <1>4, <1>5, <1>6, RuleList, ZenonT(40) DEF RULES

LEMMA Rules == ASSUME NEW atoms, Atoms(atoms), NEW x \in SYMBOL \ atoms PROVE x \in RULES
BY DEF Atoms, SYMBOL, GRAMMAR_TYPE, RULES

\* A form that needs no rule, and the forms that one rule makes of another.
Leaf(f, atoms) == f = <<>> \/ Head(f) \in atoms

ByRule(f, rhs) == rhs \o Tail(f)

LEMMA ByRuleForm ==
  ASSUME NEW atoms, Atoms(atoms), NEW f \in Seq(SYMBOL), ~ Leaf(f, atoms)
  PROVE  Head(f) \in RULES /\ \A rhs \in Productions(Head(f)) : ByRule(f, rhs) \in Seq(SYMBOL)
<1>1. f # <<>> /\ Head(f) \in SYMBOL \ atoms /\ Tail(f) \in Seq(SYMBOL)
  BY DEF Leaf
<1>2. Head(f) \in RULES
  BY <1>1, Rules
<1>3. ASSUME NEW rhs \in Productions(Head(f)) PROVE ByRule(f, rhs) \in Seq(SYMBOL)
  <2>1. rhs \in Seq(SYMBOL)
    BY <1>2, ProductionForms
  <2>. QED  BY <1>1, <2>1 DEF ByRule
<1>. QED  BY <1>2, <1>3

\* A function that unfolds the forms.
Unfolder(u, atoms) ==
  u = [f \in Seq(SYMBOL) |->
         IF f = <<>> \/ Head(f) \in atoms
           THEN {f}
           ELSE UNION {u[rhs \o Tail(f)] : rhs \in Productions(Head(f))}]

\* There is a function that unfolds the forms: the least relation that the
\* rules give.
LEMMA UnfoldExists ==
  ASSUME NEW atoms, Atoms(atoms)
  PROVE  \E u : Unfolder(u, atoms)
<1>. DEFINE S == Seq(SYMBOL)
            Ruled(R) ==
              \A f, w \in S :
                /\ Leaf(f, atoms) /\ w = f => <<f, w>> \in R
                /\ ~ Leaf(f, atoms) =>
                     \A rhs \in Productions(Head(f)) : <<ByRule(f, rhs), w>> \in R => <<f, w>> \in R
            u == [f \in S |-> {w \in S : \A R \in SUBSET (S \X S) : Ruled(R) => <<f, w>> \in R}]
            Step(f, w) ==
              IF Leaf(f, atoms) THEN w = f
              ELSE \E rhs \in Productions(Head(f)) : w \in u[ByRule(f, rhs)]
            Made == {p \in S \X S : Step(p[1], p[2])}
<1>1. \A f \in S : ~ Leaf(f, atoms) => \A rhs \in Productions(Head(f)) : ByRule(f, rhs) \in S
  BY ByRuleForm
<1>2. \A f, w \in S : w \in u[f] <=> \A R \in SUBSET (S \X S) : Ruled(R) => <<f, w>> \in R
  BY Zenon
<1>3. \A f \in S : u[f] \subseteq S
  OBVIOUS
<1>4. ASSUME NEW f \in S, NEW w \in S, Step(f, w) PROVE w \in u[f]
  <2>. SUFFICES ASSUME NEW R \in SUBSET (S \X S), Ruled(R) PROVE <<f, w>> \in R
    BY <1>2
  <2>1. CASE Leaf(f, atoms)
    BY <1>4, <2>1
  <2>2. CASE ~ Leaf(f, atoms)
    <3>1. PICK rhs \in Productions(Head(f)) : w \in u[ByRule(f, rhs)]
      BY <1>4, <2>2
    <3>2. ByRule(f, rhs) \in S
      BY <1>1, <2>2
    <3>3. <<ByRule(f, rhs), w>> \in R
      BY <1>2, <3>1, <3>2
    <3>. QED  BY <2>2, <3>3
  <2>. QED  BY <2>1, <2>2
<1>5. \A f, w \in S : <<f, w>> \in Made <=> Step(f, w)
  <2>. TAKE f, w \in S
  <2>. DEFINE p == <<f, w>>
  <2>1. p \in S \X S /\ p[1] = f /\ p[2] = w
    OBVIOUS
  <2>2. p \in Made <=> Step(p[1], p[2])
    BY <2>1, Zenon
  <2>. HIDE DEF u, Step, Made
  <2>. QED  BY <2>1, <2>2
<1>6. Ruled(Made)
  <2>1. ASSUME NEW f \in S, Leaf(f, atoms) PROVE <<f, f>> \in Made
    BY <1>5, <2>1
  <2>2. ASSUME NEW f \in S, NEW w \in S, ~ Leaf(f, atoms), NEW rhs \in Productions(Head(f)),
               <<ByRule(f, rhs), w>> \in Made
        PROVE  <<f, w>> \in Made
    <3>1. ByRule(f, rhs) \in S
      BY <1>1, <2>2
    <3>2. Step(ByRule(f, rhs), w)
      BY <1>5, <2>2, <3>1
    <3>3. w \in u[ByRule(f, rhs)]
      BY <1>4, <3>1, <3>2
    <3>4. Step(f, w)
      BY <2>2, <3>3
    <3>. QED  BY <1>5, <3>4
  <2>. QED  BY <2>1, <2>2, Zenon
<1>7. ASSUME NEW f \in S, NEW w \in u[f] PROVE Step(f, w)
  <2>1. w \in S
    BY <1>3
  <2>2. Made \in SUBSET (S \X S)
    BY Zenon
  <2>3. <<f, w>> \in Made
    <3>. HIDE DEF Made, Ruled, u
    <3>. QED  BY <1>2, <1>6, <1>7, <2>1, <2>2
  <2>. QED  BY <1>5, <2>1, <2>3
<1>. HIDE DEF Ruled
<1>8. ASSUME NEW f \in S
      PROVE  u[f] = IF f = <<>> \/ Head(f) \in atoms
                      THEN {f}
                      ELSE UNION {u[rhs \o Tail(f)] : rhs \in Productions(Head(f))}
  <2>1. \A w : w \in u[f] <=> w \in S /\ Step(f, w)
    BY <1>3, <1>4, <1>7
  <2>. HIDE DEF u
  <2>2. CASE Leaf(f, atoms)
    <3>1. \A w : w \in u[f] <=> w = f
      BY <2>1, <2>2
    <3>2. u[f] = {f}
      BY <3>1
    <3>. QED  BY <2>2, <3>2 DEF Leaf
  <2>3. CASE ~ Leaf(f, atoms)
    <3>1. \A rhs \in Productions(Head(f)) : u[ByRule(f, rhs)] \subseteq S
      BY <1>1, <1>3, <2>3
    <3>2. \A w : w \in u[f] <=> \E rhs \in Productions(Head(f)) : w \in u[ByRule(f, rhs)]
      BY <2>1, <2>3, <3>1
    <3>3. u[f] = UNION {u[rhs \o Tail(f)] : rhs \in Productions(Head(f))}
      BY <3>2, Zenon DEF ByRule
    <3>. QED  BY <2>3, <3>3 DEF Leaf
  <2>. QED  BY <2>2, <2>3
<1>9. u = [f \in S |-> u[f]]
  OBVIOUS
<1>10. Unfolder(u, atoms)
  <2>. HIDE DEF u
  <2>. QED  BY <1>8, <1>9, Zenon DEF Unfolder
<1>. HIDE DEF u
<1>. QED  BY <1>10, Zenon

LEMMA UnfoldRules ==
  ASSUME NEW atoms, Atoms(atoms), NEW f \in Seq(SYMBOL)
  PROVE  /\ Leaf(f, atoms) => Unfold(f, atoms) = {f}
         /\ ~ Leaf(f, atoms) =>
              \A w : w \in Unfold(f, atoms) <=>
                       \E rhs \in Productions(Head(f)) : w \in Unfold(ByRule(f, rhs), atoms)
<1>. DEFINE v == CHOOSE u : Unfolder(u, atoms)
<1>1. Unfolder(v, atoms)
  <2>1. \E u : Unfolder(u, atoms)
    BY UnfoldExists
  <2>. QED  BY <2>1, Zenon
<1>2. \A g : Unfold(g, atoms) = v[g]
  BY Zenon DEF Unfold, Unfolder
<1>. HIDE DEF v
<1>3. v[f] = IF f = <<>> \/ Head(f) \in atoms
               THEN {f}
               ELSE UNION {v[rhs \o Tail(f)] : rhs \in Productions(Head(f))}
  BY <1>1, Zenon DEF Unfolder
<1>4. ASSUME Leaf(f, atoms) PROVE v[f] = {f}
  BY <1>3, <1>4, Zenon DEF Leaf
<1>5. ASSUME ~ Leaf(f, atoms)
      PROVE  \A w : w \in v[f] <=> \E rhs \in Productions(Head(f)) : w \in v[ByRule(f, rhs)]
  <2>1. v[f] = UNION {v[rhs \o Tail(f)] : rhs \in Productions(Head(f))}
    BY <1>3, <1>5, Zenon DEF Leaf
  <2>. QED  BY <2>1, Zenon DEF ByRule
<1>. QED  BY <1>2, <1>4, <1>5, Zenon

\* What is left of one form when a symbol is read, and whether nothing need be.
Rest(f, t, atoms) == Read({f}, t, atoms)

May(f, atoms) == <<>> \in Unfold(f, atoms)

LEMMA RestOf ==
  ASSUME NEW f, NEW t, NEW atoms
  PROVE  \A r : r \in Rest(f, t, atoms) <=>
                  \E h \in Unfold(f, atoms) : h # <<>> /\ Head(h) = t /\ r = Tail(h)
BY Zenon DEF Rest, Read

LEMMA ReadOf ==
  ASSUME NEW F, NEW t, NEW atoms
  PROVE  /\ \A r : r \in Read(F, t, atoms) <=> \E f \in F : r \in Rest(f, t, atoms)
         /\ MayEnd(F, atoms) <=> \E f \in F : May(f, atoms)
<1>1. MayEnd(F, atoms) <=> \E f \in F : May(f, atoms)
  BY DEF MayEnd, May
<1>2. \A r : r \in Read(F, t, atoms) <=>
               \E f \in F : \E h \in Unfold(f, atoms) : h # <<>> /\ Head(h) = t /\ r = Tail(h)
  BY Zenon DEF Read
<1>3. \A f : \A r : r \in Rest(f, t, atoms) <=>
               \E h \in Unfold(f, atoms) : h # <<>> /\ Head(h) = t /\ r = Tail(h)
  BY RestOf
<1>. QED  BY <1>1, <1>2, <1>3, Zenon

LEMMA RestNone ==
  ASSUME NEW atoms, Atoms(atoms), NEW t
  PROVE  Rest(<<>>, t, atoms) = {} /\ May(<<>>, atoms)
<1>1. Unfold(<<>>, atoms) = {<<>>}
  <2>1. <<>> \in Seq(SYMBOL)
    OBVIOUS
  <2>. QED  BY <2>1, UnfoldRules, Zenon DEF Leaf
<1>. QED  BY <1>1, RestOf, Zenon DEF May

LEMMA RestAtom ==
  ASSUME NEW atoms, Atoms(atoms), NEW x \in atoms, NEW s \in Seq(SYMBOL), NEW t
  PROVE  /\ t = x => Rest(Then(x, s), t, atoms) = {s}
         /\ t # x => Rest(Then(x, s), t, atoms) = {}
         /\ ~ May(Then(x, s), atoms)
<1>1. PICK f : f = Then(x, s)
  OBVIOUS
<1>2. f \in Seq(SYMBOL) /\ f # <<>> /\ Head(f) = x /\ Tail(f) = s
  BY <1>1, ThenForm DEF Atoms
<1>3. Unfold(f, atoms) = {f}
  BY <1>2, UnfoldRules, Zenon DEF Leaf
<1>4. \A r : r \in Rest(f, t, atoms) <=> t = x /\ r = s
  <2>1. \A r : r \in Rest(f, t, atoms) <=>
                 \E h \in Unfold(f, atoms) : h # <<>> /\ Head(h) = t /\ r = Tail(h)
    BY RestOf
  <2>. QED  BY <1>2, <1>3, <2>1
<1>5. ~ May(f, atoms)
  BY <1>2, <1>3 DEF May
<1>. QED  BY <1>1, <1>4, <1>5

LEMMA RestRule ==
  ASSUME NEW atoms, Atoms(atoms), NEW x \in SYMBOL \ atoms, NEW s \in Seq(SYMBOL), NEW t
  PROVE  /\ \A r : r \in Rest(Then(x, s), t, atoms) <=>
                     \E rhs \in Productions(x) : r \in Rest(rhs \o s, t, atoms)
         /\ May(Then(x, s), atoms) <=> \E rhs \in Productions(x) : May(rhs \o s, atoms)
<1>1. PICK f : f = Then(x, s)
  OBVIOUS
<1>2. f \in Seq(SYMBOL) /\ f # <<>> /\ Head(f) = x /\ Tail(f) = s
  BY <1>1, ThenForm
<1>3. ~ Leaf(f, atoms)
  BY <1>2 DEF Leaf
<1>4. \A w : w \in Unfold(f, atoms) <=> \E rhs \in Productions(x) : w \in Unfold(rhs \o s, atoms)
  BY <1>2, <1>3, UnfoldRules, Zenon DEF ByRule
<1>5. May(f, atoms) <=> \E rhs \in Productions(x) : May(rhs \o s, atoms)
  BY <1>4 DEF May
<1>6. \A r : r \in Rest(f, t, atoms) <=>
               \E h \in Unfold(f, atoms) : h # <<>> /\ Head(h) = t /\ r = Tail(h)
  BY RestOf
<1>7. \A rhs : \A r : r \in Rest(rhs \o s, t, atoms) <=>
               \E h \in Unfold(rhs \o s, atoms) : h # <<>> /\ Head(h) = t /\ r = Tail(h)
  BY RestOf
<1>8. \A r : r \in Rest(f, t, atoms) <=> \E rhs \in Productions(x) : r \in Rest(rhs \o s, t, atoms)
  BY <1>4, <1>6, <1>7, ZenonT(40)
<1>. QED  BY <1>1, <1>5, <1>8

\* A form that begins with a rule may be read as one that begins with any of
\* its productions.
Left(f, t) == Rest(f, t, TOKEN)

Empty(f) == May(f, TOKEN)

LEMMA TokenAtoms ==
  /\ Atoms(TOKEN)
  /\ {"PRINT", "IF", "WHILE", "LABEL", "GOTO", "LET", "INPUT", "ENDIF", "ENDWHILE", "ELSE",
      "EQEQ", "NOTEQ", "GT", "LT", "GTE", "LTE", "PLUS", "MINUS", "MULT", "DIV", "EQ", "THEN",
      "REPEAT", "IDENT", "NUMBER", "STRING"} \subseteq SYMBOL \cap TOKEN
  /\ RULES \subseteq SYMBOL \ TOKEN
BY SymbolList DEF Atoms

LEMMA PrimaryRule ==
  ASSUME NEW s \in Seq(SYMBOL), NEW t
  PROVE  /\ Left(Then("PRIMARY", s), t) =
              Left(Then("NUMBER", s), t)
              \cup Left(Then("IDENT", s), t)
         /\ Empty(Then("PRIMARY", s)) <=>
              \/ Empty(Then("NUMBER", s))
              \/ Empty(Then("IDENT", s))
<1>1. "PRIMARY" \in SYMBOL \ TOKEN /\ {"IDENT", "NUMBER"} \subseteq SYMBOL
  BY TokenAtoms DEF RULES
<1>2. Productions("PRIMARY") = {<<"NUMBER">>, <<"IDENT">>}
  BY RuleList
<1>3. /\ <<"NUMBER">> \o s = Then("NUMBER", s)
      /\ <<"IDENT">> \o s = Then("IDENT", s)
  BY <1>1, FormSplits
<1>4. /\ \A r : r \in Left(Then("PRIMARY", s), t) <=>
                \E rhs \in Productions("PRIMARY") : r \in Left(rhs \o s, t)
      /\ Empty(Then("PRIMARY", s)) <=> \E rhs \in Productions("PRIMARY") : Empty(rhs \o s)
  BY <1>1, TokenAtoms, RestRule DEF Left, Empty
<1>. QED  BY <1>2, <1>3, <1>4, Zenon

LEMMA UnaryRule ==
  ASSUME NEW s \in Seq(SYMBOL), NEW t
  PROVE  /\ Left(Then("UNARY", s), t) =
              Left(Then("PRIMARY", s), t)
              \cup Left(Then("PLUS", Then("PRIMARY", s)), t)
              \cup Left(Then("MINUS", Then("PRIMARY", s)), t)
         /\ Empty(Then("UNARY", s)) <=>
              \/ Empty(Then("PRIMARY", s))
              \/ Empty(Then("PLUS", Then("PRIMARY", s)))
              \/ Empty(Then("MINUS", Then("PRIMARY", s)))
<1>1. "UNARY" \in SYMBOL \ TOKEN /\ {"MINUS", "PLUS", "PRIMARY"} \subseteq SYMBOL
  BY TokenAtoms DEF RULES
<1>2. Productions("UNARY") = {<<"PRIMARY">>, <<"PLUS", "PRIMARY">>, <<"MINUS", "PRIMARY">>}
  BY RuleList
<1>3. /\ <<"PRIMARY">> \o s = Then("PRIMARY", s)
      /\ <<"PLUS", "PRIMARY">> \o s = Then("PLUS", Then("PRIMARY", s))
      /\ <<"MINUS", "PRIMARY">> \o s = Then("MINUS", Then("PRIMARY", s))
  <2>1. <<"PRIMARY">> \o s = Then("PRIMARY", s)
    BY <1>1, FormSplits
  <2>2. <<"PLUS", "PRIMARY">> \o s = Then("PLUS", Then("PRIMARY", s))
    BY <1>1, FormTwo
  <2>3. <<"MINUS", "PRIMARY">> \o s = Then("MINUS", Then("PRIMARY", s))
    BY <1>1, FormTwo
  <2>. QED  BY <2>1, <2>2, <2>3
<1>4. /\ \A r : r \in Left(Then("UNARY", s), t) <=>
                \E rhs \in Productions("UNARY") : r \in Left(rhs \o s, t)
      /\ Empty(Then("UNARY", s)) <=> \E rhs \in Productions("UNARY") : Empty(rhs \o s)
  BY <1>1, TokenAtoms, RestRule DEF Left, Empty
<1>. QED  BY <1>2, <1>3, <1>4, Zenon

LEMMA UnariesRule ==
  ASSUME NEW s \in Seq(SYMBOL), NEW t
  PROVE  /\ Left(Then("unaries", s), t) =
              Left(s, t)
              \cup Left(Then("DIV", Then("UNARY", Then("unaries", s))), t)
              \cup Left(Then("MULT", Then("UNARY", Then("unaries", s))), t)
         /\ Empty(Then("unaries", s)) <=>
              \/ Empty(s)
              \/ Empty(Then("DIV", Then("UNARY", Then("unaries", s))))
              \/ Empty(Then("MULT", Then("UNARY", Then("unaries", s))))
<1>1. "unaries" \in SYMBOL \ TOKEN /\ {"DIV", "MULT", "UNARY", "unaries"} \subseteq SYMBOL
  BY TokenAtoms DEF RULES
<1>2. Productions("unaries") = {<<>>, <<"DIV", "UNARY", "unaries">>, <<"MULT", "UNARY",
      "unaries">>}
  BY RuleList
<1>3. /\ <<>> \o s = s
      /\ <<"DIV", "UNARY", "unaries">> \o s =
             Then("DIV", Then("UNARY", Then("unaries", s)))
      /\ <<"MULT", "UNARY", "unaries">> \o s =
             Then("MULT", Then("UNARY", Then("unaries", s)))
  <2>1. <<>> \o s = s
    BY <1>1, FormSplits
  <2>2. <<"DIV", "UNARY", "unaries">> \o s =
             Then("DIV", Then("UNARY", Then("unaries", s)))
    BY <1>1, FormThree
  <2>3. <<"MULT", "UNARY", "unaries">> \o s =
             Then("MULT", Then("UNARY", Then("unaries", s)))
    BY <1>1, FormThree
  <2>. QED  BY <2>1, <2>2, <2>3
<1>4. /\ \A r : r \in Left(Then("unaries", s), t) <=>
                \E rhs \in Productions("unaries") : r \in Left(rhs \o s, t)
      /\ Empty(Then("unaries", s)) <=> \E rhs \in Productions("unaries") : Empty(rhs \o s)
  BY <1>1, TokenAtoms, RestRule DEF Left, Empty
<1>. QED  BY <1>2, <1>3, <1>4, Zenon

LEMMA TermRule ==
  ASSUME NEW s \in Seq(SYMBOL), NEW t
  PROVE  /\ Left(Then("TERM", s), t) =
              Left(Then("UNARY", Then("unaries", s)), t)
         /\ Empty(Then("TERM", s)) <=>
              Empty(Then("UNARY", Then("unaries", s)))
<1>1. "TERM" \in SYMBOL \ TOKEN /\ {"UNARY", "unaries"} \subseteq SYMBOL
  BY TokenAtoms DEF RULES
<1>2. Productions("TERM") = {<<"UNARY", "unaries">>}
  BY RuleList
<1>3. /\ <<"UNARY", "unaries">> \o s = Then("UNARY", Then("unaries", s))
  <2>1. <<"UNARY", "unaries">> \o s = Then("UNARY", Then("unaries", s))
    BY <1>1, FormTwo
  <2>. QED  BY <2>1
<1>4. /\ \A r : r \in Left(Then("TERM", s), t) <=>
                \E rhs \in Productions("TERM") : r \in Left(rhs \o s, t)
      /\ Empty(Then("TERM", s)) <=> \E rhs \in Productions("TERM") : Empty(rhs \o s)
  BY <1>1, TokenAtoms, RestRule DEF Left, Empty
<1>. QED  BY <1>2, <1>3, <1>4, Zenon

LEMMA TermsRule ==
  ASSUME NEW s \in Seq(SYMBOL), NEW t
  PROVE  /\ Left(Then("terms", s), t) =
              Left(s, t)
              \cup Left(Then("MINUS", Then("TERM", Then("terms", s))), t)
              \cup Left(Then("PLUS", Then("TERM", Then("terms", s))), t)
         /\ Empty(Then("terms", s)) <=>
              \/ Empty(s)
              \/ Empty(Then("MINUS", Then("TERM", Then("terms", s))))
              \/ Empty(Then("PLUS", Then("TERM", Then("terms", s))))
<1>1. "terms" \in SYMBOL \ TOKEN /\ {"MINUS", "PLUS", "TERM", "terms"} \subseteq SYMBOL
  BY TokenAtoms DEF RULES
<1>2. Productions("terms") = {<<>>, <<"MINUS", "TERM", "terms">>, <<"PLUS", "TERM", "terms">>}
  BY RuleList
<1>3. /\ <<>> \o s = s
      /\ <<"MINUS", "TERM", "terms">> \o s =
             Then("MINUS", Then("TERM", Then("terms", s)))
      /\ <<"PLUS", "TERM", "terms">> \o s = Then("PLUS", Then("TERM", Then("terms", s)))
  <2>1. <<>> \o s = s
    BY <1>1, FormSplits
  <2>2. <<"MINUS", "TERM", "terms">> \o s =
             Then("MINUS", Then("TERM", Then("terms", s)))
    BY <1>1, FormThree
  <2>3. <<"PLUS", "TERM", "terms">> \o s = Then("PLUS", Then("TERM", Then("terms", s)))
    BY <1>1, FormThree
  <2>. QED  BY <2>1, <2>2, <2>3
<1>4. /\ \A r : r \in Left(Then("terms", s), t) <=>
                \E rhs \in Productions("terms") : r \in Left(rhs \o s, t)
      /\ Empty(Then("terms", s)) <=> \E rhs \in Productions("terms") : Empty(rhs \o s)
  BY <1>1, TokenAtoms, RestRule DEF Left, Empty
<1>. QED  BY <1>2, <1>3, <1>4, Zenon

LEMMA ExpressionRule ==
  ASSUME NEW s \in Seq(SYMBOL), NEW t
  PROVE  /\ Left(Then("EXPRESSION", s), t) =
              Left(Then("TERM", Then("terms", s)), t)
         /\ Empty(Then("EXPRESSION", s)) <=>
              Empty(Then("TERM", Then("terms", s)))
<1>1. "EXPRESSION" \in SYMBOL \ TOKEN /\ {"TERM", "terms"} \subseteq SYMBOL
  BY TokenAtoms DEF RULES
<1>2. Productions("EXPRESSION") = {<<"TERM", "terms">>}
  BY RuleList
<1>3. /\ <<"TERM", "terms">> \o s = Then("TERM", Then("terms", s))
  <2>1. <<"TERM", "terms">> \o s = Then("TERM", Then("terms", s))
    BY <1>1, FormTwo
  <2>. QED  BY <2>1
<1>4. /\ \A r : r \in Left(Then("EXPRESSION", s), t) <=>
                \E rhs \in Productions("EXPRESSION") : r \in Left(rhs \o s, t)
      /\ Empty(Then("EXPRESSION", s)) <=> \E rhs \in Productions("EXPRESSION") : Empty(rhs \o s)
  BY <1>1, TokenAtoms, RestRule DEF Left, Empty
<1>. QED  BY <1>2, <1>3, <1>4, Zenon

LEMMA OperatorRule ==
  ASSUME NEW s \in Seq(SYMBOL), NEW t
  PROVE  /\ Left(Then("operator", s), t) =
              Left(Then("EQEQ", s), t)
              \cup Left(Then("NOTEQ", s), t)
              \cup Left(Then("GT", s), t)
              \cup Left(Then("GTE", s), t)
              \cup Left(Then("LT", s), t)
              \cup Left(Then("LTE", s), t)
         /\ Empty(Then("operator", s)) <=>
              \/ Empty(Then("EQEQ", s))
              \/ Empty(Then("NOTEQ", s))
              \/ Empty(Then("GT", s))
              \/ Empty(Then("GTE", s))
              \/ Empty(Then("LT", s))
              \/ Empty(Then("LTE", s))
<1>1. "operator" \in SYMBOL \ TOKEN /\ {"EQEQ", "GT", "GTE", "LT", "LTE", "NOTEQ"} \subseteq
      SYMBOL
  BY TokenAtoms DEF RULES
<1>2. Productions("operator") = {<<"EQEQ">>, <<"NOTEQ">>, <<"GT">>, <<"GTE">>, <<"LT">>,
      <<"LTE">>}
  BY RuleList
<1>3. /\ <<"EQEQ">> \o s = Then("EQEQ", s)
      /\ <<"NOTEQ">> \o s = Then("NOTEQ", s)
      /\ <<"GT">> \o s = Then("GT", s)
      /\ <<"GTE">> \o s = Then("GTE", s)
      /\ <<"LT">> \o s = Then("LT", s)
      /\ <<"LTE">> \o s = Then("LTE", s)
  BY <1>1, FormSplits
<1>4. /\ \A r : r \in Left(Then("operator", s), t) <=>
                \E rhs \in Productions("operator") : r \in Left(rhs \o s, t)
      /\ Empty(Then("operator", s)) <=> \E rhs \in Productions("operator") : Empty(rhs \o s)
  BY <1>1, TokenAtoms, RestRule DEF Left, Empty
<1>. QED  BY <1>2, <1>3, <1>4, Zenon

LEMMA ComparisonRule ==
  ASSUME NEW s \in Seq(SYMBOL), NEW t
  PROVE  /\ Left(Then("COMPARISON", s), t) =
              Left(Then("EXPRESSION", Then("operator", Then("EXPRESSION", s))), t)
         /\ Empty(Then("COMPARISON", s)) <=>
              Empty(Then("EXPRESSION", Then("operator", Then("EXPRESSION", s))))
<1>1. "COMPARISON" \in SYMBOL \ TOKEN /\ {"EXPRESSION", "operator"} \subseteq SYMBOL
  BY TokenAtoms DEF RULES
<1>2. Productions("COMPARISON") = {<<"EXPRESSION", "operator", "EXPRESSION">>}
  BY RuleList
<1>3. /\ <<"EXPRESSION", "operator", "EXPRESSION">> \o s =
             Then("EXPRESSION", Then("operator", Then("EXPRESSION", s)))
  <2>1. <<"EXPRESSION", "operator", "EXPRESSION">> \o s =
             Then("EXPRESSION", Then("operator", Then("EXPRESSION", s)))
    BY <1>1, FormThree
  <2>. QED  BY <2>1
<1>4. /\ \A r : r \in Left(Then("COMPARISON", s), t) <=>
                \E rhs \in Productions("COMPARISON") : r \in Left(rhs \o s, t)
      /\ Empty(Then("COMPARISON", s)) <=> \E rhs \in Productions("COMPARISON") : Empty(rhs \o s)
  BY <1>1, TokenAtoms, RestRule DEF Left, Empty
<1>. QED  BY <1>2, <1>3, <1>4, Zenon

LEMMA StatementRule ==
  ASSUME NEW s \in Seq(SYMBOL), NEW t
  PROVE  /\ Left(Then("STATEMENT", s), t) =
              Left(Then("PRINT", Then("EXPRESSION", s)), t)
              \cup Left(Then("PRINT", Then("STRING", s)), t)
              \cup Left(Then("IF", Then("COMPARISON", Then("THEN", Then("statements", Then("ENDIF", s))))), t)
              \cup Left(Then("WHILE", Then("COMPARISON", Then("REPEAT", Then("statements", Then("ENDWHILE", s))))), t)
              \cup Left(Then("LABEL", Then("IDENT", s)), t)
              \cup Left(Then("GOTO", Then("IDENT", s)), t)
              \cup Left(Then("LET", Then("IDENT", Then("EQ", Then("EXPRESSION", s)))), t)
              \cup Left(Then("INPUT", Then("IDENT", s)), t)
         /\ Empty(Then("STATEMENT", s)) <=>
              \/ Empty(Then("PRINT", Then("EXPRESSION", s)))
              \/ Empty(Then("PRINT", Then("STRING", s)))
              \/ Empty(Then("IF", Then("COMPARISON", Then("THEN", Then("statements", Then("ENDIF", s))))))
              \/ Empty(Then("WHILE", Then("COMPARISON", Then("REPEAT", Then("statements", Then("ENDWHILE", s))))))
              \/ Empty(Then("LABEL", Then("IDENT", s)))
              \/ Empty(Then("GOTO", Then("IDENT", s)))
              \/ Empty(Then("LET", Then("IDENT", Then("EQ", Then("EXPRESSION", s)))))
              \/ Empty(Then("INPUT", Then("IDENT", s)))
<1>1. "STATEMENT" \in SYMBOL \ TOKEN /\ {"COMPARISON", "ENDIF", "ENDWHILE", "EQ", "EXPRESSION",
      "GOTO", "IDENT", "IF", "INPUT", "LABEL", "LET", "PRINT", "REPEAT", "STRING", "THEN",
      "WHILE", "statements"} \subseteq SYMBOL
  BY TokenAtoms DEF RULES
<1>2. Productions("STATEMENT") = {<<"PRINT", "EXPRESSION">>, <<"PRINT", "STRING">>, <<"IF",
      "COMPARISON", "THEN", "statements", "ENDIF">>, <<"WHILE", "COMPARISON", "REPEAT",
      "statements", "ENDWHILE">>, <<"LABEL", "IDENT">>, <<"GOTO", "IDENT">>, <<"LET", "IDENT",
      "EQ", "EXPRESSION">>, <<"INPUT", "IDENT">>}
  BY RuleList
<1>3. /\ <<"PRINT", "EXPRESSION">> \o s = Then("PRINT", Then("EXPRESSION", s))
      /\ <<"PRINT", "STRING">> \o s = Then("PRINT", Then("STRING", s))
      /\ <<"IF", "COMPARISON", "THEN", "statements", "ENDIF">> \o s =
             Then("IF", Then("COMPARISON", Then("THEN", Then("statements", Then("ENDIF", s)))))
      /\ <<"WHILE", "COMPARISON", "REPEAT", "statements", "ENDWHILE">> \o s =
             Then("WHILE", Then("COMPARISON", Then("REPEAT", Then("statements", Then("ENDWHILE", s)))))
      /\ <<"LABEL", "IDENT">> \o s = Then("LABEL", Then("IDENT", s))
      /\ <<"GOTO", "IDENT">> \o s = Then("GOTO", Then("IDENT", s))
      /\ <<"LET", "IDENT", "EQ", "EXPRESSION">> \o s =
             Then("LET", Then("IDENT", Then("EQ", Then("EXPRESSION", s))))
      /\ <<"INPUT", "IDENT">> \o s = Then("INPUT", Then("IDENT", s))
  <2>1. <<"PRINT", "EXPRESSION">> \o s = Then("PRINT", Then("EXPRESSION", s))
    BY <1>1, FormTwo
  <2>2. <<"PRINT", "STRING">> \o s = Then("PRINT", Then("STRING", s))
    BY <1>1, FormTwo
  <2>3. <<"IF", "COMPARISON", "THEN", "statements", "ENDIF">> \o s =
             Then("IF", Then("COMPARISON", Then("THEN", Then("statements", Then("ENDIF", s)))))
    <3>1. "IF" \in SYMBOL /\ "COMPARISON" \in SYMBOL /\ "THEN" \in SYMBOL /\ "statements" \in SYMBOL /\ "ENDIF" \in SYMBOL
      BY <1>1
    <3>. QED  BY <3>1, FormFive
  <2>4. <<"WHILE", "COMPARISON", "REPEAT", "statements", "ENDWHILE">> \o s =
             Then("WHILE", Then("COMPARISON", Then("REPEAT", Then("statements", Then("ENDWHILE", s)))))
    <3>1. "WHILE" \in SYMBOL /\ "COMPARISON" \in SYMBOL /\ "REPEAT" \in SYMBOL /\ "statements" \in SYMBOL /\ "ENDWHILE" \in SYMBOL
      BY <1>1
    <3>. QED  BY <3>1, FormFive
  <2>5. <<"LABEL", "IDENT">> \o s = Then("LABEL", Then("IDENT", s))
    BY <1>1, FormTwo
  <2>6. <<"GOTO", "IDENT">> \o s = Then("GOTO", Then("IDENT", s))
    BY <1>1, FormTwo
  <2>7. <<"LET", "IDENT", "EQ", "EXPRESSION">> \o s =
             Then("LET", Then("IDENT", Then("EQ", Then("EXPRESSION", s))))
    <3>1. "LET" \in SYMBOL /\ "IDENT" \in SYMBOL /\ "EQ" \in SYMBOL /\ "EXPRESSION" \in SYMBOL
      BY <1>1
    <3>. QED  BY <3>1, FormFour
  <2>8. <<"INPUT", "IDENT">> \o s = Then("INPUT", Then("IDENT", s))
    BY <1>1, FormTwo
  <2>. QED  BY <2>1, <2>2, <2>3, <2>4, <2>5, <2>6, <2>7, <2>8
<1>4. /\ \A r : r \in Left(Then("STATEMENT", s), t) <=>
                \E rhs \in Productions("STATEMENT") : r \in Left(rhs \o s, t)
      /\ Empty(Then("STATEMENT", s)) <=> \E rhs \in Productions("STATEMENT") : Empty(rhs \o s)
  BY <1>1, TokenAtoms, RestRule DEF Left, Empty
<1>. QED  BY <1>2, <1>3, <1>4, Zenon

LEMMA StatementsRule ==
  ASSUME NEW s \in Seq(SYMBOL), NEW t
  PROVE  /\ Left(Then("statements", s), t) =
              Left(s, t)
              \cup Left(Then("STATEMENT", Then("statements", s)), t)
         /\ Empty(Then("statements", s)) <=>
              \/ Empty(s)
              \/ Empty(Then("STATEMENT", Then("statements", s)))
<1>1. "statements" \in SYMBOL \ TOKEN /\ {"STATEMENT", "statements"} \subseteq SYMBOL
  BY TokenAtoms DEF RULES
<1>2. Productions("statements") = {<<>>, <<"STATEMENT", "statements">>}
  BY RuleList
<1>3. /\ <<>> \o s = s
      /\ <<"STATEMENT", "statements">> \o s = Then("STATEMENT", Then("statements", s))
  <2>1. <<>> \o s = s
    BY <1>1, FormSplits
  <2>2. <<"STATEMENT", "statements">> \o s = Then("STATEMENT", Then("statements", s))
    BY <1>1, FormTwo
  <2>. QED  BY <2>1, <2>2
<1>4. /\ \A r : r \in Left(Then("statements", s), t) <=>
                \E rhs \in Productions("statements") : r \in Left(rhs \o s, t)
      /\ Empty(Then("statements", s)) <=> \E rhs \in Productions("statements") : Empty(rhs \o s)
  BY <1>1, TokenAtoms, RestRule DEF Left, Empty
<1>. QED  BY <1>2, <1>3, <1>4, Zenon

LEMMA ProgramRule ==
  ASSUME NEW s \in Seq(SYMBOL), NEW t
  PROVE  /\ Left(Then("PROGRAM", s), t) =
              Left(Then("statements", s), t)
         /\ Empty(Then("PROGRAM", s)) <=>
              Empty(Then("statements", s))
<1>1. "PROGRAM" \in SYMBOL \ TOKEN /\ {"statements"} \subseteq SYMBOL
  BY TokenAtoms DEF RULES
<1>2. Productions("PROGRAM") = {<<"statements">>}
  BY RuleList
<1>3. /\ <<"statements">> \o s = Then("statements", s)
  BY <1>1, FormSplits
<1>4. /\ \A r : r \in Left(Then("PROGRAM", s), t) <=>
                \E rhs \in Productions("PROGRAM") : r \in Left(rhs \o s, t)
      /\ Empty(Then("PROGRAM", s)) <=> \E rhs \in Productions("PROGRAM") : Empty(rhs \o s)
  BY <1>1, TokenAtoms, RestRule DEF Left, Empty
<1>. QED  BY <1>2, <1>3, <1>4, Zenon

\* What is left when a token is read.
LEMMA TokenLeft ==
  ASSUME NEW x \in TOKEN, NEW s \in Seq(SYMBOL), NEW t
  PROVE  /\ Left(Then(x, s), t) = IF t = x THEN {s} ELSE {}
         /\ ~ Empty(Then(x, s))
BY TokenAtoms, RestAtom DEF Left, Empty

LEMMA NothingLeft == ASSUME NEW t PROVE Left(<<>>, t) = {} /\ Empty(<<>>)
BY TokenAtoms, RestNone DEF Left, Empty

LEMMA ThenSymbols ==
  ASSUME NEW s \in Seq(SYMBOL)
  PROVE  \A x \in TOKEN \cup RULES : Then(x, s) \in Seq(SYMBOL)
BY ThenForm, SymbolList

LEMMA PrimaryLeft ==
  ASSUME NEW s \in Seq(SYMBOL), NEW t
  PROVE  /\ Left(Then("PRIMARY", s), t) = IF t \in {"NUMBER", "IDENT"} THEN {s} ELSE {}
         /\ ~ Empty(Then("PRIMARY", s))
<1>1. "NUMBER" \in TOKEN /\ "IDENT" \in TOKEN
  BY TokenAtoms
<1>2. /\ Left(Then("NUMBER", s), t) = IF t = "NUMBER" THEN {s} ELSE {}
      /\ Left(Then("IDENT", s), t) = IF t = "IDENT" THEN {s} ELSE {}
      /\ ~ Empty(Then("NUMBER", s)) /\ ~ Empty(Then("IDENT", s))
  BY <1>1, TokenLeft
<1>. QED  BY <1>2, PrimaryRule

LEMMA UnaryLeft ==
  ASSUME NEW s \in Seq(SYMBOL), NEW t
  PROVE  /\ t \in SIGNS => Left(Then("UNARY", s), t) = {Then("PRIMARY", s)}
         /\ t \notin SIGNS => Left(Then("UNARY", s), t) = Left(Then("PRIMARY", s), t)
         /\ ~ Empty(Then("UNARY", s))
<1>1. "PLUS" \in TOKEN /\ "MINUS" \in TOKEN /\ "PRIMARY" \in RULES
  BY TokenAtoms DEF RULES
<1>2. PICK p : p = Then("PRIMARY", s)
  OBVIOUS
<1>3. p \in Seq(SYMBOL)
  BY <1>1, <1>2, ThenSymbols
<1>4. /\ Left(Then("PLUS", p), t) = IF t = "PLUS" THEN {p} ELSE {}
      /\ Left(Then("MINUS", p), t) = IF t = "MINUS" THEN {p} ELSE {}
      /\ ~ Empty(Then("PLUS", p)) /\ ~ Empty(Then("MINUS", p))
  BY <1>1, <1>3, TokenLeft
<1>5. ~ Empty(p) /\ (t \in SIGNS => Left(p, t) = {})
  BY <1>2, PrimaryLeft DEF SIGNS
<1>6. /\ Left(Then("UNARY", s), t) = Left(p, t) \cup Left(Then("PLUS", p), t) \cup Left(Then("MINUS", p), t)
      /\ Empty(Then("UNARY", s)) <=> Empty(p) \/ Empty(Then("PLUS", p)) \/ Empty(Then("MINUS", p))
  BY <1>2, UnaryRule
<1>. QED  BY <1>2, <1>4, <1>5, <1>6 DEF SIGNS

LEMMA UnariesLeft ==
  ASSUME NEW s \in Seq(SYMBOL), NEW t
  PROVE  /\ t \in {"DIV", "MULT"} =>
              Left(Then("unaries", s), t) = Left(s, t) \cup {Then("UNARY", Then("unaries", s))}
         /\ t \notin {"DIV", "MULT"} => Left(Then("unaries", s), t) = Left(s, t)
         /\ Empty(Then("unaries", s)) <=> Empty(s)
<1>1. "DIV" \in TOKEN /\ "MULT" \in TOKEN /\ "UNARY" \in RULES /\ "unaries" \in RULES
  BY TokenAtoms DEF RULES
<1>2. PICK p : p = Then("UNARY", Then("unaries", s))
  OBVIOUS
<1>3. p \in Seq(SYMBOL)
  BY <1>1, <1>2, ThenSymbols
<1>4. /\ Left(Then("DIV", p), t) = IF t = "DIV" THEN {p} ELSE {}
      /\ Left(Then("MULT", p), t) = IF t = "MULT" THEN {p} ELSE {}
      /\ ~ Empty(Then("DIV", p)) /\ ~ Empty(Then("MULT", p))
  BY <1>1, <1>3, TokenLeft
<1>5. /\ Left(Then("unaries", s), t) = Left(s, t) \cup Left(Then("DIV", p), t) \cup Left(Then("MULT", p), t)
      /\ Empty(Then("unaries", s)) <=> Empty(s) \/ Empty(Then("DIV", p)) \/ Empty(Then("MULT", p))
  BY <1>2, UnariesRule
<1>. QED  BY <1>2, <1>4, <1>5

LEMMA TermsLeft ==
  ASSUME NEW s \in Seq(SYMBOL), NEW t
  PROVE  /\ t \in SIGNS => Left(Then("terms", s), t) = Left(s, t) \cup {Then("TERM", Then("terms", s))}
         /\ t \notin SIGNS => Left(Then("terms", s), t) = Left(s, t)
         /\ Empty(Then("terms", s)) <=> Empty(s)
<1>1. "PLUS" \in TOKEN /\ "MINUS" \in TOKEN /\ "TERM" \in RULES /\ "terms" \in RULES
  BY TokenAtoms DEF RULES
<1>2. PICK p : p = Then("TERM", Then("terms", s))
  OBVIOUS
<1>3. p \in Seq(SYMBOL)
  BY <1>1, <1>2, ThenSymbols
<1>4. /\ Left(Then("PLUS", p), t) = IF t = "PLUS" THEN {p} ELSE {}
      /\ Left(Then("MINUS", p), t) = IF t = "MINUS" THEN {p} ELSE {}
      /\ ~ Empty(Then("PLUS", p)) /\ ~ Empty(Then("MINUS", p))
  BY <1>1, <1>3, TokenLeft
<1>5. /\ Left(Then("terms", s), t) = Left(s, t) \cup Left(Then("MINUS", p), t) \cup Left(Then("PLUS", p), t)
      /\ Empty(Then("terms", s)) <=> Empty(s) \/ Empty(Then("MINUS", p)) \/ Empty(Then("PLUS", p))
  BY <1>2, TermsRule
<1>. QED  BY <1>2, <1>4, <1>5 DEF SIGNS

LEMMA OperatorLeft ==
  ASSUME NEW s \in Seq(SYMBOL), NEW t
  PROVE  /\ Left(Then("operator", s), t) = IF t \in COMPARISON_OPS THEN {s} ELSE {}
         /\ ~ Empty(Then("operator", s))
<1>1. COMPARISON_OPS \subseteq TOKEN
  BY DEF TOKEN
<1>2. \A x \in COMPARISON_OPS :
        Left(Then(x, s), t) = (IF t = x THEN {s} ELSE {}) /\ ~ Empty(Then(x, s))
  BY <1>1, TokenLeft
<1>. QED  BY <1>2, OperatorRule DEF COMPARISON_OPS

\* Nothing that begins with an expression or a comparison is empty.
LEMMA ExpressionsLeft ==
  ASSUME NEW s \in Seq(SYMBOL), NEW t
  PROVE  /\ Left(Then("TERM", s), t) = Left(Then("UNARY", Then("unaries", s)), t)
         /\ Left(Then("EXPRESSION", s), t) = Left(Then("TERM", Then("terms", s)), t)
         /\ Left(Then("COMPARISON", s), t) =
              Left(Then("EXPRESSION", Then("operator", Then("EXPRESSION", s))), t)
         /\ ~ Empty(Then("TERM", s)) /\ ~ Empty(Then("EXPRESSION", s)) /\ ~ Empty(Then("COMPARISON", s))
<1>1. {"unaries", "terms", "operator", "EXPRESSION"} \subseteq RULES
  BY DEF RULES
<1>2. \A u \in Seq(SYMBOL) : ~ Empty(Then("TERM", u))
  <2>. TAKE u \in Seq(SYMBOL)
  <2>1. Then("unaries", u) \in Seq(SYMBOL)
    BY <1>1, ThenSymbols
  <2>. QED  BY <2>1, TermRule, UnaryLeft
<1>3. \A u \in Seq(SYMBOL) : ~ Empty(Then("EXPRESSION", u))
  <2>. TAKE u \in Seq(SYMBOL)
  <2>1. Then("terms", u) \in Seq(SYMBOL)
    BY <1>1, ThenSymbols
  <2>. QED  BY <1>2, <2>1, ExpressionRule
<1>4. Then("operator", Then("EXPRESSION", s)) \in Seq(SYMBOL)
  BY <1>1, ThenSymbols
<1>. QED  BY <1>2, <1>3, <1>4, TermRule, ExpressionRule, ComparisonRule

\* What may come after the keyword of a statement.
AfterKeyword(kw, s) ==
  CASE kw = "PRINT" -> {Then("EXPRESSION", s), Then("STRING", s)}
    [] kw = "IF"    -> {Then("COMPARISON", Then("THEN", Then("statements", Then("ENDIF", s))))}
    [] kw = "WHILE" -> {Then("COMPARISON", Then("REPEAT", Then("statements", Then("ENDWHILE", s))))}
    [] kw = "LET"   -> {Then("IDENT", Then("EQ", Then("EXPRESSION", s)))}
    [] OTHER        -> {Then("IDENT", s)}

LEMMA StatementLeft ==
  ASSUME NEW s \in Seq(SYMBOL), NEW t
  PROVE  /\ t \in STATEMENT_START_KEYWORDS => Left(Then("STATEMENT", s), t) = AfterKeyword(t, s)
         /\ t \notin STATEMENT_START_KEYWORDS => Left(Then("STATEMENT", s), t) = {}
         /\ ~ Empty(Then("STATEMENT", s))
<1>1. PICK p1, p2, p3, p4, p5, p6 :
        /\ p1 = Then("EXPRESSION", s) /\ p2 = Then("STRING", s)
        /\ p3 = Then("COMPARISON", Then("THEN", Then("statements", Then("ENDIF", s))))
        /\ p4 = Then("COMPARISON", Then("REPEAT", Then("statements", Then("ENDWHILE", s))))
        /\ p5 = Then("IDENT", s) /\ p6 = Then("IDENT", Then("EQ", Then("EXPRESSION", s)))
  OBVIOUS
<1>2. /\ {"EXPRESSION", "STRING", "COMPARISON", "THEN", "REPEAT", "statements", "ENDIF", "ENDWHILE",
          "IDENT", "EQ"} \subseteq TOKEN \cup RULES
      /\ STATEMENT_START_KEYWORDS \subseteq TOKEN
  BY TokenAtoms DEF RULES, TOKEN
<1>3. p1 \in Seq(SYMBOL) /\ p2 \in Seq(SYMBOL) /\ p5 \in Seq(SYMBOL)
  BY <1>1, <1>2, ThenSymbols
<1>4. p3 \in Seq(SYMBOL) /\ p4 \in Seq(SYMBOL)
  <2>1. \A u \in Seq(SYMBOL) : Then("ENDIF", u) \in Seq(SYMBOL) /\ Then("ENDWHILE", u) \in Seq(SYMBOL)
    BY <1>2, ThenSymbols
  <2>2. \A u \in Seq(SYMBOL) : Then("statements", u) \in Seq(SYMBOL) /\ Then("COMPARISON", u) \in Seq(SYMBOL)
    BY <1>2, ThenSymbols
  <2>3. \A u \in Seq(SYMBOL) : Then("THEN", u) \in Seq(SYMBOL) /\ Then("REPEAT", u) \in Seq(SYMBOL)
    BY <1>2, ThenSymbols
  <2>. QED  BY <1>1, <2>1, <2>2, <2>3
<1>5. p6 \in Seq(SYMBOL)
  <2>1. \A u \in Seq(SYMBOL) : Then("EQ", u) \in Seq(SYMBOL) /\ Then("IDENT", u) \in Seq(SYMBOL)
    BY <1>2, ThenSymbols
  <2>. QED  BY <1>1, <1>3, <2>1
<1>6. \A x \in STATEMENT_START_KEYWORDS : \A u \in Seq(SYMBOL) :
        Left(Then(x, u), t) = (IF t = x THEN {u} ELSE {}) /\ ~ Empty(Then(x, u))
  BY <1>2, TokenLeft
<1>7. /\ Left(Then("STATEMENT", s), t) =
              Left(Then("PRINT", p1), t) \cup Left(Then("PRINT", p2), t)
              \cup Left(Then("IF", p3), t) \cup Left(Then("WHILE", p4), t)
              \cup Left(Then("LABEL", p5), t) \cup Left(Then("GOTO", p5), t)
              \cup Left(Then("LET", p6), t) \cup Left(Then("INPUT", p5), t)
      /\ Empty(Then("STATEMENT", s)) <=>
              \/ Empty(Then("PRINT", p1)) \/ Empty(Then("PRINT", p2))
              \/ Empty(Then("IF", p3)) \/ Empty(Then("WHILE", p4))
              \/ Empty(Then("LABEL", p5)) \/ Empty(Then("GOTO", p5))
              \/ Empty(Then("LET", p6)) \/ Empty(Then("INPUT", p5))
  BY <1>1, StatementRule
<1>8. /\ Left(Then("PRINT", p1), t) = (IF t = "PRINT" THEN {p1} ELSE {}) /\ ~ Empty(Then("PRINT", p1))
      /\ Left(Then("PRINT", p2), t) = (IF t = "PRINT" THEN {p2} ELSE {}) /\ ~ Empty(Then("PRINT", p2))
      /\ Left(Then("IF", p3), t) = (IF t = "IF" THEN {p3} ELSE {}) /\ ~ Empty(Then("IF", p3))
      /\ Left(Then("WHILE", p4), t) = (IF t = "WHILE" THEN {p4} ELSE {}) /\ ~ Empty(Then("WHILE", p4))
      /\ Left(Then("LABEL", p5), t) = (IF t = "LABEL" THEN {p5} ELSE {}) /\ ~ Empty(Then("LABEL", p5))
      /\ Left(Then("GOTO", p5), t) = (IF t = "GOTO" THEN {p5} ELSE {}) /\ ~ Empty(Then("GOTO", p5))
      /\ Left(Then("LET", p6), t) = (IF t = "LET" THEN {p6} ELSE {}) /\ ~ Empty(Then("LET", p6))
      /\ Left(Then("INPUT", p5), t) = (IF t = "INPUT" THEN {p5} ELSE {}) /\ ~ Empty(Then("INPUT", p5))
  BY <1>3, <1>4, <1>5, <1>6 DEF STATEMENT_START_KEYWORDS
<1>9. ~ Empty(Then("STATEMENT", s))
  BY <1>7, <1>8
<1>10. t \notin STATEMENT_START_KEYWORDS => Left(Then("STATEMENT", s), t) = {}
  BY <1>7, <1>8 DEF STATEMENT_START_KEYWORDS
<1>11. t \in STATEMENT_START_KEYWORDS => Left(Then("STATEMENT", s), t) = AfterKeyword(t, s)
  <2>1. CASE t \in {"PRINT", "IF", "WHILE", "LET"}
    BY <1>1, <1>7, <1>8, <2>1 DEF AfterKeyword
  <2>2. CASE t \in {"LABEL", "GOTO", "INPUT"}
    BY <1>1, <1>7, <1>8, <2>2 DEF AfterKeyword
  <2>. QED  BY <2>1, <2>2 DEF STATEMENT_START_KEYWORDS
<1>. QED  BY <1>9, <1>10, <1>11

LEMMA StatementsLeft ==
  ASSUME NEW s \in Seq(SYMBOL), NEW t
  PROVE  /\ t \in STATEMENT_START_KEYWORDS =>
              Left(Then("statements", s), t) = Left(s, t) \cup AfterKeyword(t, Then("statements", s))
         /\ t \notin STATEMENT_START_KEYWORDS => Left(Then("statements", s), t) = Left(s, t)
         /\ Empty(Then("statements", s)) <=> Empty(s)
<1>1. PICK p : p = Then("statements", s)
  OBVIOUS
<1>2. p \in Seq(SYMBOL)
  BY <1>1, ThenSymbols DEF RULES
<1>3. /\ t \in STATEMENT_START_KEYWORDS => Left(Then("STATEMENT", p), t) = AfterKeyword(t, p)
      /\ t \notin STATEMENT_START_KEYWORDS => Left(Then("STATEMENT", p), t) = {}
      /\ ~ Empty(Then("STATEMENT", p))
  BY <1>2, StatementLeft
<1>4. /\ Left(p, t) = Left(s, t) \cup Left(Then("STATEMENT", p), t)
      /\ Empty(p) <=> Empty(s) \/ Empty(Then("STATEMENT", p))
  BY <1>1, StatementsRule
<1>. QED  BY <1>1, <1>3, <1>4

-----------------------------------------------------------------------------
(***************************************************************************)
(* What may follow the tokens read so far.                                 *)
(***************************************************************************)
LEMMA Least ==
  ASSUME NEW T, T \subseteq Nat, T # {}
  PROVE  \E x \in T : \A y \in T : x <= y
<1>1. PICK x \in T : \A y \in T : ~ (<<y, x>> \in OpToRel(<, Nat))
  BY WFMin, NatLessThanWellFounded
<1>2. \A y \in T : ~ (y < x)
  BY <1>1 DEF OpToRel
<1>. QED  BY <1>2

Follower(g, n, word, forms, atoms) ==
  g = [k \in 0 .. n |-> IF k = 0 THEN forms ELSE Read(g[k - 1], word[k], atoms)]

LEMMA FollowExists ==
  ASSUME NEW word, NEW forms, NEW atoms
  PROVE  \A n \in Nat : \E g : Follower(g, n, word, forms, atoms)
<1>. DEFINE T == {n \in Nat : ~ \E g : Follower(g, n, word, forms, atoms)}
<1>. SUFFICES ASSUME T # {} PROVE FALSE
  OBVIOUS
<1>1. PICK m \in T : \A y \in T : m <= y
  <2>. HIDE DEF T
  <2>1. T \subseteq Nat
    BY DEF T
  <2>. QED  BY <2>1, Least
<1>2. CASE m = 0
  <2>1. PICK g : g = [k \in 0 .. 0 |-> forms]
    OBVIOUS
  <2>2. \A k \in 0 .. 0 : k = 0
    OBVIOUS
  <2>3. Follower(g, 0, word, forms, atoms)
    BY <2>1, <2>2, Zenon DEF Follower
  <2>. QED  BY <1>1, <1>2, <2>3
<1>3. CASE m # 0
  <2>1. m \in Nat /\ m - 1 \in Nat /\ m - 1 \notin T
    BY <1>1, <1>3
  <2>2. PICK g : Follower(g, m - 1, word, forms, atoms)
    BY <2>1
  <2>3. PICK last : last = Read(g[m - 1], word[m], atoms)
    OBVIOUS
  <2>4. PICK h : h = [k \in 0 .. m |-> IF k = m THEN last ELSE g[k]]
    OBVIOUS
  <2>5. /\ \A k \in 0 .. m - 1 : h[k] = g[k] /\ k # m
        /\ h[m] = last
    BY <2>1, <2>4
  <2>6. \A k \in 0 .. m - 1 : g[k] = IF k = 0 THEN forms ELSE Read(g[k - 1], word[k], atoms)
    BY <2>2, Zenon DEF Follower
  <2>7. ASSUME NEW k \in 0 .. m
        PROVE  (IF k = m THEN last ELSE g[k]) = IF k = 0 THEN forms ELSE Read(h[k - 1], word[k], atoms)
    <3>1. CASE k = m
      <4>1. m - 1 \in 0 .. m - 1
        BY <2>1
      <4>. QED  BY <1>3, <2>3, <2>5, <3>1, <4>1
    <3>2. CASE k # m
      <4>1. k \in 0 .. m - 1 /\ (k # 0 => k - 1 \in 0 .. m - 1)
        BY <2>1, <3>2
      <4>. QED  BY <2>5, <2>6, <3>2, <4>1
    <3>. QED  BY <3>1, <3>2
  <2>8. Follower(h, m, word, forms, atoms)
    BY <2>4, <2>7, Zenon DEF Follower
  <2>. QED  BY <1>1, <2>8
<1>. QED  BY <1>2, <1>3

LEMMA FollowSteps ==
  ASSUME NEW word, NEW forms, NEW atoms, Len(word) \in Nat
  PROVE  /\ Follow(word, forms, atoms)[0] = forms
         /\ \A k \in 1 .. Len(word) :
              Follow(word, forms, atoms)[k] = Read(Follow(word, forms, atoms)[k - 1], word[k], atoms)
<1>. DEFINE v == CHOOSE g : Follower(g, Len(word), word, forms, atoms)
<1>1. Follower(v, Len(word), word, forms, atoms)
  <2>1. \E g : Follower(g, Len(word), word, forms, atoms)
    BY FollowExists
  <2>. QED  BY <2>1, Zenon
<1>2. Follow(word, forms, atoms) = v
  BY Zenon DEF Follow, Follower
<1>. HIDE DEF v
<1>3. \A k \in 0 .. Len(word) : v[k] = IF k = 0 THEN forms ELSE Read(v[k - 1], word[k], atoms)
  BY <1>1, Zenon DEF Follower
<1>4. 0 \in 0 .. Len(word) /\ \A k \in 1 .. Len(word) : k \in 0 .. Len(word) /\ k # 0
  OBVIOUS
<1>. QED  BY <1>2, <1>3, <1>4

-----------------------------------------------------------------------------
(***************************************************************************)
(* What is left to read of a statement.                                    *)
(***************************************************************************)
\* The forms with a keyword in front.
Prefixed(kw, G) == {Then(kw, g) : g \in G}

\* What a statement has to read from a place of its Form on, and then s.
StatementTodo(kw, place, s) ==
  CASE place = 1 -> Prefixed(kw, AfterKeyword(kw, s))
    [] place = 2 -> AfterKeyword(kw, s)
    [] place = 3 /\ kw = "IF"    -> {Then("THEN", Then("statements", Then("ENDIF", s)))}
    [] place = 3 /\ kw = "WHILE" -> {Then("REPEAT", Then("statements", Then("ENDWHILE", s)))}
    [] place = 3 /\ kw = "LET"   -> {Then("EQ", Then("EXPRESSION", s))}
    [] place = 4 /\ kw = "IF"    -> {Then("statements", Then("ENDIF", s))}
    [] place = 4 /\ kw = "WHILE" -> {Then("statements", Then("ENDWHILE", s))}
    [] place = 4 /\ kw = "LET"   -> {Then("EXPRESSION", s)}
    [] place = 5 /\ kw = "IF"    -> {Then("ENDIF", s)}
    [] place = 5 /\ kw = "WHILE" -> {Then("ENDWHILE", s)}
    [] OTHER -> {s}

\* The places that a function may go on at.
Standing(f, r) ==
  /\ f.fn = "PRIMARY" => f.at = 1
  /\ f.fn \in {"UNARY", "TERM", "EXPRESSION"} => f.at = 1 \/ (f.at = 2 /\ r = "true")
  /\ f.fn = "COMPARISON" => f.at = 1 \/ (f.at \in {2, 3} /\ r = "true")
  /\ f.fn = "STATEMENT" =>
       /\ f.kw \in STATEMENT_START_KEYWORDS
       /\ f.at \in 1 .. Len(Form(f.kw)) + 1
       /\ r = "true" => f.at <= Len(Form(f.kw)) /\ Form(f.kw)[f.at].call # "none"

\* The tokens that a function goes on with do not begin what is read after it.
Calm(fn, s) ==
  /\ fn \in {"TERM", "EXPRESSION", "COMPARISON", "STATEMENT"} =>
       \A t \in {"DIV", "MULT"} : Left(s, t) = {}
  /\ fn \in {"EXPRESSION", "COMPARISON", "STATEMENT"} => \A t \in SIGNS : Left(s, t) = {}
  /\ fn = "STAR" => s = <<>>
  /\ fn = "BLOCK" => \E x \in {"ENDIF", "ENDWHILE"} : \E v \in Seq(SYMBOL) : s = Then(x, v)

\* The forms that may follow the first k tokens.
AfterTokens(tk, k) == Follow(tk, {<<"PROGRAM">>}, TOKEN)[k]

\* Two sets of forms go on with what is at a position alike.
Agree(F, G, tk, pos) ==
  IF pos > Len(tk) THEN MayEnd(F, TOKEN) <=> MayEnd(G, TOKEN)
                   ELSE Read(F, tk[pos], TOKEN) = Read(G, tk[pos], TOKEN)

\* The grammar lets nothing follow here: neither the token nor the end.
Stuck(tk, pos) ==
  /\ AfterTokens(tk, pos - 1) # {}
  /\ IF pos > Len(tk) THEN ~ MayEnd(AfterTokens(tk, pos - 1), TOKEN)
                      ELSE Read(AfterTokens(tk, pos - 1), tk[pos], TOKEN) = {}

\* An error about the first place where no program goes on.
FirstWrong(tk, error) ==
  \E first \in 1 .. Len(tk) + 1 :
    Stuck(tk, first) /\ error = IF first > Len(tk) THEN FILE_START ELSE first

LEMMA ReadMembers ==
  ASSUME NEW F, NEW t
  PROVE  /\ \A r : r \in Read(F, t, TOKEN) <=> \E f \in F : r \in Left(f, t)
         /\ MayEnd(F, TOKEN) <=> \E f \in F : Empty(f)
<1>1. /\ \A r : r \in Read(F, t, TOKEN) <=> \E f \in F : r \in Rest(f, t, TOKEN)
      /\ MayEnd(F, TOKEN) <=> \E f \in F : May(f, TOKEN)
  BY ReadOf
<1>. QED  BY <1>1 DEF Left, Empty

LEMMA MayEndMembers ==
  ASSUME NEW F
  PROVE  MayEnd(F, TOKEN) <=> \E f \in F : Empty(f)
<1>1. MayEnd(F, TOKEN) <=> \E f \in F : May(f, TOKEN)
  BY ReadOf
<1>. QED  BY <1>1 DEF Empty

LEMMA ReadOne ==
  ASSUME NEW f, NEW t
  PROVE  Read({f}, t, TOKEN) = Left(f, t) /\ (MayEnd({f}, TOKEN) <=> Empty(f))
<1>1. MayEnd({f}, TOKEN) <=> Empty(f)
  <2>1. \A r : r \in Read({f}, t, TOKEN) <=> \E h \in {f} : r \in Left(h, t)
    BY ReadMembers
  <2>2. MayEnd({f}, TOKEN) <=> \E h \in {f} : Empty(h)
    BY MayEndMembers
  <2>. QED  BY <2>1, <2>2
<1>. QED  BY <1>1 DEF Left, Rest

LEMMA ReadTwo ==
  ASSUME NEW f, NEW g, NEW t
  PROVE  /\ Read({f, g}, t, TOKEN) = Left(f, t) \cup Left(g, t)
         /\ MayEnd({f, g}, TOKEN) <=> Empty(f) \/ Empty(g)
<1>1. \A r : r \in Read({f, g}, t, TOKEN) <=> \E h \in {f, g} : r \in Left(h, t)
  BY ReadMembers
<1>2. MayEnd({f, g}, TOKEN) <=> \E h \in {f, g} : Empty(h)
  BY ReadMembers
<1>. QED  BY <1>1, <1>2

LEMMA ReadKeyword ==
  ASSUME NEW kw \in TOKEN, NEW G, G \subseteq Seq(SYMBOL), NEW t
  PROVE  /\ t = kw => Read(Prefixed(kw, G), t, TOKEN) = G
         /\ t # kw => Read(Prefixed(kw, G), t, TOKEN) = {}
         /\ ~ MayEnd(Prefixed(kw, G), TOKEN)
<1>1. PICK F : F = Prefixed(kw, G)
  OBVIOUS
<1>2. \A f : f \in F <=> \E g \in G : f = Then(kw, g)
  BY <1>1, Zenon DEF Prefixed
<1>3. \A g \in G : Left(Then(kw, g), t) = (IF t = kw THEN {g} ELSE {}) /\ ~ Empty(Then(kw, g))
  BY TokenLeft
<1>4. /\ \A r : r \in Read(F, t, TOKEN) <=> \E f \in F : r \in Left(f, t)
      /\ MayEnd(F, TOKEN) <=> \E f \in F : Empty(f)
  BY ReadMembers
<1>5. /\ \A r : r \in Read(F, t, TOKEN) <=> \E g \in G : r \in Left(Then(kw, g), t)
      /\ MayEnd(F, TOKEN) <=> \E g \in G : Empty(Then(kw, g))
  BY <1>2, <1>4, Zenon
<1>6. ASSUME t = kw PROVE Read(F, t, TOKEN) = G
  <2>1. \A r : r \in Read(F, t, TOKEN) <=> \E g \in G : r = g
    BY <1>3, <1>5, <1>6
  <2>. QED  BY <2>1
<1>7. t # kw => Read(F, t, TOKEN) = {}
  BY <1>3, <1>5
<1>8. ~ MayEnd(F, TOKEN)
  BY <1>3, <1>5
<1>. QED  BY <1>1, <1>6, <1>7, <1>8, Zenon

LEMMA AfterSteps ==
  ASSUME NEW tk \in Seq(TOKEN)
  PROVE  /\ AfterTokens(tk, 0) = {<<"PROGRAM">>}
         /\ \A k \in 1 .. Len(tk) : AfterTokens(tk, k) = Read(AfterTokens(tk, k - 1), tk[k], TOKEN)
<1>1. Len(tk) \in Nat
  OBVIOUS
<1>2. /\ Follow(tk, {<<"PROGRAM">>}, TOKEN)[0] = {<<"PROGRAM">>}
      /\ \A k \in 1 .. Len(tk) :
           Follow(tk, {<<"PROGRAM">>}, TOKEN)[k] = Read(Follow(tk, {<<"PROGRAM">>}, TOKEN)[k - 1], tk[k], TOKEN)
  BY <1>1, FollowSteps
<1>. QED  BY <1>2 DEF AfterTokens

\* Where nothing may follow, nothing ever will.
LEMMA NothingFollows ==
  ASSUME NEW tk \in Seq(TOKEN), NEW k \in 0 .. Len(tk), AfterTokens(tk, k) = {}
  PROVE  AfterTokens(tk, Len(tk)) = {}
<1>. DEFINE T == {j \in k .. Len(tk) : AfterTokens(tk, j) # {}}
<1>. SUFFICES ASSUME T # {} PROVE FALSE
  OBVIOUS
<1>1. PICK m \in T : \A y \in T : m <= y
  <2>1. T \subseteq Nat
    OBVIOUS
  <2>. HIDE DEF T
  <2>. QED  BY <2>1, Least
<1>2. m - 1 \in k .. Len(tk) /\ m - 1 \notin T /\ m \in 1 .. Len(tk)
  BY <1>1
<1>3. AfterTokens(tk, m) = Read(AfterTokens(tk, m - 1), tk[m], TOKEN) /\ AfterTokens(tk, m - 1) = {}
  BY <1>2, AfterSteps
<1>4. \A F, t : F = {} => Read(F, t, TOKEN) = {}
  BY ReadMembers
<1>. QED  BY <1>1, <1>3, <1>4

LEMMA TodoSymbols ==
  ASSUME NEW s \in Seq(SYMBOL), NEW kw \in STATEMENT_START_KEYWORDS
  PROVE  /\ AfterKeyword(kw, s) \subseteq Seq(SYMBOL) /\ AfterKeyword(kw, s) # {}
         /\ \A x \in TOKEN \cup RULES :
              /\ Then(x, s) \in Seq(SYMBOL)
              /\ \A y \in TOKEN \cup RULES :
                   /\ Then(y, Then(x, s)) \in Seq(SYMBOL)
                   /\ \A z \in TOKEN \cup RULES : Then(z, Then(y, Then(x, s))) \in Seq(SYMBOL)
<1>1. \A u \in Seq(SYMBOL) : \A x \in TOKEN \cup RULES : Then(x, u) \in Seq(SYMBOL)
  BY ThenSymbols
<1>2. {"EXPRESSION", "STRING", "COMPARISON", "THEN", "REPEAT", "statements", "ENDIF", "ENDWHILE",
       "IDENT", "EQ"} \subseteq TOKEN \cup RULES
  BY TokenAtoms DEF RULES
<1>3. CASE kw = "PRINT"
  <2>1. AfterKeyword(kw, s) = {Then("EXPRESSION", s), Then("STRING", s)}
    BY <1>3 DEF AfterKeyword
  <2>. QED  BY <1>1, <1>2, <2>1
<1>4. CASE kw = "IF"
  <2>1. AfterKeyword(kw, s) = {Then("COMPARISON", Then("THEN", Then("statements", Then("ENDIF", s))))}
    BY <1>4 DEF AfterKeyword
  <2>. QED  BY <1>1, <1>2, <2>1
<1>5. CASE kw = "WHILE"
  <2>1. AfterKeyword(kw, s) = {Then("COMPARISON", Then("REPEAT", Then("statements", Then("ENDWHILE", s))))}
    BY <1>5 DEF AfterKeyword
  <2>. QED  BY <1>1, <1>2, <2>1
<1>6. CASE kw = "LET"
  <2>1. AfterKeyword(kw, s) = {Then("IDENT", Then("EQ", Then("EXPRESSION", s)))}
    BY <1>6 DEF AfterKeyword
  <2>. QED  BY <1>1, <1>2, <2>1
<1>7. CASE kw \notin {"PRINT", "IF", "WHILE", "LET"}
  <2>1. AfterKeyword(kw, s) = {Then("IDENT", s)}
    BY <1>7 DEF AfterKeyword
  <2>. QED  BY <1>1, <1>2, <2>1
<1>. QED  BY <1>1, <1>3, <1>4, <1>5, <1>6, <1>7

LEMMA AgreeTransitive ==
  ASSUME NEW F, NEW G, NEW H, NEW tk, NEW pos, Agree(F, G, tk, pos), Agree(G, H, tk, pos)
  PROVE  Agree(F, H, tk, pos)
BY DEF Agree

\* The next token is read.
LEMMA TokenRead ==
  ASSUME NEW tk \in Seq(TOKEN), NEW pos \in 1 .. Len(tk), NEW F, NEW G,
         Agree(AfterTokens(tk, pos - 1), F, tk, pos), Read(F, tk[pos], TOKEN) = G, G # {}
  PROVE  AfterTokens(tk, pos) = G /\ AfterTokens(tk, pos) # {}
         /\ AfterTokens(tk, pos + 1 - 1) = G
<1>1. ~ (pos > Len(tk)) /\ pos + 1 - 1 = pos
  OBVIOUS
<1>. QED  BY <1>1, AfterSteps DEF Agree

\* What may follow at a place is what the forms begin with.
Open(F, pos) ==
  /\ Agree(AfterTokens(tokens, pos - 1), F, tokens, pos)
  /\ AfterTokens(tokens, pos - 1) # {}

LEMMA OpenAlike ==
  ASSUME NEW F, NEW G, NEW pos, Open(F, pos), Agree(F, G, tokens, pos)
  PROVE  Open(G, pos)
BY AgreeTransitive DEF Open

LEMMA OpenOne ==
  ASSUME NEW f, NEW g, NEW pos, Open({f}, pos),
         pos > Len(tokens) => (Empty(f) <=> Empty(g)),
         ~ (pos > Len(tokens)) => Left(f, tokens[pos]) = Left(g, tokens[pos])
  PROVE  Open({g}, pos)
<1>1. Agree({f}, {g}, tokens, pos)
  <2>1. CASE pos > Len(tokens)
    <3>1. (MayEnd({f}, TOKEN) <=> Empty(f)) /\ (MayEnd({g}, TOKEN) <=> Empty(g))
      BY MayEndMembers
    <3>. QED  BY <2>1, <3>1 DEF Agree
  <2>2. CASE ~ (pos > Len(tokens))
    <3>1. /\ Read({f}, tokens[pos], TOKEN) = Left(f, tokens[pos])
          /\ Read({g}, tokens[pos], TOKEN) = Left(g, tokens[pos])
      BY ReadOne
    <3>. QED  BY <2>2, <3>1 DEF Agree
  <2>. QED  BY <2>1, <2>2
<1>. QED  BY <1>1, OpenAlike

LEMMA OpenToken ==
  ASSUME tokens \in Seq(TOKEN), NEW pos \in 1 .. Len(tokens), NEW F, Open(F, pos),
         NEW G, Read(F, tokens[pos], TOKEN) = G, G # {}
  PROVE  Open(G, pos + 1)
<1>1. Agree(AfterTokens(tokens, pos - 1), F, tokens, pos)
  BY DEF Open
<1>2. PICK A : A = AfterTokens(tokens, pos + 1 - 1)
  OBVIOUS
<1>3. A = G
  BY <1>1, <1>2, TokenRead
<1>. QED  BY <1>2, <1>3 DEF Open, Agree

\* Where the forms have nothing for the place, the parser is right to stop.
LEMMA OpenStuck ==
  ASSUME NEW F, NEW pos, Open(F, pos),
         pos > Len(tokens) => ~ MayEnd(F, TOKEN),
         ~ (pos > Len(tokens)) => Read(F, tokens[pos], TOKEN) = {}
  PROVE  Stuck(tokens, pos)
BY DEF Open, Agree, Stuck

-----------------------------------------------------------------------------
(***************************************************************************)
(* The items of a statement: F is what may follow before one, G after it.  *)
(***************************************************************************)
ItemOK(expect, call, F, G) ==
  /\ G # {} /\ \A t \in expect : Read(F, t, TOKEN) = G
  /\ call = "none" => ~ MayEnd(F, TOKEN) /\ \A t : t \notin expect => Read(F, t, TOKEN) = {}
  /\ call \in {"COMPARISON", "EXPRESSION"} =>
       \E u \in Seq(SYMBOL) :
         /\ G = {u} /\ Calm(call, u) /\ ~ MayEnd(F, TOKEN)
         /\ \A t : t \notin expect => Read(F, t, TOKEN) = Left(Then(call, u), t)
  /\ call = "BLOCK" =>
       \E u \in Seq(SYMBOL) : F = {Then("statements", u)} /\ G = {u} /\ Calm("BLOCK", u)

LEMMA KeywordItem ==
  ASSUME NEW kw \in TOKEN, NEW G, G \subseteq Seq(SYMBOL), G # {},
         NEW F, F = Prefixed(kw, G)
  PROVE  ItemOK({kw}, "none", F, G)
<1>1. ~ MayEnd(F, TOKEN) /\ \A t : /\ t = kw => Read(F, t, TOKEN) = G
                                   /\ t # kw => Read(F, t, TOKEN) = {}
  BY ReadKeyword, Zenon
<1>. QED  BY <1>1 DEF ItemOK

LEMMA TokenItem ==
  ASSUME NEW x \in TOKEN, NEW v \in Seq(SYMBOL)
  PROVE  ItemOK({x}, "none", {Then(x, v)}, {v})
<1>1. PICK f : f = Then(x, v)
  OBVIOUS
<1>2. /\ \A t : Left(f, t) = IF t = x THEN {v} ELSE {}
      /\ ~ Empty(f)
  BY <1>1, TokenLeft
<1>3. \A t : Read({f}, t, TOKEN) = Left(f, t)
  BY ReadOne
<1>4. MayEnd({f}, TOKEN) <=> Empty(f)
  BY MayEndMembers
<1>. QED  BY <1>1, <1>2, <1>3, <1>4 DEF ItemOK

LEMMA PartItem ==
  ASSUME NEW call \in {"COMPARISON", "EXPRESSION"}, NEW u \in Seq(SYMBOL), Calm(call, u)
  PROVE  ItemOK({}, call, {Then(call, u)}, {u})
<1>1. PICK f : f = Then(call, u)
  OBVIOUS
<1>2. ~ Empty(f)
  BY <1>1, ExpressionsLeft
<1>3. \A t : Read({f}, t, TOKEN) = Left(f, t)
  BY ReadOne
<1>4. MayEnd({f}, TOKEN) <=> Empty(f)
  BY MayEndMembers
<1>. QED  BY <1>1, <1>2, <1>3, <1>4 DEF ItemOK

LEMMA PrintItem ==
  ASSUME NEW s \in Seq(SYMBOL), Calm("EXPRESSION", s)
  PROVE  ItemOK({"STRING"}, "EXPRESSION", {Then("EXPRESSION", s), Then("STRING", s)}, {s})
<1>1. PICK f, g : f = Then("EXPRESSION", s) /\ g = Then("STRING", s)
  OBVIOUS
<1>2. /\ \A t : Left(g, t) = IF t = "STRING" THEN {s} ELSE {}
      /\ ~ Empty(g) /\ ~ Empty(f)
  BY <1>1, TokenLeft, TokenAtoms, ExpressionsLeft
<1>3. Left(f, "STRING") = {}
  <2>1. PICK w, v : w = Then("terms", s) /\ v = Then("unaries", w)
    OBVIOUS
  <2>2. w \in Seq(SYMBOL)
    BY <2>1, ThenSymbols DEF RULES
  <2>3. v \in Seq(SYMBOL)
    BY <2>1, <2>2, ThenSymbols DEF RULES
  <2>4. Left(f, "STRING") = Left(Then("TERM", w), "STRING")
    BY <1>1, <2>1, ExpressionsLeft
  <2>5. Left(Then("TERM", w), "STRING") = Left(Then("UNARY", v), "STRING")
    BY <2>1, <2>2, ExpressionsLeft
  <2>6. Left(Then("UNARY", v), "STRING") = Left(Then("PRIMARY", v), "STRING")
    BY <2>3, UnaryLeft DEF SIGNS
  <2>7. Left(Then("PRIMARY", v), "STRING") = {}
    BY <2>3, PrimaryLeft
  <2>. QED  BY <2>4, <2>5, <2>6, <2>7
<1>4. PICK F : F = {f, g}
  OBVIOUS
<1>5. \A t : Read(F, t, TOKEN) = Left(f, t) \cup Left(g, t)
  BY <1>4, ReadTwo
<1>6. ~ MayEnd(F, TOKEN)
  BY <1>2, <1>4, MayEndMembers
<1>7. \A t \in {"STRING"} : Read(F, t, TOKEN) = {s}
  BY <1>2, <1>3, <1>5
<1>8. \A t : t \notin {"STRING"} => Read(F, t, TOKEN) = Left(f, t)
  BY <1>2, <1>5
<1>. QED  BY <1>1, <1>4, <1>6, <1>7, <1>8 DEF ItemOK

LEMMA BlockItem ==
  ASSUME NEW x \in {"ENDIF", "ENDWHILE"}, NEW v \in Seq(SYMBOL), NEW u, u = Then(x, v)
  PROVE  ItemOK({}, "BLOCK", {Then("statements", u)}, {u})
<1>1. u \in Seq(SYMBOL)
  BY ThenSymbols, TokenAtoms DEF TOKEN, CONTROL_FLOW_TOKENS
<1>2. Calm("BLOCK", u)
  BY DEF Calm
<1>. QED  BY <1>1, <1>2 DEF ItemOK

LEMMA CalmToken ==
  ASSUME NEW x \in {"THEN", "REPEAT"}, NEW v \in Seq(SYMBOL)
  PROVE  Calm("COMPARISON", Then(x, v))
<1>1. \A t \in {"DIV", "MULT"} \cup SIGNS : Left(Then(x, v), t) = {}
  BY TokenLeft, TokenAtoms DEF SIGNS, TOKEN
<1>. QED  BY <1>1 DEF Calm

LEMMA ItemsNamed ==
  ASSUME NEW kw \in {"LABEL", "GOTO", "INPUT"}, NEW s \in Seq(SYMBOL)
  PROVE  /\ Form(kw) = <<Token({kw}), Ident>>
         /\ StatementTodo(kw, 1, s) = Prefixed(kw, AfterKeyword(kw, s))
         /\ StatementTodo(kw, 2, s) = AfterKeyword(kw, s)
         /\ StatementTodo(kw, 3, s) = {s} /\ AfterKeyword(kw, s) = {Then("IDENT", s)}
<1>1. Form(kw) = <<Token({kw}), Ident>>
  BY FormCases
<1>. QED  BY <1>1 DEF StatementTodo, AfterKeyword

LEMMA ItemsPrint ==
  ASSUME NEW s \in Seq(SYMBOL), NEW kw, kw = "PRINT"
  PROVE  /\ StatementTodo(kw, 1, s) = Prefixed(kw, AfterKeyword(kw, s))
         /\ StatementTodo(kw, 2, s) = AfterKeyword(kw, s)
         /\ StatementTodo(kw, 3, s) = {s}
         /\ AfterKeyword(kw, s) = {Then("EXPRESSION", s), Then("STRING", s)}
BY DEF StatementTodo, AfterKeyword

LEMMA ItemsLet ==
  ASSUME NEW s \in Seq(SYMBOL), NEW kw, kw = "LET"
  PROVE  /\ StatementTodo(kw, 1, s) = Prefixed(kw, AfterKeyword(kw, s))
         /\ StatementTodo(kw, 2, s) = AfterKeyword(kw, s)
         /\ StatementTodo(kw, 3, s) = {Then("EQ", Then("EXPRESSION", s))}
         /\ StatementTodo(kw, 4, s) = {Then("EXPRESSION", s)}
         /\ StatementTodo(kw, 5, s) = {s}
         /\ AfterKeyword(kw, s) = {Then("IDENT", Then("EQ", Then("EXPRESSION", s)))}
BY DEF StatementTodo, AfterKeyword

\* The keywords around the statements of a block.
Brackets(kw, x, y) ==
  \/ kw = "IF" /\ x = "THEN" /\ y = "ENDIF"
  \/ kw = "WHILE" /\ x = "REPEAT" /\ y = "ENDWHILE"

LEMMA FormBlock ==
  ASSUME NEW kw, NEW x, NEW y, Brackets(kw, x, y)
  PROVE  Form(kw) = <<Token({kw}), Part("COMPARISON"), Token({x}), Part("BLOCK"), Token({y})>>
<1>1. CASE kw = "IF" /\ x = "THEN" /\ y = "ENDIF"
  <2>1. Form(kw) = <<Token({"IF"}), Part("COMPARISON"), Token({"THEN"}), Part("BLOCK"), Token({"ENDIF"})>>
    BY <1>1, FormCases
  <2>. QED  BY <1>1, <2>1
<1>2. CASE kw = "WHILE" /\ x = "REPEAT" /\ y = "ENDWHILE"
  <2>1. Form(kw) = <<Token({"WHILE"}), Part("COMPARISON"), Token({"REPEAT"}), Part("BLOCK"), Token({"ENDWHILE"})>>
    BY <1>2, FormCases
  <2>. QED  BY <1>2, <2>1
<1>. QED  BY <1>1, <1>2 DEF Brackets

LEMMA ItemsBlock ==
  ASSUME NEW kw, NEW x, NEW y, Brackets(kw, x, y), NEW s
  PROVE  /\ StatementTodo(kw, 1, s) = Prefixed(kw, AfterKeyword(kw, s))
         /\ StatementTodo(kw, 2, s) = AfterKeyword(kw, s)
         /\ StatementTodo(kw, 3, s) = {Then(x, Then("statements", Then(y, s)))}
         /\ StatementTodo(kw, 4, s) = {Then("statements", Then(y, s))}
         /\ StatementTodo(kw, 5, s) = {Then(y, s)}
         /\ StatementTodo(kw, 6, s) = {s}
         /\ AfterKeyword(kw, s) = {Then("COMPARISON", Then(x, Then("statements", Then(y, s))))}
<1>1. CASE kw = "IF" /\ x = "THEN" /\ y = "ENDIF"
  BY <1>1 DEF StatementTodo, AfterKeyword
<1>2. CASE kw = "WHILE" /\ x = "REPEAT" /\ y = "ENDWHILE"
  BY <1>2 DEF StatementTodo, AfterKeyword
<1>. QED  BY <1>1, <1>2 DEF Brackets

LEMMA ItemsRead ==
  ASSUME NEW kw \in STATEMENT_START_KEYWORDS, NEW s \in Seq(SYMBOL), Calm("STATEMENT", s)
  PROVE  /\ \A at \in 1 .. Len(Form(kw)) :
              ItemOK(Form(kw)[at].expect, Form(kw)[at].call, StatementTodo(kw, at, s), StatementTodo(kw, at + 1, s))
         /\ StatementTodo(kw, Len(Form(kw)) + 1, s) = {s}
<1>1. /\ kw \in TOKEN /\ AfterKeyword(kw, s) \subseteq Seq(SYMBOL) /\ AfterKeyword(kw, s) # {}
  BY TodoSymbols DEF TOKEN
<1>2. ItemOK({kw}, "none", Prefixed(kw, AfterKeyword(kw, s)), AfterKeyword(kw, s))
  BY <1>1, KeywordItem
<1>3. Calm("EXPRESSION", s)
  BY DEF Calm
<1>4. {"IDENT", "EQ", "THEN", "REPEAT", "ENDIF", "ENDWHILE"} \subseteq TOKEN
  BY DEF TOKEN, CONTROL_FLOW_TOKENS
<1>5. CASE kw = "PRINT"
  <2>1. Form(kw) = <<Token({kw}), TokenOr({"STRING"}, "EXPRESSION")>>
    BY <1>5, FormCases
  <2>2. /\ Len(Form(kw)) = 2 /\ Form(kw)[1].expect = {kw} /\ Form(kw)[1].call = "none"
        /\ Form(kw)[2].expect = {"STRING"} /\ Form(kw)[2].call = "EXPRESSION"
    BY <2>1 DEF Token, TokenOr
  <2>3. /\ StatementTodo(kw, 1, s) = Prefixed(kw, AfterKeyword(kw, s))
        /\ StatementTodo(kw, 2, s) = AfterKeyword(kw, s)
        /\ StatementTodo(kw, 3, s) = {s}
        /\ AfterKeyword(kw, s) = {Then("EXPRESSION", s), Then("STRING", s)}
    BY <1>5, ItemsPrint
  <2>4. ItemOK({"STRING"}, "EXPRESSION", StatementTodo(kw, 2, s), StatementTodo(kw, 3, s))
    BY <1>3, <2>3, PrintItem
  <2>5. ItemOK({kw}, "none", StatementTodo(kw, 1, s), StatementTodo(kw, 2, s))
    BY <1>2, <2>3
  <2>6. /\ 1 + 1 = 2 /\ 2 + 1 = 3
        /\ \A at \in 1 .. 2 : at = 1 \/ at = 2
    OBVIOUS
  <2>. QED  BY <2>2, <2>3, <2>4, <2>5, <2>6
<1>6. ASSUME NEW x, NEW y, Brackets(kw, x, y)
      PROVE  /\ \A at \in 1 .. Len(Form(kw)) :
                  ItemOK(Form(kw)[at].expect, Form(kw)[at].call, StatementTodo(kw, at, s), StatementTodo(kw, at + 1, s))
             /\ StatementTodo(kw, Len(Form(kw)) + 1, s) = {s}
  <2>1. Form(kw) = <<Token({kw}), Part("COMPARISON"), Token({x}), Part("BLOCK"), Token({y})>>
    BY <1>6, FormBlock
  <2>2. /\ Len(Form(kw)) = 5 /\ Form(kw)[1].expect = {kw} /\ Form(kw)[1].call = "none"
        /\ Form(kw)[2].expect = {} /\ Form(kw)[2].call = "COMPARISON"
        /\ Form(kw)[3].expect = {x} /\ Form(kw)[3].call = "none"
        /\ Form(kw)[4].expect = {} /\ Form(kw)[4].call = "BLOCK"
        /\ Form(kw)[5].expect = {y} /\ Form(kw)[5].call = "none"
    <3>1. PICK a, b, c, d, e : /\ a = Token({kw}) /\ b = Part("COMPARISON") /\ c = Token({x})
                               /\ d = Part("BLOCK") /\ e = Token({y})
      OBVIOUS
    <3>2. /\ Len(Form(kw)) = 5 /\ Form(kw)[1] = a /\ Form(kw)[2] = b /\ Form(kw)[3] = c
          /\ Form(kw)[4] = d /\ Form(kw)[5] = e
      BY <2>1, <3>1
    <3>. QED  BY <3>1, <3>2 DEF Token, Part
  <2>3. PICK v, b, w : v = Then(y, s) /\ b = Then("statements", v) /\ w = Then(x, b)
    OBVIOUS
  <2>4. /\ StatementTodo(kw, 1, s) = Prefixed(kw, AfterKeyword(kw, s))
        /\ StatementTodo(kw, 2, s) = AfterKeyword(kw, s)
        /\ StatementTodo(kw, 3, s) = {w}
        /\ StatementTodo(kw, 4, s) = {b}
        /\ StatementTodo(kw, 5, s) = {v}
        /\ StatementTodo(kw, 6, s) = {s}
        /\ AfterKeyword(kw, s) = {Then("COMPARISON", w)}
    BY <1>6, <2>3, ItemsBlock
  <2>5. x \in TOKEN /\ x \in {"THEN", "REPEAT"} /\ y \in TOKEN /\ y \in {"ENDIF", "ENDWHILE"}
    BY <1>4, <1>6 DEF Brackets
  <2>6. v \in Seq(SYMBOL)
    BY <2>3, <2>5, ThenSymbols
  <2>7. b \in Seq(SYMBOL)
    BY <2>3, <2>6, ThenSymbols DEF RULES
  <2>8. w \in Seq(SYMBOL)
    BY <2>3, <2>5, <2>7, ThenSymbols
  <2>9. ItemOK({kw}, "none", StatementTodo(kw, 1, s), StatementTodo(kw, 2, s))
    BY <1>2, <2>4
  <2>10. ItemOK({}, "COMPARISON", StatementTodo(kw, 2, s), StatementTodo(kw, 3, s))
    <3>1. Calm("COMPARISON", w)
      BY <2>3, <2>5, <2>7, CalmToken
    <3>. QED  BY <2>4, <2>8, <3>1, PartItem
  <2>11. ItemOK({x}, "none", StatementTodo(kw, 3, s), StatementTodo(kw, 4, s))
    BY <2>3, <2>4, <2>5, <2>7, TokenItem
  <2>12. ItemOK({}, "BLOCK", StatementTodo(kw, 4, s), StatementTodo(kw, 5, s))
    BY <2>3, <2>4, <2>5, BlockItem
  <2>13. ItemOK({y}, "none", StatementTodo(kw, 5, s), StatementTodo(kw, 6, s))
    BY <2>3, <2>4, <2>5, TokenItem
  <2>14. /\ 1 + 1 = 2 /\ 2 + 1 = 3 /\ 3 + 1 = 4 /\ 4 + 1 = 5 /\ 5 + 1 = 6
         /\ \A at \in 1 .. 5 : at = 1 \/ at = 2 \/ at = 3 \/ at = 4 \/ at = 5
    OBVIOUS
  <2>15. StatementTodo(kw, 6, s) = {s}
    BY <2>4
  <2>. QED  BY <2>2, <2>9, <2>10, <2>11, <2>12, <2>13, <2>14, <2>15
<1>7. CASE kw = "IF" \/ kw = "WHILE"
  <2>1. Brackets(kw, "THEN", "ENDIF") \/ Brackets(kw, "REPEAT", "ENDWHILE")
    BY <1>7 DEF Brackets
  <2>. QED  BY <1>6, <2>1
<1>8. CASE kw = "LET"
  <2>1. Form(kw) = <<Token({kw}), Ident, Token({"EQ"}), Part("EXPRESSION")>>
    BY <1>8, FormCases
  <2>2. /\ Len(Form(kw)) = 4 /\ Form(kw)[1].expect = {kw} /\ Form(kw)[1].call = "none"
        /\ Form(kw)[2].expect = {"IDENT"} /\ Form(kw)[2].call = "none"
        /\ Form(kw)[3].expect = {"EQ"} /\ Form(kw)[3].call = "none"
        /\ Form(kw)[4].expect = {} /\ Form(kw)[4].call = "EXPRESSION"
    BY <2>1 DEF Token, Part, Ident
  <2>3. PICK v, b : v = Then("EXPRESSION", s) /\ b = Then("EQ", v)
    OBVIOUS
  <2>4. /\ StatementTodo(kw, 1, s) = Prefixed(kw, AfterKeyword(kw, s))
        /\ StatementTodo(kw, 2, s) = AfterKeyword(kw, s)
        /\ StatementTodo(kw, 3, s) = {b}
        /\ StatementTodo(kw, 4, s) = {v}
        /\ StatementTodo(kw, 5, s) = {s}
        /\ AfterKeyword(kw, s) = {Then("IDENT", b)}
    BY <1>8, <2>3, ItemsLet
  <2>5. v \in Seq(SYMBOL)
    BY <2>3, ThenSymbols DEF RULES
  <2>6. b \in Seq(SYMBOL)
    BY <1>4, <2>3, <2>5, ThenSymbols
  <2>7. ItemOK({kw}, "none", StatementTodo(kw, 1, s), StatementTodo(kw, 2, s))
    BY <1>2, <2>4
  <2>8. ItemOK({"IDENT"}, "none", StatementTodo(kw, 2, s), StatementTodo(kw, 3, s))
    BY <1>4, <2>4, <2>6, TokenItem
  <2>9. ItemOK({"EQ"}, "none", StatementTodo(kw, 3, s), StatementTodo(kw, 4, s))
    BY <1>4, <2>3, <2>4, <2>5, TokenItem
  <2>10. ItemOK({}, "EXPRESSION", StatementTodo(kw, 4, s), StatementTodo(kw, 5, s))
    BY <1>3, <2>3, <2>4, PartItem
  <2>11. /\ 1 + 1 = 2 /\ 2 + 1 = 3 /\ 3 + 1 = 4 /\ 4 + 1 = 5
         /\ \A at \in 1 .. 4 : at = 1 \/ at = 2 \/ at = 3 \/ at = 4
    OBVIOUS
  <2>12. StatementTodo(kw, 5, s) = {s}
    BY <2>4
  <2>. QED  BY <2>2, <2>7, <2>8, <2>9, <2>10, <2>11, <2>12
<1>9. CASE kw \in {"LABEL", "GOTO", "INPUT"}
  <2>1. /\ Form(kw) = <<Token({kw}), Ident>>
        /\ StatementTodo(kw, 1, s) = Prefixed(kw, AfterKeyword(kw, s))
        /\ StatementTodo(kw, 2, s) = AfterKeyword(kw, s)
        /\ StatementTodo(kw, 3, s) = {s} /\ AfterKeyword(kw, s) = {Then("IDENT", s)}
    BY <1>9, ItemsNamed
  <2>2. /\ Len(Form(kw)) = 2 /\ Form(kw)[1].expect = {kw} /\ Form(kw)[1].call = "none"
        /\ Form(kw)[2].expect = {"IDENT"} /\ Form(kw)[2].call = "none"
    BY <2>1 DEF Token, Ident
  <2>3. ItemOK({kw}, "none", StatementTodo(kw, 1, s), StatementTodo(kw, 2, s))
    BY <1>2, <2>1
  <2>4. ItemOK({"IDENT"}, "none", StatementTodo(kw, 2, s), StatementTodo(kw, 3, s))
    BY <1>4, <2>1, TokenItem
  <2>5. /\ 1 + 1 = 2 /\ 2 + 1 = 3
        /\ \A at \in 1 .. 2 : at = 1 \/ at = 2
    OBVIOUS
  <2>. QED  BY <2>1, <2>2, <2>3, <2>4, <2>5
<1>. QED  BY <1>5, <1>7, <1>8, <1>9 DEF STATEMENT_START_KEYWORDS

-----------------------------------------------------------------------------
(***************************************************************************)
(* Functions that follow the links of a tree.                              *)
(***************************************************************************)
\* A function that follows links to greater nodes, until there is none: own
\* are the nodes that stand for a value, the others for what is below them.
Reader(g, N, own, val, first, next) ==
  g = [m \in 0 .. N |->
         IF m = 0 THEN <<>>
         ELSE (IF m \in own THEN <<val[m]>> ELSE g[first[m]]) \o g[next[m]]]

\* What it is to be at the nodes from k on.
ReaderFrom(g, k, N, own, val, first, next) ==
  /\ g = [m \in 0 .. N |-> g[m]]
  /\ g[0] = <<>>
  /\ \A m \in k .. N : g[m] = (IF m \in own THEN <<val[m]>> ELSE g[first[m]]) \o g[next[m]]

LEMMA ReaderExists ==
  ASSUME NEW N \in Nat, NEW own, NEW val, NEW first, NEW next,
         \A m \in 1 .. N : /\ first[m] = 0 \/ first[m] \in m + 1 .. N
                           /\ next[m] = 0 \/ next[m] \in m + 1 .. N
  PROVE  \E g : Reader(g, N, own, val, first, next)
<1>. DEFINE T == {j \in Nat : j <= N /\ ~ \E g : ReaderFrom(g, N + 1 - j, N, own, val, first, next)}
<1>1. T = {}
  <2>. SUFFICES ASSUME T # {} PROVE FALSE
    OBVIOUS
  <2>1. PICK j \in T : \A y \in T : j <= y
    <3>. HIDE DEF T
    <3>1. T \subseteq Nat
      BY DEF T
    <3>. QED  BY <3>1, Least
  <2>2. CASE j = 0
    <3>1. PICK g : g = [m \in 0 .. N |-> <<>>]
      OBVIOUS
    <3>2. g = [m \in 0 .. N |-> g[m]] /\ g[0] = <<>>
      BY <3>1
    <3>3. ReaderFrom(g, N + 1 - j, N, own, val, first, next)
      <4>1. \A m \in N + 1 - j .. N : FALSE
        BY <2>2
      <4>. QED  BY <3>2, <4>1, Zenon DEF ReaderFrom
    <3>. QED  BY <2>1, <3>3
  <2>3. CASE j # 0
    <3>1. j - 1 \in Nat /\ j - 1 <= N /\ j - 1 \notin T /\ j \in 1 .. N
      BY <2>1, <2>3
    <3>2. PICK k : k = N + 1 - j
      OBVIOUS
    <3>3. k \in 1 .. N /\ N + 1 - (j - 1) = k + 1
      BY <3>1, <3>2
    <3>4. PICK g : ReaderFrom(g, k + 1, N, own, val, first, next)
      BY <3>1, <3>3
    <3>5. PICK e : e = (IF k \in own THEN <<val[k]>> ELSE g[first[k]]) \o g[next[k]]
      OBVIOUS
    <3>6. PICK h : h = [m \in 0 .. N |-> IF m = k THEN e ELSE g[m]]
      OBVIOUS
    <3>7. h[k] = e /\ \A m \in 0 .. N : m # k => h[m] = g[m]
      BY <3>3, <3>6
    <3>8. h = [m \in 0 .. N |-> h[m]]
      BY <3>6
    <3>9. h[0] = <<>>
      <4>1. g[0] = <<>>
        BY <3>4, Zenon DEF ReaderFrom
      <4>2. 0 # k /\ 0 \in 0 .. N
        BY <3>3
      <4>. QED  BY <3>7, <4>1, <4>2
    <3>10. ASSUME NEW m \in k .. N
           PROVE  h[m] = (IF m \in own THEN <<val[m]>> ELSE h[first[m]]) \o h[next[m]]
      <4>1. h[first[m]] = g[first[m]] /\ h[next[m]] = g[next[m]]
        BY <3>3, <3>7
      <4>2. CASE m = k
        BY <3>5, <3>7, <4>1, <4>2
      <4>3. CASE m # k
        <5>1. m \in k + 1 .. N /\ m \in 0 .. N
          BY <3>3, <4>3
        <5>2. g[m] = (IF m \in own THEN <<val[m]>> ELSE g[first[m]]) \o g[next[m]]
          BY <3>4, <5>1 DEF ReaderFrom
        <5>. QED  BY <3>7, <4>1, <4>3, <5>1, <5>2
      <4>. QED  BY <4>2, <4>3
    <3>11. ReaderFrom(h, k, N, own, val, first, next)
      BY <3>8, <3>9, <3>10, Zenon DEF ReaderFrom
    <3>. QED  BY <2>1, <3>2, <3>11
  <2>. QED  BY <2>2, <2>3
<1>2. N \notin T
  BY <1>1
<1>3. PICK g : ReaderFrom(g, 1, N, own, val, first, next)
  BY <1>2
<1>4. \A m \in 0 .. N : g[m] = IF m = 0 THEN <<>>
         ELSE (IF m \in own THEN <<val[m]>> ELSE g[first[m]]) \o g[next[m]]
  BY <1>3 DEF ReaderFrom
<1>5. g = [m \in 0 .. N |-> g[m]]
  BY <1>3 DEF ReaderFrom
<1>6. Reader(g, N, own, val, first, next)
  BY <1>4, <1>5, Zenon DEF Reader
<1>. QED  BY <1>6

\* The links of a tree.
LEMMA Links ==
  ASSUME NEW a, IsTree(a)
  PROVE  /\ Len(a) \in Nat /\ Ids(a) = 1 .. Len(a)
         /\ \A m \in 1 .. Len(a) :
              /\ FirstChild(a, m) = 0 \/ FirstChild(a, m) \in m + 1 .. Len(a)
              /\ NextSibling(a, m) = 0 \/ NextSibling(a, m) \in m + 1 .. Len(a)
              /\ NextSibling(a, m) = a[m].next_sibling
              /\ FirstChild(a, m) = 0 <=> (~ IsGrammar(a, m) \/ a[m].last_child = 0)
              /\ IsGrammar(a, m) => FirstChild(a, m) = a[m].first_child
BY DEF IsTree, LinksForward, EndsMeet, FirstChild, NextSibling, IsGrammar, NO_NODE, Ids

\* The children of a node from m on.
Chain(c, a, m) ==
  /\ c \in Seq(Ids(a)) /\ Len(c) > 0 /\ c[1] = m
  /\ \A k \in 1 .. Len(c) - 1 : c[k + 1] = a[c[k]].next_sibling
  /\ a[c[Len(c)]].next_sibling = 0

\* What the function in Children is.
Lister(g, a) ==
  g = [m \in 0 .. Len(a) |-> IF m = NO_NODE THEN <<>> ELSE <<m>> \o g[NextSibling(a, m)]]

LEMMA ListerExists == ASSUME NEW a, IsTree(a) PROVE \E g : Lister(g, a)
<1>1. PICK N : N = Len(a)
  OBVIOUS
<1>2. PICK next : next = [m \in 0 .. N |-> NextSibling(a, m)]
  OBVIOUS
<1>3. PICK val : val = [m \in 0 .. N |-> m]
  OBVIOUS
<1>4. N \in Nat /\ \A m \in 1 .. N : next[m] = 0 \/ next[m] \in m + 1 .. N
  BY <1>1, <1>2, Links
<1>5. PICK g : Reader(g, N, 1 .. N, val, next, next)
  BY <1>4, ReaderExists
<1>6. \A m \in 0 .. N :
        (IF m = 0 THEN <<>> ELSE (IF m \in 1 .. N THEN <<val[m]>> ELSE g[next[m]]) \o g[next[m]])
          = IF m = NO_NODE THEN <<>> ELSE <<m>> \o g[NextSibling(a, m)]
  BY <1>1, <1>2, <1>3, <1>4 DEF NO_NODE
<1>7. g = [m \in 0 .. N |-> IF m = NO_NODE THEN <<>> ELSE <<m>> \o g[NextSibling(a, m)]]
  BY <1>5, <1>6, Zenon DEF Reader
<1>. QED  BY <1>1, <1>7, Zenon DEF Lister

LEMMA ListerChains ==
  ASSUME NEW a, IsTree(a), NEW g, Lister(g, a)
  PROVE  \A m \in 1 .. Len(a) : Chain(g[m], a, m)
<1>1. PICK N : N = Len(a)
  OBVIOUS
<1>2. /\ N \in Nat /\ Ids(a) = 1 .. N
      /\ \A m \in 1 .. N : a[m].next_sibling = 0 \/ a[m].next_sibling \in m + 1 .. N
  BY <1>1, Links
<1>3. g[0] = <<>> /\ \A m \in 1 .. N : g[m] = <<m>> \o g[a[m].next_sibling]
  <2>1. \A m \in 0 .. N : g[m] = IF m = NO_NODE THEN <<>> ELSE <<m>> \o g[NextSibling(a, m)]
    BY <1>1, Zenon DEF Lister
  <2>2. \A m \in 1 .. N : NextSibling(a, m) = a[m].next_sibling
    BY <1>1, Links
  <2>3. g[0] = <<>>
    <3>1. 0 \in 0 .. N
      BY <1>2
    <3>. QED  BY <2>1, <3>1 DEF NO_NODE
  <2>4. ASSUME NEW m \in 1 .. N PROVE g[m] = <<m>> \o g[a[m].next_sibling]
    <3>1. m \in 0 .. N /\ m # 0
      BY <1>2
    <3>2. g[m] = <<m>> \o g[NextSibling(a, m)]
      BY <2>1, <3>1 DEF NO_NODE
    <3>. QED  BY <2>2, <3>2
  <2>. QED  BY <2>3, <2>4
<1>. DEFINE T == {j \in Nat : j < N /\ ~ Chain(g[N - j], a, N - j)}
<1>4. T = {}
  <2>. SUFFICES ASSUME T # {} PROVE FALSE
    OBVIOUS
  <2>1. PICK j \in T : \A y \in T : j <= y
    <3>. HIDE DEF T
    <3>1. T \subseteq Nat
      BY DEF T
    <3>. QED  BY <3>1, Least
  <2>2. PICK m, s : m = N - j /\ s = a[m].next_sibling
    OBVIOUS
  <2>6. j \in Nat /\ j < N /\ ~ Chain(g[m], a, m) /\ \A i \in Nat : i < j => i \notin T
    <3>1. j \in Nat /\ j < N /\ ~ Chain(g[m], a, m)
      BY <2>1, <2>2
    <3>. HIDE DEF T
    <3>. QED  BY <2>1, <3>1
  <2>3. m \in 1 .. N /\ g[m] = <<m>> \o g[s] /\ (s = 0 \/ s \in m + 1 .. N)
    <3>. HIDE DEF T
    <3>1. m \in 1 .. N
      BY <1>2, <2>2, <2>6
    <3>. QED  BY <1>2, <1>3, <2>2, <3>1
  <2>4. CASE s = 0
    <3>1. PICK c : c = g[m]
      OBVIOUS
    <3>2. c = <<m>>
      <4>1. g[s] = <<>>
        BY <1>3, <2>4
      <4>2. <<m>> \o <<>> = <<m>>
        OBVIOUS
      <4>. QED  BY <2>3, <3>1, <4>1, <4>2
    <3>3. c \in Seq(Ids(a)) /\ Len(c) = 1 /\ c[1] = m
      BY <1>2, <2>3, <3>2
    <3>4. Chain(c, a, m)
      <4>1. c[Len(c)] = m
        BY <3>3
      <4>2. a[c[Len(c)]].next_sibling = 0
        BY <2>2, <2>4, <4>1
      <4>3. \A k \in 1 .. Len(c) - 1 : c[k + 1] = a[c[k]].next_sibling
        BY <3>3
      <4>4. Len(c) > 0
        BY <3>3
      <4>. QED  BY <3>3, <4>2, <4>3, <4>4, Zenon DEF Chain
    <3>. QED  BY <2>6, <3>1, <3>4
  <2>5. CASE s # 0
    <3>1. N - s \in Nat /\ N - s < j /\ N - s < N /\ N - (N - s) = s
      BY <1>2, <2>2, <2>3, <2>5, <2>6
    <3>2. Chain(g[s], a, s)
      <4>1. N - s \notin T
        BY <2>6, <3>1
      <4>2. PICK i : i = N - s
        OBVIOUS
      <4>3. i \in Nat /\ i < N /\ i \notin T
        BY <3>1, <4>1, <4>2
      <4>4. Chain(g[N - i], a, N - i)
        BY <4>3
      <4>. QED  BY <3>1, <4>2, <4>4
    <3>3. PICK c, d : c = g[m] /\ d = g[s]
      OBVIOUS
    <3>4. /\ d \in Seq(1 .. N) /\ Len(d) > 0 /\ d[1] = s /\ Len(d) \in Nat
          /\ \A k \in 1 .. Len(d) - 1 : d[k + 1] = a[d[k]].next_sibling
          /\ a[d[Len(d)]].next_sibling = 0
      BY <1>2, <3>2, <3>3 DEF Chain
    <3>5. /\ c \in Seq(1 .. N) /\ Len(c) = Len(d) + 1 /\ c[1] = m
          /\ \A k \in 1 .. Len(d) : c[k + 1] = d[k]
      <4>1. c = <<m>> \o d
        BY <2>3, <3>3
      <4>. QED  BY <2>3, <3>4, <4>1
    <3>6. c[Len(c)] = d[Len(d)] /\ c[2] = s
      BY <3>4, <3>5
    <3>7. ASSUME NEW k \in 1 .. Len(c) - 1 PROVE c[k + 1] = a[c[k]].next_sibling
      <4>1. CASE k = 1
        BY <2>2, <3>5, <3>6, <4>1
      <4>2. CASE k # 1
        <5>1. k - 1 \in 1 .. Len(d) - 1 /\ k \in 1 .. Len(d)
          BY <3>4, <3>5, <4>2
        <5>2. c[k] = d[k - 1] /\ c[k + 1] = d[k]
          BY <3>5, <5>1
        <5>. QED  BY <3>4, <5>1, <5>2
      <4>. QED  BY <4>1, <4>2
    <3>8. Chain(c, a, m)
      BY <1>2, <3>4, <3>5, <3>6, <3>7 DEF Chain
    <3>. QED  BY <2>6, <3>3, <3>8
  <2>. QED  BY <2>4, <2>5
<1>5. ASSUME NEW m \in 1 .. N PROVE Chain(g[m], a, m)
  <2>1. PICK i : i = N - m
    OBVIOUS
  <2>2. i \in Nat /\ i < N /\ N - i = m
    BY <1>2, <2>1
  <2>3. Chain(g[N - i], a, N - i)
    BY <1>4, <2>2
  <2>. QED  BY <2>2, <2>3
<1>. QED  BY <1>1, <1>5

-----------------------------------------------------------------------------
(***************************************************************************)
(* Reading the symbols of nodes: what stands for a node is not unfolded.   *)
(***************************************************************************)
NODE == TOKEN \cup GRAMMAR_TYPE

REPEATED == {"statements", "operator", "terms", "unaries"}

LEMMA NodeAtoms == /\ Atoms(NODE) /\ REPEATED \subseteq SYMBOL \ NODE /\ NODE \subseteq SYMBOL
                   /\ GRAMMAR_TYPE \subseteq NODE /\ TOKEN \subseteq NODE
BY DEF Atoms, NODE, REPEATED, SYMBOL, TOKEN, COMPARISON_OPS, GRAMMAR_TYPE, STATEMENT_START_KEYWORDS,
       CONTROL_FLOW_TOKENS, SIGNS

LEMMA AtomRead ==
  ASSUME NEW F, NEW x \in NODE, NEW s \in Seq(SYMBOL), Then(x, s) \in F
  PROVE  s \in Read(F, x, NODE)
<1>1. Rest(Then(x, s), x, NODE) = {s}
  BY RestAtom, NodeAtoms
<1>2. s \in Rest(Then(x, s), x, NODE)
  BY <1>1
<1>. QED  BY <1>2, ReadOf

LEMMA RuleRead ==
  ASSUME NEW x \in REPEATED, NEW s \in Seq(SYMBOL), NEW rhs \in Productions(x), NEW t, NEW r,
         r \in Rest(rhs \o s, t, NODE), NEW F, Then(x, s) \in F
  PROVE  r \in Read(F, t, NODE)
<1>1. x \in SYMBOL \ NODE
  BY NodeAtoms
<1>2. r \in Rest(Then(x, s), t, NODE)
  BY <1>1, NodeAtoms, RestRule
<1>. QED  BY <1>2, ReadOf

LEMMA MayStop ==
  ASSUME NEW x \in {"statements", "terms", "unaries"}
  PROVE  May(Then(x, <<>>), NODE)
<1>1. PICK e : e = <<>>
  OBVIOUS
<1>2. e \in Seq(SYMBOL) /\ e \in Productions(x) /\ e \o e = e
  BY <1>1, RuleList
<1>3. x \in SYMBOL \ NODE
  BY NodeAtoms DEF REPEATED
<1>4. May(e, NODE)
  BY <1>1, RestNone, NodeAtoms
<1>5. May(e \o e, NODE)
  BY <1>2, <1>4
<1>6. May(Then(x, e), NODE)
  BY <1>2, <1>3, <1>5, NodeAtoms, RestRule
<1>. QED  BY <1>1, <1>6

\* A rule that repeats goes on with one of its parts.
LEMMA ChainRead ==
  ASSUME NEW F, NEW rule \in {"terms", "unaries"}, NEW part, NEW op,
         \/ rule = "terms" /\ part = "TERM" /\ op \in SIGNS
         \/ rule = "unaries" /\ part = "UNARY" /\ op \in {"DIV", "MULT"},
         Then(rule, <<>>) \in F
  PROVE  Then(part, Then(rule, <<>>)) \in Read(F, op, NODE)
<1>1. PICK e, rhs, r : e = <<>> /\ rhs = <<op, part, rule>> /\ r = Then(part, Then(rule, e))
  OBVIOUS
<1>2. /\ op \in NODE /\ part \in SYMBOL /\ rule \in SYMBOL /\ rule \in REPEATED /\ op \in SYMBOL
      /\ e \in Seq(SYMBOL)
  BY <1>1, NodeAtoms DEF SIGNS, NODE, TOKEN, SYMBOL, GRAMMAR_TYPE, REPEATED
<1>3. rhs \in Productions(rule)
  BY <1>1, RuleList DEF SIGNS
<1>4. rhs \o e = Then(op, r)
  <2>1. op \in SYMBOL /\ part \in SYMBOL /\ rule \in SYMBOL
    BY <1>2
  <2>2. PICK s \in Seq(SYMBOL) : s = e
    BY <1>2
  <2>3. <<op, part, rule>> \o s = Then(op, Then(part, Then(rule, s)))
    BY <2>1, FormThree
  <2>. QED  BY <1>1, <2>2, <2>3, Zenon
<1>5. r \in Seq(SYMBOL)
  BY <1>1, <1>2, ThenForm
<1>6. r \in Rest(rhs \o e, op, NODE)
  BY <1>2, <1>4, <1>5, RestAtom, NodeAtoms
<1>7. r \in Read(F, op, NODE)
  BY <1>1, <1>2, <1>3, <1>6, RuleRead
<1>. QED  BY <1>1, <1>7

LEMMA OperatorRead ==
  ASSUME NEW F, NEW s \in Seq(SYMBOL), NEW op \in COMPARISON_OPS, Then("operator", s) \in F
  PROVE  s \in Read(F, op, NODE)
<1>1. PICK rhs : rhs = <<op>>
  OBVIOUS
<1>2. op \in NODE /\ op \in SYMBOL /\ "operator" \in REPEATED /\ rhs \in Productions("operator")
  BY <1>1, RuleList DEF COMPARISON_OPS, NODE, TOKEN, SYMBOL, REPEATED
<1>3. rhs \o s = Then(op, s)
  BY <1>1 DEF Then
<1>4. s \in Rest(rhs \o s, op, NODE)
  BY <1>2, <1>3, RestAtom, NodeAtoms
<1>. QED  BY <1>2, <1>4, RuleRead

LEMMA StatementsRead ==
  ASSUME NEW F, NEW s \in Seq(SYMBOL), NEW p, p = Then("statements", s), p \in F
  PROVE  /\ p \in Read(F, "STATEMENT", NODE)
         /\ \A x \in NODE : \A v \in Seq(SYMBOL) : s = Then(x, v) => v \in Read(F, x, NODE)
<1>1. /\ "statements" \in REPEATED /\ "statements" \in SYMBOL /\ "STATEMENT" \in NODE
      /\ "STATEMENT" \in SYMBOL
  BY DEF REPEATED, NODE, SYMBOL, GRAMMAR_TYPE
<1>2. p \in Read(F, "STATEMENT", NODE)
  <2>1. PICK rhs : rhs = <<"STATEMENT", "statements">>
    OBVIOUS
  <2>2. rhs \in Productions("statements")
    BY <2>1, RuleList
  <2>3. rhs \o s = Then("STATEMENT", p)
    BY <1>1, <2>1, FormTwo
  <2>4. p \in Seq(SYMBOL)
    BY <1>1, ThenForm
  <2>5. p \in Rest(rhs \o s, "STATEMENT", NODE)
    BY <1>1, <2>3, <2>4, RestAtom, NodeAtoms
  <2>. QED  BY <1>1, <2>2, <2>5, RuleRead
<1>3. ASSUME NEW x \in NODE, NEW v \in Seq(SYMBOL), s = Then(x, v) PROVE v \in Read(F, x, NODE)
  <2>1. PICK rhs : rhs = <<>>
    OBVIOUS
  <2>2. rhs \in Productions("statements") /\ rhs \o s = s
    BY <2>1, RuleList
  <2>3. v \in Rest(s, x, NODE)
    BY <1>3, RestAtom, NodeAtoms
  <2>4. v \in Rest(rhs \o s, x, NODE)
    BY <2>2, <2>3
  <2>. QED  BY <1>1, <2>2, <2>4, RuleRead
<1>. QED  BY <1>2, <1>3

-----------------------------------------------------------------------------
(***************************************************************************)
(* What is left of a rule after the child at a place of it.                *)
(***************************************************************************)
Remaining(fn, kw, at) ==
  CASE fn = "PROGRAM" -> {Then("statements", <<>>)}
    [] fn = "STATEMENT" ->
         IF at = 1 THEN AfterKeyword(kw, <<>>)
         ELSE StatementTodo(kw, IF at = 4 /\ kw \in {"IF", "WHILE"} THEN 4 ELSE at + 1, <<>>)
    [] fn = "COMPARISON" /\ at = 1 -> {Then("operator", Then("EXPRESSION", <<>>))}
    [] fn = "COMPARISON" /\ at = 2 -> {Then("EXPRESSION", <<>>)}
    [] fn = "EXPRESSION" /\ at = 1 -> {Then("terms", <<>>)}
    [] fn = "EXPRESSION" /\ at = 2 -> {Then("TERM", Then("terms", <<>>))}
    [] fn = "TERM" /\ at = 1 -> {Then("unaries", <<>>)}
    [] fn = "TERM" /\ at = 2 -> {Then("UNARY", Then("unaries", <<>>))}
    [] fn = "UNARY" /\ at = 1 -> {Then("PRIMARY", <<>>)}
    [] OTHER -> {<<>>}

LEMMA RemainingCases ==
  ASSUME NEW kw, NEW e, e = <<>>
  PROVE  /\ \A at : Remaining("PROGRAM", kw, at) = {Then("statements", e)}
         /\ Remaining("COMPARISON", kw, 1) = {Then("operator", Then("EXPRESSION", e))}
         /\ Remaining("COMPARISON", kw, 2) = {Then("EXPRESSION", e)}
         /\ Remaining("COMPARISON", kw, 3) = {e}
         /\ Remaining("EXPRESSION", kw, 1) = {Then("terms", e)}
         /\ Remaining("EXPRESSION", kw, 2) = {Then("TERM", Then("terms", e))}
         /\ Remaining("TERM", kw, 1) = {Then("unaries", e)}
         /\ Remaining("TERM", kw, 2) = {Then("UNARY", Then("unaries", e))}
         /\ Remaining("UNARY", kw, 1) = {Then("PRIMARY", e)}
         /\ Remaining("UNARY", kw, 2) = {e}
         /\ Remaining("PRIMARY", kw, 1) = {e}
BY DEF Remaining

LEMMA RemainingStatement ==
  ASSUME NEW kw, NEW e, e = <<>>
  PROVE  /\ Remaining("STATEMENT", kw, 1) = AfterKeyword(kw, e)
         /\ kw = "PRINT" => Remaining("STATEMENT", kw, 2) = {e}
         /\ kw = "IF" => /\ Remaining("STATEMENT", kw, 2) = {Then("THEN", Then("statements", Then("ENDIF", e)))}
                         /\ Remaining("STATEMENT", kw, 3) = {Then("statements", Then("ENDIF", e))}
                         /\ Remaining("STATEMENT", kw, 4) = {Then("statements", Then("ENDIF", e))}
                         /\ Remaining("STATEMENT", kw, 5) = {e}
         /\ kw = "WHILE" => /\ Remaining("STATEMENT", kw, 2) = {Then("REPEAT", Then("statements", Then("ENDWHILE", e)))}
                            /\ Remaining("STATEMENT", kw, 3) = {Then("statements", Then("ENDWHILE", e))}
                            /\ Remaining("STATEMENT", kw, 4) = {Then("statements", Then("ENDWHILE", e))}
                            /\ Remaining("STATEMENT", kw, 5) = {e}
         /\ kw = "LET" => /\ Remaining("STATEMENT", kw, 2) = {Then("EQ", Then("EXPRESSION", e))}
                          /\ Remaining("STATEMENT", kw, 3) = {Then("EXPRESSION", e)}
                          /\ Remaining("STATEMENT", kw, 4) = {e}
         /\ kw \in {"LABEL", "GOTO", "INPUT"} => Remaining("STATEMENT", kw, 2) = {e}
<1>1. Remaining("STATEMENT", kw, 1) = AfterKeyword(kw, e)
  BY DEF Remaining
<1>2. kw = "PRINT" => Remaining("STATEMENT", kw, 2) = {e}
  BY DEF Remaining, StatementTodo
<1>3. kw = "IF" => /\ Remaining("STATEMENT", kw, 2) = {Then("THEN", Then("statements", Then("ENDIF", e)))}
                   /\ Remaining("STATEMENT", kw, 3) = {Then("statements", Then("ENDIF", e))}
                   /\ Remaining("STATEMENT", kw, 4) = {Then("statements", Then("ENDIF", e))}
                   /\ Remaining("STATEMENT", kw, 5) = {e}
  BY DEF Remaining, StatementTodo
<1>4. kw = "WHILE" => /\ Remaining("STATEMENT", kw, 2) = {Then("REPEAT", Then("statements", Then("ENDWHILE", e)))}
                      /\ Remaining("STATEMENT", kw, 3) = {Then("statements", Then("ENDWHILE", e))}
                      /\ Remaining("STATEMENT", kw, 4) = {Then("statements", Then("ENDWHILE", e))}
                      /\ Remaining("STATEMENT", kw, 5) = {e}
  BY DEF Remaining, StatementTodo
<1>5. kw = "LET" => /\ Remaining("STATEMENT", kw, 2) = {Then("EQ", Then("EXPRESSION", e))}
                    /\ Remaining("STATEMENT", kw, 3) = {Then("EXPRESSION", e)}
                    /\ Remaining("STATEMENT", kw, 4) = {e}
  BY DEF Remaining, StatementTodo
<1>6. kw \in {"LABEL", "GOTO", "INPUT"} => Remaining("STATEMENT", kw, 2) = {e}
  BY DEF Remaining, StatementTodo
<1>. QED  BY <1>1, <1>2, <1>3, <1>4, <1>5, <1>6

\* The places of a statement.
LEMMA StatementPlaces ==
  ASSUME NEW kw \in STATEMENT_START_KEYWORDS, NEW at, NEW x, Fits("STATEMENT", kw, at, x)
  PROVE  \/ at = 1 /\ x = kw
         \/ kw = "PRINT" /\ at = 2 /\ x \in {"STRING", "EXPRESSION"}
         \/ /\ kw = "IF"
            /\ \/ at = 2 /\ x = "COMPARISON"
               \/ at = 3 /\ x = "THEN"
               \/ at = 4 /\ x = "STATEMENT"
               \/ at = 5 /\ x = "ENDIF"
         \/ /\ kw = "WHILE"
            /\ \/ at = 2 /\ x = "COMPARISON"
               \/ at = 3 /\ x = "REPEAT"
               \/ at = 4 /\ x = "STATEMENT"
               \/ at = 5 /\ x = "ENDWHILE"
         \/ /\ kw = "LET"
            /\ \/ at = 2 /\ x = "IDENT"
               \/ at = 3 /\ x = "EQ"
               \/ at = 4 /\ x = "EXPRESSION"
         \/ kw \in {"LABEL", "GOTO", "INPUT"} /\ at = 2 /\ x = "IDENT"
<1>1. /\ at \in 1 .. Len(Form(kw))
      /\ \/ x \in Form(kw)[at].expect
         \/ x \in {"COMPARISON", "EXPRESSION"} /\ x = Form(kw)[at].call
         \/ x = "STATEMENT" /\ Form(kw)[at].call = "BLOCK"
  BY DEF Fits
<1>2. PICK form : form = Form(kw)
  OBVIOUS
<1>3. CASE kw = "PRINT"
  <2>1. form = <<Token({"PRINT"}), TokenOr({"STRING"}, "EXPRESSION")>>
    BY <1>2, <1>3, FormCases
  <2>2. at \in {1, 2}
    BY <1>1, <1>2, <2>1
  <2>. QED  BY <1>1, <1>2, <1>3, <2>1, <2>2 DEF Token, TokenOr
<1>4. CASE kw = "IF"
  <2>1. form = <<Token({"IF"}), Part("COMPARISON"), Token({"THEN"}), Part("BLOCK"), Token({"ENDIF"})>>
    BY <1>2, <1>4, FormCases
  <2>2. at \in {1, 2, 3, 4, 5}
    BY <1>1, <1>2, <2>1
  <2>. QED  BY <1>1, <1>2, <1>4, <2>1, <2>2 DEF Token, Part
<1>5. CASE kw = "WHILE"
  <2>1. form = <<Token({"WHILE"}), Part("COMPARISON"), Token({"REPEAT"}), Part("BLOCK"), Token({"ENDWHILE"})>>
    BY <1>2, <1>5, FormCases
  <2>2. at \in {1, 2, 3, 4, 5}
    BY <1>1, <1>2, <2>1
  <2>. QED  BY <1>1, <1>2, <1>5, <2>1, <2>2 DEF Token, Part
<1>6. CASE kw = "LET"
  <2>1. form = <<Token({"LET"}), Ident, Token({"EQ"}), Part("EXPRESSION")>>
    BY <1>2, <1>6, FormCases
  <2>2. at \in {1, 2, 3, 4}
    BY <1>1, <1>2, <2>1
  <2>. QED  BY <1>1, <1>2, <1>6, <2>1, <2>2 DEF Token, Part, Ident
<1>7. CASE kw \in {"LABEL", "GOTO", "INPUT"}
  <2>1. form = <<Token({kw}), Ident>>
    BY <1>2, <1>7, FormCases
  <2>2. at \in {1, 2}
    BY <1>1, <1>2, <2>1
  <2>. QED  BY <1>1, <1>2, <1>7, <2>1, <2>2 DEF Token, Ident
<1>. QED  BY <1>3, <1>4, <1>5, <1>6, <1>7 DEF STATEMENT_START_KEYWORDS

\* The productions as forms with their first symbol in front.
LEMMA StatementForms ==
  ASSUME NEW kw \in STATEMENT_START_KEYWORDS, NEW e \in Seq(SYMBOL), Len(e) = 0
  PROVE  \A f \in AfterKeyword(kw, e) : Then(kw, f) \in Productions("STATEMENT")
<1>11. e = <<>>
  OBVIOUS
<1>1. /\ e \in Seq(SYMBOL) /\ STATEMENT_START_KEYWORDS \subseteq SYMBOL
      /\ {"EXPRESSION", "STRING", "COMPARISON", "THEN", "REPEAT", "statements", "ENDIF", "ENDWHILE",
          "IDENT", "EQ"} \subseteq SYMBOL
  BY SymbolList DEF RULES, STATEMENT_START_KEYWORDS
<1>2. /\ <<"PRINT", "EXPRESSION">> \in Productions("STATEMENT")
      /\ <<"PRINT", "STRING">> \in Productions("STATEMENT")
      /\ <<"IF", "COMPARISON", "THEN", "statements", "ENDIF">> \in Productions("STATEMENT")
      /\ <<"WHILE", "COMPARISON", "REPEAT", "statements", "ENDWHILE">> \in Productions("STATEMENT")
      /\ <<"LABEL", "IDENT">> \in Productions("STATEMENT")
      /\ <<"GOTO", "IDENT">> \in Productions("STATEMENT")
      /\ <<"LET", "IDENT", "EQ", "EXPRESSION">> \in Productions("STATEMENT")
      /\ <<"INPUT", "IDENT">> \in Productions("STATEMENT")
  BY RuleList
<1>3. ASSUME NEW x \in SYMBOL, NEW y \in SYMBOL PROVE <<x, y>> = Then(x, Then(y, e))
  <2>1. <<x, y>> \o e = Then(x, Then(y, e))
    BY <1>1, FormTwo, Zenon
  <2>2. <<x, y>> \o e = <<x, y>>
    BY <1>11
  <2>. QED  BY <2>1, <2>2, Zenon
<1>4. ASSUME NEW x \in SYMBOL, NEW y \in SYMBOL, NEW z \in SYMBOL, NEW u \in SYMBOL
      PROVE  <<x, y, z, u>> = Then(x, Then(y, Then(z, Then(u, e))))
  <2>3. PICK s \in Seq(SYMBOL) : s = e
    OBVIOUS
  <2>4. <<x, y, z, u>> \o s = Then(x, Then(y, Then(z, Then(u, s))))
    BY FormFour
  <2>1. <<x, y, z, u>> \o e = Then(x, Then(y, Then(z, Then(u, e))))
    BY <2>3, <2>4, Zenon
  <2>2. <<x, y, z, u>> \o e = <<x, y, z, u>>
    BY <1>11
  <2>. QED  BY <2>1, <2>2, Zenon
<1>5. ASSUME NEW x \in SYMBOL, NEW y \in SYMBOL, NEW z \in SYMBOL, NEW u \in SYMBOL, NEW v \in SYMBOL
      PROVE  <<x, y, z, u, v>> = Then(x, Then(y, Then(z, Then(u, Then(v, e)))))
  <2>3. PICK s \in Seq(SYMBOL) : s = e
    OBVIOUS
  <2>4. <<x, y, z, u, v>> \o s = Then(x, Then(y, Then(z, Then(u, Then(v, s)))))
    BY FormFive
  <2>1. <<x, y, z, u, v>> \o e = Then(x, Then(y, Then(z, Then(u, Then(v, e)))))
    BY <2>3, <2>4, Zenon
  <2>2. <<x, y, z, u, v>> \o e = <<x, y, z, u, v>>
    BY <1>11
  <2>. QED  BY <2>1, <2>2, Zenon
<1>6. CASE kw = "PRINT"
  <2>1. AfterKeyword(kw, e) = {Then("EXPRESSION", e), Then("STRING", e)}
    BY <1>6 DEF AfterKeyword
  <2>2. /\ <<"PRINT", "EXPRESSION">> = Then("PRINT", Then("EXPRESSION", e))
        /\ <<"PRINT", "STRING">> = Then("PRINT", Then("STRING", e))
    <3>1. "PRINT" \in SYMBOL /\ "EXPRESSION" \in SYMBOL /\ "STRING" \in SYMBOL
      BY <1>1 DEF STATEMENT_START_KEYWORDS
    <3>. QED  BY <1>3, <3>1, Zenon
  <2>3. /\ Then("PRINT", Then("EXPRESSION", e)) \in Productions("STATEMENT")
        /\ Then("PRINT", Then("STRING", e)) \in Productions("STATEMENT")
    BY <1>2, <2>2, Zenon
  <2>. QED  BY <1>6, <2>1, <2>3
<1>7. CASE kw = "IF"
  <2>1. AfterKeyword(kw, e) = {Then("COMPARISON", Then("THEN", Then("statements", Then("ENDIF", e))))}
    BY <1>7 DEF AfterKeyword
  <2>2. <<"IF", "COMPARISON", "THEN", "statements", "ENDIF">>
           = Then("IF", Then("COMPARISON", Then("THEN", Then("statements", Then("ENDIF", e)))))
    <3>1. "IF" \in SYMBOL /\ "COMPARISON" \in SYMBOL /\ "THEN" \in SYMBOL /\ "statements" \in SYMBOL /\ "ENDIF" \in SYMBOL
      BY <1>1 DEF STATEMENT_START_KEYWORDS
    <3>. QED  BY <1>5, <3>1
  <2>3. Then("IF", Then("COMPARISON", Then("THEN", Then("statements", Then("ENDIF", e)))))
          \in Productions("STATEMENT")
    BY <1>2, <2>2, Zenon
  <2>. QED  BY <1>7, <2>1, <2>3
<1>8. CASE kw = "WHILE"
  <2>1. AfterKeyword(kw, e) = {Then("COMPARISON", Then("REPEAT", Then("statements", Then("ENDWHILE", e))))}
    BY <1>8 DEF AfterKeyword
  <2>2. <<"WHILE", "COMPARISON", "REPEAT", "statements", "ENDWHILE">>
           = Then("WHILE", Then("COMPARISON", Then("REPEAT", Then("statements", Then("ENDWHILE", e)))))
    <3>1. "WHILE" \in SYMBOL /\ "COMPARISON" \in SYMBOL /\ "REPEAT" \in SYMBOL /\ "statements" \in SYMBOL /\ "ENDWHILE" \in SYMBOL
      BY <1>1 DEF STATEMENT_START_KEYWORDS
    <3>. QED  BY <1>5, <3>1
  <2>3. Then("WHILE", Then("COMPARISON", Then("REPEAT", Then("statements", Then("ENDWHILE", e)))))
          \in Productions("STATEMENT")
    BY <1>2, <2>2, Zenon
  <2>. QED  BY <1>8, <2>1, <2>3
<1>9. CASE kw = "LET"
  <2>1. AfterKeyword(kw, e) = {Then("IDENT", Then("EQ", Then("EXPRESSION", e)))}
    BY <1>9 DEF AfterKeyword
  <2>2. <<"LET", "IDENT", "EQ", "EXPRESSION">>
           = Then("LET", Then("IDENT", Then("EQ", Then("EXPRESSION", e))))
    <3>1. "LET" \in SYMBOL /\ "IDENT" \in SYMBOL /\ "EQ" \in SYMBOL /\ "EXPRESSION" \in SYMBOL
      BY <1>1 DEF STATEMENT_START_KEYWORDS
    <3>. QED  BY <1>4, <3>1
  <2>3. Then("LET", Then("IDENT", Then("EQ", Then("EXPRESSION", e))))
          \in Productions("STATEMENT")
    BY <1>2, <2>2, Zenon
  <2>. QED  BY <1>9, <2>1, <2>3
<1>10. CASE kw \in {"LABEL", "GOTO", "INPUT"}
  <2>1. AfterKeyword(kw, e) = {Then("IDENT", e)}
    BY <1>10 DEF AfterKeyword
  <2>2. <<kw, "IDENT">> = Then(kw, Then("IDENT", e))
    <3>1. kw \in SYMBOL /\ "IDENT" \in SYMBOL
      BY <1>1
    <3>. QED  BY <1>3, <3>1, Zenon
  <2>3. <<kw, "IDENT">> \in Productions("STATEMENT")
    BY <1>2, <1>10
  <2>4. Then(kw, Then("IDENT", e)) \in Productions("STATEMENT")
    BY <2>2, <2>3, Zenon
  <2>. QED  BY <2>1, <2>4
<1>. QED  BY <1>6, <1>7, <1>8, <1>9, <1>10 DEF STATEMENT_START_KEYWORDS

LEMMA ShortForms ==
  ASSUME NEW e \in Seq(SYMBOL), Len(e) = 0
  PROVE  \A x, y, z \in SYMBOL : /\ <<x>> = Then(x, e)
                                 /\ <<x, y>> = Then(x, Then(y, e))
                                 /\ <<x, y, z>> = Then(x, Then(y, Then(z, e)))
<1>. TAKE x, y, z \in SYMBOL
<1>1. e = <<>>
  OBVIOUS
<1>2. <<x>> = Then(x, e)
  BY <1>1 DEF Then
<1>3. PICK s \in Seq(SYMBOL) : s = e
  OBVIOUS
<1>4. <<x, y>> \o s = Then(x, Then(y, s)) /\ <<x, y, z>> \o s = Then(x, Then(y, Then(z, s)))
  BY FormTwo, FormThree
<1>5. <<x, y>> \o e = <<x, y>> /\ <<x, y, z>> \o e = <<x, y, z>>
  BY <1>1
<1>6. <<x, y>> = Then(x, Then(y, e)) /\ <<x, y, z>> = Then(x, Then(y, Then(z, e)))
  BY <1>3, <1>4, <1>5, Zenon
<1>. QED  BY <1>2, <1>6

LEMMA KeywordForms ==
  ASSUME NEW kw, NEW e \in Seq(SYMBOL)
  PROVE  AfterKeyword(kw, e) \subseteq Seq(SYMBOL)
<1>1. {"EXPRESSION", "STRING", "COMPARISON", "THEN", "REPEAT", "statements", "ENDIF", "ENDWHILE",
       "IDENT", "EQ"} \subseteq TOKEN \cup RULES
  BY SymbolList DEF RULES
<1>2. \A x \in TOKEN \cup RULES : \A s \in Seq(SYMBOL) : Then(x, s) \in Seq(SYMBOL)
  BY ThenSymbols
<1>3. /\ Then("EXPRESSION", e) \in Seq(SYMBOL) /\ Then("STRING", e) \in Seq(SYMBOL)
      /\ Then("IDENT", e) \in Seq(SYMBOL)
  BY <1>1, <1>2
<1>4. Then("COMPARISON", Then("THEN", Then("statements", Then("ENDIF", e)))) \in Seq(SYMBOL)
  BY <1>1, <1>2
<1>5. Then("COMPARISON", Then("REPEAT", Then("statements", Then("ENDWHILE", e)))) \in Seq(SYMBOL)
  BY <1>1, <1>2
<1>6. Then("IDENT", Then("EQ", Then("EXPRESSION", e))) \in Seq(SYMBOL)
  BY <1>1, <1>2
<1>. QED  BY <1>3, <1>4, <1>5, <1>6 DEF AfterKeyword

LEMMA FormLengths ==
  ASSUME NEW kw
  PROVE  Len(Form(kw)) = IF kw \in {"IF", "WHILE"} THEN 5 ELSE IF kw = "LET" THEN 4 ELSE 2
<1>1. PICK form : form = Form(kw)
  OBVIOUS
<1>2. CASE kw = "PRINT"
  <2>1. form = <<Token({"PRINT"}), TokenOr({"STRING"}, "EXPRESSION")>>
    BY <1>1, <1>2, FormCases
  <2>. QED  BY <1>1, <1>2, <2>1
<1>3. CASE kw = "IF"
  <2>1. form = <<Token({"IF"}), Part("COMPARISON"), Token({"THEN"}), Part("BLOCK"), Token({"ENDIF"})>>
    BY <1>1, <1>3, FormCases
  <2>. QED  BY <1>1, <1>3, <2>1
<1>4. CASE kw = "WHILE"
  <2>1. form = <<Token({"WHILE"}), Part("COMPARISON"), Token({"REPEAT"}), Part("BLOCK"), Token({"ENDWHILE"})>>
    BY <1>1, <1>4, FormCases
  <2>. QED  BY <1>1, <1>4, <2>1
<1>5. CASE kw = "LET"
  <2>1. form = <<Token({"LET"}), Ident, Token({"EQ"}), Part("EXPRESSION")>>
    BY <1>1, <1>5, FormCases
  <2>. QED  BY <1>1, <1>5, <2>1
<1>6. CASE kw \notin {"PRINT", "IF", "WHILE", "LET"}
  <2>1. form = <<Token({kw}), Ident>>
    BY <1>1, <1>6, FormCases
  <2>. QED  BY <1>1, <1>6, <2>1
<1>. QED  BY <1>2, <1>3, <1>4, <1>5, <1>6

\* A program may be empty.
LEMMA NoStatements == MayEnd(Productions("PROGRAM"), NODE)
<1>1. PICK e \in Seq(SYMBOL) : e = <<>>
  <2>1. <<>> \in Seq(SYMBOL)
    OBVIOUS
  <2>. QED  BY <2>1
<1>2. Len(e) = 0 /\ "statements" \in SYMBOL
  BY <1>1 DEF SYMBOL
<1>3. Then("statements", e) \in Productions("PROGRAM")
  BY <1>2, ShortForms, RuleList
<1>4. May(Then("statements", e), NODE)
  BY <1>1, MayStop
<1>. QED  BY <1>3, <1>4, ReadOf

-----------------------------------------------------------------------------
(***************************************************************************)
(* Pieces of the input.                                                    *)
(***************************************************************************)
\* A piece of the input, and where the piece ends that the nodes from m to
\* its last sibling stand for.
Piece(i, j) == [p \in 1 .. j - i + 1 |-> i + p - 1]

LEMMA PieceJoin ==
  ASSUME NEW i \in Nat, NEW j \in Nat, NEW k \in Nat, i <= j, j <= k
  PROVE  Piece(i, j) \o Piece(j + 1, k) = Piece(i, k)
<1>1. PICK f, g, h, s : /\ f = Piece(i, j) /\ g = Piece(j + 1, k) /\ h = Piece(i, k) /\ s = f \o g
  OBVIOUS
<1>2. f = [p \in 1 .. j - i + 1 |-> i + p - 1]
  BY <1>1 DEF Piece
<1>3. g = [p \in 1 .. k - (j + 1) + 1 |-> (j + 1) + p - 1]
  BY <1>1 DEF Piece
<1>4. h = [p \in 1 .. k - i + 1 |-> i + p - 1]
  BY <1>1 DEF Piece
<1>5. f \in Seq(Nat) /\ Len(f) = j - i + 1 /\ \A p \in 1 .. j - i + 1 : f[p] = i + p - 1
  BY <1>2
<1>6. g \in Seq(Nat) /\ Len(g) = k - j /\ \A p \in 1 .. k - j : g[p] = j + p
  BY <1>3
<1>7. h \in Seq(Nat) /\ Len(h) = k - i + 1 /\ \A p \in 1 .. k - i + 1 : h[p] = i + p - 1
  BY <1>4
<1>8. /\ s \in Seq(Nat) /\ Len(s) = Len(f) + Len(g)
      /\ \A p \in 1 .. Len(f) : s[p] = f[p]
      /\ \A p \in 1 .. Len(g) : s[Len(f) + p] = g[p]
  <2>1. f \in Seq(Nat) /\ g \in Seq(Nat)
    BY <1>5, <1>6
  <2>2. s = f \o g
    BY <1>1
  <2>. QED  BY <2>1, <2>2
<1>9. Len(s) = Len(h)
  BY <1>5, <1>6, <1>7, <1>8
<1>10. ASSUME NEW p \in 1 .. Len(h) PROVE s[p] = h[p]
  <2>1. CASE p <= j - i + 1
    BY <1>5, <1>7, <1>8, <2>1
  <2>2. CASE p > j - i + 1
    <3>1. PICK r : r = p - (j - i + 1)
      OBVIOUS
    <3>2. r \in 1 .. k - j /\ p = Len(f) + r
      BY <1>5, <1>7, <2>2, <3>1
    <3>3. s[p] = g[r]
      BY <1>6, <1>8, <3>2
    <3>. QED  BY <1>5, <1>6, <1>7, <3>2, <3>3
  <2>. QED  BY <1>7, <2>1, <2>2
<1>11. s = h
  BY <1>7, <1>8, <1>9, <1>10, SeqEqual
<1>. QED  BY <1>1, <1>11

\* What the function in Frontier is.
Walker(g, a) ==
  g = [m \in 0 .. Len(a) |->
         IF m = NO_NODE THEN <<>>
         ELSE (IF IsToken(a, m) THEN <<a[m].value>> ELSE g[FirstChild(a, m)]) \o g[NextSibling(a, m)]]

LEMMA WalkerExists == ASSUME NEW a, IsTree(a) PROVE \E g : Walker(g, a)
<1>1. PICK N : N = Len(a)
  OBVIOUS
<1>2. PICK first, next : /\ first = [m \in 0 .. N |-> FirstChild(a, m)]
                         /\ next = [m \in 0 .. N |-> NextSibling(a, m)]
  OBVIOUS
<1>3. PICK val, own : val = [m \in 0 .. N |-> a[m].value] /\ own = {m \in 1 .. N : IsToken(a, m)}
  OBVIOUS
<1>4. /\ N \in Nat
      /\ \A m \in 1 .. N : /\ first[m] = 0 \/ first[m] \in m + 1 .. N
                           /\ next[m] = 0 \/ next[m] \in m + 1 .. N
  BY <1>1, <1>2, Links
<1>5. PICK g : Reader(g, N, own, val, first, next)
  BY <1>4, ReaderExists
<1>6. ASSUME NEW m \in 0 .. N
      PROVE  (IF m = 0 THEN <<>> ELSE (IF m \in own THEN <<val[m]>> ELSE g[first[m]]) \o g[next[m]])
               = IF m = NO_NODE THEN <<>>
                 ELSE (IF IsToken(a, m) THEN <<a[m].value>> ELSE g[FirstChild(a, m)]) \o g[NextSibling(a, m)]
  <2>1. CASE m = 0
    BY <2>1 DEF NO_NODE
  <2>2. CASE m # 0
    <3>1. /\ m \in own <=> IsToken(a, m)
          /\ val[m] = a[m].value /\ first[m] = FirstChild(a, m) /\ next[m] = NextSibling(a, m)
      BY <1>2, <1>3, <1>4, <2>2
    <3>. QED  BY <2>2, <3>1 DEF NO_NODE
  <2>. QED  BY <2>1, <2>2
<1>7. g = [m \in 0 .. N |->
             IF m = NO_NODE THEN <<>>
             ELSE (IF IsToken(a, m) THEN <<a[m].value>> ELSE g[FirstChild(a, m)]) \o g[NextSibling(a, m)]]
  BY <1>5, <1>6, Zenon DEF Reader
<1>. QED  BY <1>1, <1>7, Zenon DEF Walker
=============================================================================
