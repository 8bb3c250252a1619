------------------------------- MODULE Grammar -------------------------------
(***************************************************************************)
(* The grammar of the language as parser.h gives it, and what it asks of   *)
(* the parser.  It has no newlines: the lexer makes no token of them, so   *)
(* the parser cannot see the nl that ends a statement there.               *)
(*                                                                         *)
(* A form is a sequence of symbols that is still to be read.  It is read   *)
(* token by token, from the left; a symbol that is not an atom is replaced *)
(* by each of its productions first.                                       *)
(***************************************************************************)
EXTENDS Parser

Productions(symbol) ==
  CASE symbol = "PROGRAM" -> {<<"statements">>}
    [] symbol = "statements" -> {<<>>, <<"STATEMENT", "statements">>}
    [] symbol = "STATEMENT" ->
         {<<"PRINT", "EXPRESSION">>, <<"PRINT", "STRING">>,
          <<"IF", "COMPARISON", "THEN", "statements", "ENDIF">>,
          <<"WHILE", "COMPARISON", "REPEAT", "statements", "ENDWHILE">>,
          <<"LABEL", "IDENT">>, <<"GOTO", "IDENT">>,
          <<"LET", "IDENT", "EQ", "EXPRESSION">>, <<"INPUT", "IDENT">>}
    [] symbol = "COMPARISON" -> {<<"EXPRESSION", "operator", "EXPRESSION">>}
    [] symbol = "operator" -> {<<op>> : op \in {"EQEQ", "NOTEQ", "GT", "GTE", "LT", "LTE"}}
    [] symbol = "EXPRESSION" -> {<<"TERM", "terms">>}
    [] symbol = "terms" -> {<<>>, <<"MINUS", "TERM", "terms">>, <<"PLUS", "TERM", "terms">>}
    [] symbol = "TERM" -> {<<"UNARY", "unaries">>}
    [] symbol = "unaries" -> {<<>>, <<"DIV", "UNARY", "unaries">>, <<"MULT", "UNARY", "unaries">>}
    [] symbol = "UNARY" -> {<<"PRIMARY">>, <<"PLUS", "PRIMARY">>, <<"MINUS", "PRIMARY">>}
    [] symbol = "PRIMARY" -> {<<"NUMBER">>, <<"IDENT">>}

SYMBOL == TOKEN \cup GRAMMAR_TYPE \cup {"statements", "operator", "terms", "unaries"}

\* The forms that a form stands for, each empty or with an atom in front.
Unfold(form, atoms) ==
  LET unfolded[f \in Seq(SYMBOL)] ==
        IF f = <<>> \/ Head(f) \in atoms
          THEN {f}
          ELSE UNION {unfolded[rhs \o Tail(f)] : rhs \in Productions(Head(f))}
  IN  unfolded[form]

\* What is left of the forms when a symbol is read, and whether nothing need be.
Read(forms, symbol, atoms) ==
  {Tail(g) : g \in {h \in UNION {Unfold(form, atoms) : form \in forms} :
                      h # <<>> /\ Head(h) = symbol}}
MayEnd(forms, atoms) == \E form \in forms : <<>> \in Unfold(form, atoms)

\* What may follow the first k symbols of a word, for each k: nothing if they
\* do not begin any word of the forms.
Follow(word, forms, atoms) ==
  LET after[k \in 0 .. Len(word)] ==
        IF k = 0 THEN forms ELSE Read(after[k - 1], word[k], atoms)
  IN  after

IsWord(word, forms, atoms) == MayEnd(Follow(word, forms, atoms)[Len(word)], atoms)

FollowTokens == Follow(tokens, {<<"PROGRAM">>}, TOKEN)

-----------------------------------------------------------------------------
(***************************************************************************)
(* The tree read back.                                                     *)
(***************************************************************************)
Children(n) ==
  LET from[m \in 0 .. Len(ast)] ==
        IF m = NO_NODE THEN <<>> ELSE <<m>> \o from[NextSibling(ast, m)]
  IN  from[FirstChild(ast, n)]

\* The symbol of the grammar that a node stands for.
Symbol(n) == IF IsToken(ast, n) THEN tokens[ast[n].value] ELSE ast[n].value

Symbols(n) == [c \in 1 .. Len(Children(n)) |-> Symbol(Children(n)[c])]

\* The tokens below a node, from left to right.
Frontier(n) ==
  LET from[m \in 0 .. Len(ast)] ==  \* those below m and the nodes to its right
        IF m = NO_NODE THEN <<>>
        ELSE (IF IsToken(ast, m) THEN <<ast[m].value>> ELSE from[FirstChild(ast, m)])
             \o from[NextSibling(ast, m)]
  IN  IF IsToken(ast, n) THEN <<ast[n].value>> ELSE from[FirstChild(ast, n)]

Finished_ == stack = <<>>

\* The parser reports no error exactly for the programs of the grammar.
AcceptsTheGrammar ==
  Finished_ => (errors = <<>> <=> MayEnd(FollowTokens[Len(tokens)], TOKEN))

\* The first mistake is at the first token that no program could have in its
\* place, or at the end if the tokens only lack a continuation.  The first error
\* is about it: the parser neither reads past a mistake nor stops before one.  It
\* names the token; a mistake at the end it puts at line 1, column 1
\* (parser.c:193-196), so that there it seems to blame the first token.
FirstErrorExact ==
  Finished_ /\ errors # <<>> =>
    \E first \in 1 .. Len(tokens) + 1 :
      /\ FollowTokens[first - 1] # {}
      /\ IF first > Len(tokens)
           THEN errors[1] = FILE_START
           ELSE errors[1] = first /\ FollowTokens[first] = {}

\* The verdict is that of the grammar, and the first error is about the first
\* mistake (parser.c:84-415).
ErrorsExact == AcceptsTheGrammar /\ FirstErrorExact

\* Without errors the tree is the derivation of the input: the children of
\* each node spell one of the productions for it, and its leaves, from left to
\* right, are the input.  The emitter walks the tree by these productions and
\* asserts them (emitter-x86.c lines 412-530).
DerivationTree ==
  Finished_ /\ errors = <<>> =>
    /\ Frontier(Head_) = [p \in 1 .. Len(tokens) |-> p]
    /\ \A n \in Ids(ast) :
         ast[n].type = "GRAMMAR" =>
           IsWord(Symbols(n), Productions(ast[n].value), TOKEN \cup GRAMMAR_TYPE)
=============================================================================
