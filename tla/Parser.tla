-------------------------------- MODULE Parser --------------------------------
(***************************************************************************)
(* The recursive descent parser (frontend/parser/parser.c) as a machine    *)
(* with an explicit call stack.  A step runs one function from where it is *)
(* entered, or from where a callee returns, to its next call or return.    *)
(*                                                                         *)
(* Only the type of a token matters here; the token a node of the tree     *)
(* holds is named by its place in the input.  Places count from 1, in C    *)
(* from 0.                                                                 *)
(***************************************************************************)
EXTENDS AstTree

CONSTANT Inputs  \* the token sequences the parser may be given

STATEMENT_START_KEYWORDS ==
  {"PRINT", "IF", "WHILE", "LABEL", "GOTO", "LET", "INPUT"}
CONTROL_FLOW_TOKENS == {"ENDIF", "ENDWHILE", "ELSE"}
COMPARISON_OPS == {"EQEQ", "NOTEQ", "GT", "LT", "GTE", "LTE"}
SIGNS == {"PLUS", "MINUS"}
TOKEN == STATEMENT_START_KEYWORDS \cup CONTROL_FLOW_TOKENS \cup COMPARISON_OPS
         \cup SIGNS \cup {"MULT", "DIV", "EQ", "THEN", "REPEAT",
                          "IDENT", "NUMBER", "STRING", "NOT", "AND", "OR", "UNKNOWN"}

ASSUME ParserAssumption == Inputs \subseteq Seq(TOKEN)

VARIABLES tokens,    \* the input, _ta of the ParseContext
          position,  \* the next token, _position of the ParseContext
          ast,       \* the tree being built
          stack,     \* the frames of the functions that are running
          ret,       \* what the function that was called last has returned
          errors,    \* the place of every error reported
          skipped    \* history: the places that recovery went past

vars == <<tokens, position, ast, stack, ret, errors, skipped>>

\* A function that is running, the node it adds to, the place it goes on at,
\* and the keyword of a statement.  A function is named by the grammar type of
\* the node it makes; _parse_statement_star_internal makes none, and is "STAR"
\* or, with inside_block, "BLOCK".
Frame(fn, node, kw) == [fn |-> fn, node |-> node, at |-> 1, kw |-> kw]

\* ast_parse, up to the call of _parse_program
Start ==
  /\ position = 1
  /\ ast = <<GrammarNode("PROGRAM")>>
  /\ stack = <<Frame("STAR", Head_, "none")>>
  /\ ret = "none"
  /\ errors = <<>>
  /\ skipped = {}

Init == tokens \in Inputs /\ Start

-----------------------------------------------------------------------------
(***************************************************************************)
(* The parse context and the call stack.                                   *)
(***************************************************************************)
Running == stack # <<>>
Top == stack[Len(stack)]
Below == SubSeq(stack, 1, Len(stack) - 1)
In(fn) == Running /\ Top.fn = fn
At(fn, place) == In(fn) /\ Top.at = place

\* pc_done
Done == position > Len(tokens)

\* pc_expect and pc_expect_array
Expect(types) == ~ Done /\ tokens[position] \in types

\* The tree with the current token as the last child of the running function's
\* node: pc_add_token_and_advance also moves to position + 1.
WithToken == AddToken(ast, Top.node, position)

\* FileLocation {1, 1}, the default place of an error.  It is also the place of
\* the first token, unless blanks or comments precede it in the file; here they
\* are one, as in the files where the two cannot be told apart.
FILE_START == 1

\* Mutant: the position an error names is the one after the token.
HereNext == IF Done THEN FILE_START ELSE position + 1

\* The location pc_error_current_token gives an error: the default place at the
\* end of the input.
Here == IF Done THEN FILE_START ELSE position

\* Mutant: recovery passes the token it starts from, whatever it is.
RecoveredPast ==
  LET starts == {q \in position + 1 .. Len(tokens) : tokens[q] \in STATEMENT_START_KEYWORDS}
  IN  CHOOSE q \in starts \cup {Len(tokens) + 1} :
        \A r \in starts \cup {Len(tokens) + 1} : q <= r

\* Mutant: recovery runs one place past the end of the input.
RecoveredBeyond ==
  LET starts == {q \in position .. Len(tokens) : tokens[q] \in STATEMENT_START_KEYWORDS}
  IN  CHOOSE q \in starts \cup {Len(tokens) + 2} :
        \A r \in starts \cup {Len(tokens) + 2} : q <= r

\* _recover_to_next_statement: the first place from here with a token that
\* starts a statement, or the end.
Recovered ==
  LET starts == {q \in position .. Len(tokens) : tokens[q] \in STATEMENT_START_KEYWORDS}
  IN  CHOOSE q \in starts \cup {Len(tokens) + 1} :
        \A r \in starts \cup {Len(tokens) + 1} : q <= r

Recover ==
  /\ position' = Recovered
  /\ skipped' = skipped \cup (position .. Recovered - 1)

Resume(place) == Append(Below, [Top EXCEPT !.at = place])

\* The function with a node of its own fn is called with the tree and the
\* position as given; place is where the caller goes on.  The callee returns
\* false at the end of input, else it adds its node first.
Call(fn, place, tree, pos) ==
  /\ position' = pos
  /\ IF pos > Len(tokens)
       THEN /\ ast' = tree
            /\ stack' = Resume(place)
            /\ ret' = "false"
       ELSE /\ ast' = AddGrammar(tree, Top.node, fn)
            /\ stack' = Append(Resume(place), Frame(fn, Len(tree) + 1, "none"))
            /\ ret' = "none"

Return(result) == stack' = Below /\ ret' = result

-----------------------------------------------------------------------------
(***************************************************************************)
(* Expressions.                                                            *)
(***************************************************************************)
\* Mutant: a number or name is consumed without a node for it.
ParsePrimaryDropped ==
  /\ At("PRIMARY", 1)
  /\ \/ Expect({"NUMBER", "IDENT"}) /\ position' = position + 1 /\ Return("true")
     \/ ~ Expect({"NUMBER", "IDENT"}) /\ UNCHANGED position /\ Return("false")
  /\ UNCHANGED <<tokens, ast, errors, skipped>>

\* _parse_primary
ParsePrimary ==
  /\ At("PRIMARY", 1)
  /\ \/ /\ Expect({"NUMBER", "IDENT"})
        /\ ast' = WithToken /\ position' = position + 1
        /\ Return("true")
     \/ /\ ~ Expect({"NUMBER", "IDENT"})
        /\ UNCHANGED <<ast, position>>
        /\ Return("false")
  /\ UNCHANGED <<tokens, errors, skipped>>

\* _parse_unary
ParseUnary ==
  /\ \/ /\ At("UNARY", 1)
        /\ \/ Expect(SIGNS) /\ Call("PRIMARY", 2, WithToken, position + 1)
           \/ ~ Expect(SIGNS) /\ Call("PRIMARY", 2, ast, position)
     \/ /\ At("UNARY", 2)
        /\ Return(ret)
        /\ UNCHANGED <<position, ast>>
  /\ UNCHANGED <<tokens, errors, skipped>>

\* Mutant: an operator with nothing after it ends the chain.
ParseChainTrailing(fn, operand, operators) ==
  /\ \/ At(fn, 1) /\ Call(operand, 2, ast, position)
     \/ /\ At(fn, 2) /\ ret = "true" /\ Expect(operators)
        /\ Call(operand, 2, WithToken, position + 1)
     \/ /\ At(fn, 2) /\ ~ (ret = "true" /\ Expect(operators))
        /\ Return("true")
        /\ UNCHANGED <<position, ast>>
  /\ UNCHANGED <<tokens, errors, skipped>>

\* The loop of _parse_term and of _parse_expression.
ParseChain(fn, operand, operators) ==
  /\ \/ At(fn, 1) /\ Call(operand, 2, ast, position)
     \/ /\ At(fn, 2) /\ ret = "true" /\ Expect(operators)
        /\ Call(operand, 2, WithToken, position + 1)
     \/ /\ At(fn, 2) /\ ~ (ret = "true" /\ Expect(operators))
        /\ Return(ret)
        /\ UNCHANGED <<position, ast>>
  /\ UNCHANGED <<tokens, errors, skipped>>

ParseTerm == ParseChain("TERM", "UNARY", {"DIV", "MULT"})

ParseExpression == ParseChain("EXPRESSION", "TERM", SIGNS)

\* _parse_comparison
ParseComparison ==
  /\ \/ At("COMPARISON", 1) /\ Call("EXPRESSION", 2, ast, position)
     \/ /\ At("COMPARISON", 2) /\ ret = "true" /\ Expect(COMPARISON_OPS)
        /\ Call("EXPRESSION", 3, WithToken, position + 1)
     \/ /\ At("COMPARISON", 2) /\ ~ (ret = "true" /\ Expect(COMPARISON_OPS))
        /\ Return("false")
        /\ UNCHANGED <<position, ast>>
     \/ /\ At("COMPARISON", 3)
        /\ Return(ret)
        /\ UNCHANGED <<position, ast>>
  /\ UNCHANGED <<tokens, errors, skipped>>

-----------------------------------------------------------------------------
(***************************************************************************)
(* Statements.  Every branch of _parse_statement goes through a fixed list *)
(* of items: tokens it must see, and functions it calls where it does not  *)
(* see the token.                                                          *)
(***************************************************************************)
Token(types) == [expect |-> types, call |-> "none"]
Part(fn) == [expect |-> {}, call |-> fn]
TokenOr(types, fn) == [expect |-> types, call |-> fn]
Ident == Token({"IDENT"})

\* Mutant: a WHILE is also closed by an ENDIF.
FormLoose(kw) ==
  CASE kw = "PRINT" -> <<Token({"PRINT"}), TokenOr({"STRING"}, "EXPRESSION")>>
    [] kw = "IF"    -> <<Token({"IF"}), Part("COMPARISON"), Token({"THEN"}),
                         Part("BLOCK"), Token({"ENDIF"})>>
    [] kw = "WHILE" -> <<Token({"WHILE"}), Part("COMPARISON"), Token({"REPEAT"}),
                         Part("BLOCK"), Token({"ENDWHILE", "ENDIF"})>>
    [] kw = "LET"   -> <<Token({"LET"}), Ident, Token({"EQ"}), Part("EXPRESSION")>>
    [] OTHER        -> <<Token({kw}), Ident>>

\* Mutant: GOTO and the like also take a number.
FormNumber(kw) ==
  CASE kw = "PRINT" -> <<Token({"PRINT"}), TokenOr({"STRING"}, "EXPRESSION")>>
    [] kw = "IF"    -> <<Token({"IF"}), Part("COMPARISON"), Token({"THEN"}),
                         Part("BLOCK"), Token({"ENDIF"})>>
    [] kw = "WHILE" -> <<Token({"WHILE"}), Part("COMPARISON"), Token({"REPEAT"}),
                         Part("BLOCK"), Token({"ENDWHILE"})>>
    [] kw = "LET"   -> <<Token({"LET"}), Ident, Token({"EQ"}), Part("EXPRESSION")>>
    [] OTHER        -> <<Token({kw}), Token({"IDENT", "NUMBER"})>>

\* The branches of _parse_statement.
Form(kw) ==
  CASE kw = "PRINT" -> <<Token({"PRINT"}), TokenOr({"STRING"}, "EXPRESSION")>>
    [] kw = "IF"    -> <<Token({"IF"}), Part("COMPARISON"), Token({"THEN"}),
                         Part("BLOCK"), Token({"ENDIF"})>>
    [] kw = "WHILE" -> <<Token({"WHILE"}), Part("COMPARISON"), Token({"REPEAT"}),
                         Part("BLOCK"), Token({"ENDWHILE"})>>
    [] kw = "LET"   -> <<Token({"LET"}), Ident, Token({"EQ"}), Part("EXPRESSION")>>
    [] OTHER        -> <<Token({kw}), Ident>>

InForm == In("STATEMENT") /\ Top.at <= Len(Form(Top.kw))
Item == Form(Top.kw)[Top.at]

StatementToken ==
  /\ InForm /\ ret = "none"
  /\ Expect(Item.expect)
  /\ ast' = WithToken /\ position' = position + 1
  /\ stack' = Resume(Top.at + 1)
  /\ UNCHANGED <<tokens, ret, errors, skipped>>

StatementCall ==
  /\ InForm /\ ret = "none"
  /\ ~ Expect(Item.expect)
  /\ Item.call \in {"COMPARISON", "EXPRESSION"}
  /\ Call(Item.call, Top.at, ast, position)
  /\ UNCHANGED <<tokens, errors, skipped>>

\* Mutant: the statements of a block are attached to the root.
StatementBlockAtRoot ==
  /\ InForm /\ ret = "none"
  /\ Item.call = "BLOCK"
  /\ stack' = Append(stack, Frame("BLOCK", Head_, "none"))
  /\ UNCHANGED <<tokens, position, ast, ret, errors, skipped>>

\* The call of _parse_statement_star_internal with inside_block true.
StatementBlock ==
  /\ InForm /\ ret = "none"
  /\ Item.call = "BLOCK"
  /\ stack' = Append(stack, Frame("BLOCK", Top.node, "none"))
  /\ UNCHANGED <<tokens, position, ast, ret, errors, skipped>>

StatementResume ==
  /\ InForm /\ ret = "true"
  /\ stack' = Resume(Top.at + 1)
  /\ ret' = "none"
  /\ UNCHANGED <<tokens, position, ast, errors, skipped>>

\* A token that must be there is not, or a part of the statement has failed.
StatementFail ==
  /\ InForm
  /\ ret = "false" \/ (~ Expect(Item.expect) /\ Item.call = "none")
  /\ errors' = Append(errors, Here)
  /\ Return("false")
  /\ UNCHANGED <<tokens, position, ast, skipped>>

StatementEnd ==
  /\ In("STATEMENT") /\ Top.at > Len(Form(Top.kw))
  /\ Return("true")
  /\ UNCHANGED <<tokens, position, ast, errors, skipped>>

-----------------------------------------------------------------------------
(***************************************************************************)
(* _parse_statement_star_internal, one iteration of its loop a step.       *)
(***************************************************************************)
InLoop == In("STAR") \/ In("BLOCK")
AtLoop == InLoop /\ ret # "false"

AtBlockEnd == In("BLOCK") /\ Expect(CONTROL_FLOW_TOKENS)

StarReturn ==
  /\ AtLoop
  /\ Done \/ AtBlockEnd
  /\ Return("true")
  /\ UNCHANGED <<tokens, position, ast, errors, skipped>>

\* Mutant: an unknown token is reported and not passed.
StarUnknownStuck ==
  /\ AtLoop
  /\ ~ Done /\ ~ AtBlockEnd
  /\ ~ Expect(STATEMENT_START_KEYWORDS)
  /\ ret' = "true"
  /\ UNCHANGED <<tokens, position, ast, stack, errors, skipped>>

StarUnknown ==
  /\ AtLoop
  /\ ~ Done /\ ~ AtBlockEnd
  /\ ~ Expect(STATEMENT_START_KEYWORDS)
  /\ errors' = Append(errors, Here)
  /\ Recover
  /\ ret' = "none"
  /\ UNCHANGED <<tokens, ast, stack>>

StarStatement ==
  /\ AtLoop
  /\ Expect(STATEMENT_START_KEYWORDS)
  /\ ast' = AddGrammar(ast, Top.node, "STATEMENT")
  /\ stack' = Append(stack, Frame("STATEMENT", Len(ast) + 1, tokens[position]))
  /\ ret' = "none"
  /\ UNCHANGED <<tokens, position, errors, skipped>>

StarRecover ==
  /\ InLoop /\ ret = "false"
  /\ Recover
  /\ ret' = "none"
  /\ UNCHANGED <<tokens, ast, stack, errors>>

Finished == stack = <<>> /\ UNCHANGED vars

Next ==
  \/ ParsePrimary \/ ParseUnary \/ ParseTerm \/ ParseExpression \/ ParseComparison
  \/ StatementToken \/ StatementCall \/ StatementBlock \/ StatementResume
  \/ StatementFail \/ StatementEnd
  \/ StarReturn \/ StarUnknown \/ StarStatement \/ StarRecover
  \/ Finished

Spec == Init /\ [][Next]_vars /\ WF_vars(Next)

-----------------------------------------------------------------------------
GRAMMAR_TYPE ==
  {"PROGRAM", "STATEMENT", "COMPARISON", "EXPRESSION", "TERM", "UNARY", "PRIMARY"}

NodeOK(node) ==
  /\ \/ node.type = "TOKEN" /\ node.value \in 1 .. Len(tokens)
     \/ node.type = "GRAMMAR" /\ node.value \in GRAMMAR_TYPE
  /\ {node.first_child, node.last_child, node.next_sibling} \subseteq 0 .. Len(ast)

\* The position is never more than one past the input (token_array_at does
\* not check it), and every function runs on a grammar node.
TypeOK ==
  /\ tokens \in Seq(TOKEN)
  /\ position \in 1 .. Len(tokens) + 1
  /\ \A n \in Ids(ast) : NodeOK(ast[n])
  /\ \A d \in 1 .. Len(stack) : IsGrammar(ast, stack[d].node)
  /\ ret \in {"none", "true", "false"}
  /\ errors \in Seq({FILE_START} \cup 1 .. Len(tokens))
  /\ skipped \subseteq 1 .. Len(tokens)

\* What the parser builds is a tree, at every moment of any input.
TreeWellFormed == IsTree(ast)

TokenNodes == {n \in Ids(ast) : ast[n].type = "TOKEN"}

\* Every token before the position is in the tree once, in the order of the
\* input, or was passed by recovery, and never both.
ConsumedOnce ==
  /\ {ast[n].value : n \in TokenNodes} = (1 .. position - 1) \ skipped
  /\ \A m, n \in TokenNodes : m < n => ast[m].value < ast[n].value

\* Recovery never passes over a statement: every statement keyword before the
\* position has a STATEMENT node that begins with it, and each STATEMENT node
\* but one that is just entered begins with one.
StatementsKept ==
  /\ \A p \in skipped : tokens[p] \notin STATEMENT_START_KEYWORDS
  /\ \A n \in Ids(ast) :
       ast[n].type = "GRAMMAR" /\ ast[n].value = "STATEMENT" =>
         \/ n = Len(ast)
         \/ /\ IsToken(ast, n + 1) /\ ast[n].first_child = n + 1
            /\ tokens[ast[n + 1].value] \in STATEMENT_START_KEYWORDS

\* No token is lost silently: a run of tokens passed by recovery begins at
\* the place of a reported error.
SkipsReported ==
  \A p \in skipped : p - 1 \in skipped \/ \E e \in 1 .. Len(errors) : errors[e] = p

\* Both hold however the statement loops of nested blocks take over recovery
\* from each other (parser.c:376-432).
RecoveryAccounted == StatementsKept /\ SkipsReported

\* The parser only goes forward: tokens are not read again, the tree is only
\* extended, reports are not withdrawn.
OnlyForward ==
  [][/\ position' >= position
     /\ Extends(ast', ast)
     /\ skipped \subseteq skipped'
     /\ \A e \in 1 .. Len(errors) : e <= Len(errors') /\ errors'[e] = errors[e]]_vars

\* The parser stops on any input, with all of it read.
Terminates == <>(stack = <<>> /\ Done)
=============================================================================
