------------------------------- MODULE Emitter -------------------------------
(***************************************************************************)
(* The assembly the emitter writes for a tree (backend/emitter-x86.c), as  *)
(* a sequence of lines.  A line is an instruction or a label, together     *)
(* with the place in the input that control is at there, a history that    *)
(* the assembly does not show.                                             *)
(***************************************************************************)
EXTENDS NameTable

VARIABLE cc  \* the calling convention of the target

Line(op, dst, src) == [op |-> op, dst |-> dst, src |-> src]

\* Operands are tagged: registers, numbers, variables, strings and labels.
None == <<"none", "">>
Reg(name) == <<"reg", name>>
Number(digits) == <<"number", digits>>
Var(name) == <<"_var_", name>>
Static(k) == <<"_static_", k>>
Lab(name) == <<".LAB", name>>
ILab(k) == <<".ILAB", k>>

Ret == Reg(cc.ret)
Scratch == Reg(cc.scratch)
Arg == Reg(cc.arg)

Mov(dst, src) == Line("mov", dst, src)
Call(helper) == Line("call", <<"helper", helper>>, None)
Jump(op, label) == Line(op, label, None)
Label(label) == Line("label", label, None)

-----------------------------------------------------------------------------
(***************************************************************************)
(* Expressions leave their value in the result register.                   *)
(***************************************************************************)
Is(node, type) == IsToken(ast, node) /\ TokenAt(node) = type

\* _emit_primary
Primary(node) ==
  LET child == FirstChild(ast, node)
  IN  CASE Is(child, "NUMBER") -> <<Mov(Ret, Number(TextAt(child)))>>
        [] Is(child, "IDENT")  -> <<Mov(Ret, Var(TextAt(child)))>>
        [] OTHER               -> <<>>

\* _emit_unary
Unary[node \in Nat] ==
  LET first   == FirstChild(ast, node)
      operand == NextSibling(ast, first)
  IN  CASE ~ IsGrammar(ast, node) \/ ast[node].value # "UNARY" -> <<>>
        [] IsGrammar(ast, first) -> Primary(first)
        [] Is(first, "MINUS") /\ operand # NO_NODE ->
             Primary(operand) \o <<Line("neg", Ret, None)>>
        [] Is(first, "PLUS") /\ operand # NO_NODE -> Primary(operand)
        [] OTHER -> <<>>

\* Mutant: the operands change places.
SecondOperandSwapped(operand) ==
  <<Line("push", Ret, None)>> \o operand \o <<Line("pop", Scratch, None)>>

\* Mutant: the first operand is left on the stack.
SecondOperandUnpopped(operand) ==
  <<Line("push", Ret, None)>> \o operand \o <<Mov(Scratch, Ret)>>

\* The first operand, in the result register, waits on the stack for the
\* second, which goes to the scratch register.
SecondOperand(operand) ==
  <<Line("push", Ret, None)>> \o operand
    \o <<Mov(Scratch, Ret), Line("pop", Ret, None)>>

\* Mutant: the dividend is not extended to the double word that idiv takes.
OperationNoCqo ==
  [PLUS  |-> <<Line("add", Ret, Scratch)>>,  MINUS |-> <<Line("sub", Ret, Scratch)>>,
   MULT  |-> <<Line("imul", Ret, Scratch)>>, DIV   |-> <<Line("idiv", Scratch, None)>>]

Operation ==
  [PLUS  |-> <<Line("add", Ret, Scratch)>>,
   MINUS |-> <<Line("sub", Ret, Scratch)>>,
   MULT  |-> <<Line("imul", Ret, Scratch)>>,
   DIV   |-> <<Line("cqo", None, None), Line("idiv", Scratch, None)>>]

\* The loop of _emit_term and _emit_expression, from left to right over an
\* operator and an operand at a time; Operand gives the lines of an operand.
Chain(Operand, operators, node) ==
  LET first == FirstChild(ast, node)
      Rest[op \in Nat] ==
        LET right == NextSibling(ast, op)
        IN  IF ~ IsToken(ast, op) \/ right = NO_NODE THEN <<>>
            ELSE SecondOperand(Operand[right])
                   \o IF TokenAt(op) \in operators
                        THEN Operation[TokenAt(op)] \o Rest[NextSibling(ast, right)]
                        ELSE <<>>
  IN  IF first = NO_NODE THEN <<>> ELSE Operand[first] \o Rest[NextSibling(ast, first)]

Term[node \in Nat] == Chain(Unary, {"DIV", "MULT"}, node)
Expression(node) == Chain(Term, {"PLUS", "MINUS"}, node)

Second(node) == NextSibling(ast, FirstChild(ast, node))
Third(node) == NextSibling(ast, Second(node))
Fourth(node) == NextSibling(ast, Third(node))

\* _emit_comparison; the operator is the second child.
Comparison(node) ==
  IF Third(node) = NO_NODE THEN <<>>
  ELSE Expression(FirstChild(ast, node)) \o SecondOperand(Expression(Third(node)))
         \o <<Line("cmp", Ret, Scratch)>>

\* Mutant: the jumps for > and >= are confused.
JumpUnlessStrict ==
  [EQEQ |-> "jne", NOTEQ |-> "je", GT |-> "jl", GTE |-> "jl", LT |-> "jge", LTE |-> "jg"]

\* _get_jump_instruction_from_operation: the jump taken if the comparison
\* does not hold.
JumpUnless ==
  [EQEQ |-> "jne", NOTEQ |-> "je", GT |-> "jle", GTE |-> "jl", LT |-> "jge", LTE |-> "jg"]

JumpUnlessHolds(comparison, label) ==
  Comparison(comparison) \o <<Jump(JumpUnless[TokenAt(Second(comparison))], label)>>

-----------------------------------------------------------------------------
(***************************************************************************)
(* Statements.                                                             *)
(***************************************************************************)
Keyword(statement) ==
  LET first == FirstChild(ast, statement)
  IN  IF IsToken(ast, first) THEN TokenAt(first) ELSE "none"

At(place, lines) == [i \in 1 .. Len(lines) |-> [line |-> lines[i], place |-> place]]

\* DZ_ASSERT: a line that says that an assertion has failed.
Assert_(holds) == IF holds THEN <<>> ELSE At(0, <<Line("assertion", None, None)>>)

\* The lines of a PRINT with its argument.
PrintLines(argument) ==
  CASE Is(argument, "STRING") ->
         <<Line("lea", Arg, Static(literal_table[TextAt(argument)])), Call("print_string")>>
    [] IsGrammar(ast, argument) /\ ast[argument].value = "EXPRESSION" ->
         Expression(argument) \o <<Mov(Arg, Ret), Call("print_integer")>>
    [] OTHER -> <<>>

\* The lines of a statement that holds no others.
SimpleLines(statement) ==
  LET name == Second(statement)
  IN  CASE Keyword(statement) = "PRINT" -> PrintLines(name)
        [] Keyword(statement) = "LET" /\ Fourth(statement) # NO_NODE ->
             Expression(Fourth(statement)) \o <<Mov(Var(TextAt(name)), Ret)>>
        [] Keyword(statement) = "INPUT" /\ name # NO_NODE ->
             <<Call("input_integer"), Mov(Var(TextAt(name)), Ret)>>
        [] Keyword(statement) = "LABEL" /\ name # NO_NODE -> <<Label(Lab(TextAt(name)))>>
        [] Keyword(statement) = "GOTO" /\ name # NO_NODE -> <<Jump("jmp", Lab(TextAt(name)))>>
        [] OTHER -> <<>>

IsStatementNode(node) == IsGrammar(ast, node) /\ IsStatement(node)

\* The node that ends the block that begins at a node, what
\* _emit_statement_block returns: the first sibling that is no statement.
BlockEnd(block) ==
  LET end[node \in Nat] ==
        IF IsStatementNode(node) THEN end[NextSibling(ast, node)] ELSE node
  IN  end[block]

Place(node) == ast[node].value

\* What follows is for a statement, the number of its first label, and the
\* lines of its block.
IfLines(statement, label, block) ==
  LET end == BlockEnd(Fourth(statement))
  IN  At(Place(FirstChild(ast, statement)), JumpUnlessHolds(Second(statement), ILab(label)))
        \o Assert_(Is(Third(statement), "THEN"))
        \o block
        \o Assert_(Is(end, "ENDIF"))
        \o At(Place(end), <<Label(ILab(label))>>)

\* Mutant: the jump out of the loop goes to its start.
WhileLinesStuck(statement, label, block) ==
  LET end   == BlockEnd(Fourth(statement))
      start == ILab(label)
  IN  At(Place(FirstChild(ast, statement)),
         <<Label(start)>> \o JumpUnlessHolds(Second(statement), start))
        \o block
        \o At(Place(end), <<Jump("jmp", start)>>)

WhileLines(statement, label, block) ==
  LET end   == BlockEnd(Fourth(statement))
      start == ILab(label)
      after == ILab(label + 1)
  IN  At(Place(FirstChild(ast, statement)),
         <<Label(start)>> \o JumpUnlessHolds(Second(statement), after))
        \o Assert_(Is(Third(statement), "REPEAT"))
        \o block
        \o At(Place(end), <<Jump("jmp", start)>>)
        \o Assert_(Is(end, "ENDWHILE"))
        \o At(Place(end) + 1, <<Label(after)>>)

\* _emit_statement
StatementLines(statement, label, block) ==
  CASE Keyword(statement) = "IF" /\ Second(statement) # NO_NODE ->
         IfLines(statement, label, block)
    [] Keyword(statement) = "WHILE" /\ Second(statement) # NO_NODE ->
         WhileLines(statement, label, block)
    [] OTHER ->
         Assert_(Keyword(statement) \in {"INPUT", "LABEL", "GOTO"} =>
                   Is(Second(statement), "IDENT"))
           \o At(Place(FirstChild(ast, statement)), SimpleLines(statement))

\* Mutant: a WHILE takes one label number.
LabelsOfOne(statement) == IF Keyword(statement) \in {"IF", "WHILE"} THEN 1 ELSE 0

\* The labels a statement takes with emitter_get_label, all before its block.
LabelsOf(statement) ==
  CASE Keyword(statement) = "IF" -> 1
    [] Keyword(statement) = "WHILE" -> 2
    [] OTHER -> 0

\* The control_flow_label after the statements from a node on.
LabelAfter[node \in Nat] ==
  [label \in Nat |->
    IF ~ IsStatementNode(node) THEN label
    ELSE LabelAfter[NextSibling(ast, node)][LabelAfter[Fourth(node)][label + LabelsOf(node)]]]

\* _emit_statement_block and _emit_program: the lines of those statements.
Block[node \in Nat] ==
  [label \in Nat |->
    IF ~ IsStatementNode(node) THEN <<>>
    ELSE LET inside == label + LabelsOf(node)
         IN  StatementLines(node, label, Block[Fourth(node)][inside])
               \o Block[NextSibling(ast, node)][LabelAfter[Fourth(node)][inside]]]

\* emit_x86: the body of main; the data section is literal_table and
\* variable_table.
MainLines ==
  Block[FirstChild(ast, Head_)][0]
    \o At(Len(tokens) + 1, <<Line("ret", None, None)>>)
=============================================================================
