-------------------------------- MODULE Basic --------------------------------
(***************************************************************************)
(* What a program means, read off its tokens without any tree or assembly: *)
(* the specification that a compiled program implements.  Control is at a  *)
(* token that begins a statement or ends a block, or past the end, and a   *)
(* statement is one step.                                                  *)
(***************************************************************************)
EXTENDS Words, Sequences, FiniteSets

CONSTANT NumberValue  \* what the digits of a number denote

VARIABLES tokens, text,  \* the program
          at,            \* the place that control is at, 0 before it runs
          env,           \* the values of the variables
          io,            \* the last thing printed
          state          \* "compiling", "rejected", "running", "ended", "trapped"

vars == <<tokens, text, at, env, io, state>>

OPERANDS == {"NUMBER", "IDENT"}
OPERATORS == {"PLUS", "MINUS", "MULT", "DIV"}

-----------------------------------------------------------------------------
(***************************************************************************)
(* Expressions.                                                            *)
(***************************************************************************)
\* The value of an expression whose evaluation traps.
Trap == WORD_LIMIT

Apply(op, a, b) ==
  CASE a = Trap \/ b = Trap -> Trap
    [] op = "PLUS"  -> Wrap(a + b)
    [] op = "MINUS" -> Wrap(a - b)
    [] op = "MULT"  -> Wrap(a * b)
    [] OTHER -> IF b = 0 \/ Quotient(a, b) \notin Word THEN Trap ELSE Quotient(a, b)

\* The places from p to q of operators with operands on both sides.
Binary(p, q, ops) == {i \in p + 1 .. q : tokens[i] \in ops /\ tokens[i - 1] \in OPERANDS}

Last(places) == CHOOSE i \in places : \A j \in places : j <= i

\* The value of the tokens from p to q: the last operator of those that bind
\* weakest comes last.
Value ==
  LET V[p \in Nat, q \in Nat] ==
        LET sums     == Binary(p, q, {"PLUS", "MINUS"})
            products == Binary(p, q, {"MULT", "DIV"})
            Split(i) == Apply(tokens[i], V[p, i - 1], V[i + 1, q])
        IN  CASE sums # {}     -> Split(Last(sums))
              [] products # {} -> Split(Last(products))
              [] tokens[p] = "MINUS"  -> Wrap(-V[p + 1, q])
              [] tokens[p] = "PLUS"   -> V[p + 1, q]
              [] tokens[p] = "NUMBER" -> Wrap(NumberValue[text[p]])
              [] tokens[p] = "IDENT"  -> env[text[p]]
  IN  V

\* The last place of the expression that begins at p.
EndOf(p) ==
  CHOOSE q \in p .. Len(tokens) :
    /\ \A i \in p .. q : tokens[i] \in OPERANDS \cup OPERATORS
    /\ q < Len(tokens) => tokens[q + 1] \notin OPERANDS \cup OPERATORS

ValueAt(p) == Value[p, EndOf(p)]

Compare(op, a, b) ==
  CASE op = "EQEQ" -> a = b
    [] op = "NOTEQ" -> a # b
    [] op = "GT"  -> a > b
    [] op = "GTE" -> a >= b
    [] op = "LT"  -> a < b
    [] op = "LTE" -> a <= b

-----------------------------------------------------------------------------
(***************************************************************************)
(* Blocks.                                                                 *)
(***************************************************************************)
Count(p, q, types) == Cardinality({i \in p .. q : tokens[i] \in types})

\* The end of the block of the IF or WHILE at p: the first place by which as
\* many blocks have been closed as opened.
Close(p) ==
  CHOOSE q \in p .. Len(tokens) :
    /\ Count(p, q, {"IF", "WHILE"}) = Count(p, q, {"ENDIF", "ENDWHILE"})
    /\ \A r \in p .. q - 1 :
         Count(p, r, {"IF", "WHILE"}) # Count(p, r, {"ENDIF", "ENDWHILE"})

Open(q) == CHOOSE p \in 1 .. q : tokens[p] = "WHILE" /\ Close(p) = q

LabelPlace(name) ==
  CHOOSE p \in 1 .. Len(tokens) : tokens[p] = "LABEL" /\ text[p + 1] = name

Declared == {text[p + 1] : p \in {q \in 1 .. Len(tokens) - 1 :
                                   tokens[q] = "LET" /\ tokens[q + 1] = "IDENT"}}

-----------------------------------------------------------------------------
Init ==
  /\ at = 0 /\ env = <<>> /\ io = Silent
  /\ state = "compiling"

\* The program begins, with all variables zero, or is turned down.
Begin ==
  /\ state = "compiling"
  /\ at' = 1
  /\ env' = [name \in Declared |-> 0]
  /\ state' = "running"
  /\ UNCHANGED <<tokens, text, io>>

Reject ==
  /\ state = "compiling"
  /\ state' = "rejected"
  /\ UNCHANGED <<tokens, text, at, env, io>>

Before(keyword) == state = "running" /\ at <= Len(tokens) /\ tokens[at] = keyword
Go(place) == at' = place
AfterExpression(p) == EndOf(p) + 1

PrintText_ ==
  /\ Before("PRINT") /\ tokens[at + 1] = "STRING"
  /\ io' = PrintText(io, text[at + 1])
  /\ Go(at + 2)
  /\ UNCHANGED <<tokens, text, env, state>>

PrintValue ==
  /\ Before("PRINT") /\ tokens[at + 1] # "STRING"
  /\ ValueAt(at + 1) # Trap
  /\ io' = PrintNumber(io, ValueAt(at + 1))
  /\ Go(AfterExpression(at + 1))
  /\ UNCHANGED <<tokens, text, env, state>>

Let ==
  /\ Before("LET")
  /\ ValueAt(at + 3) # Trap
  /\ env' = [env EXCEPT ![text[at + 1]] = ValueAt(at + 3)]
  /\ Go(AfterExpression(at + 3))
  /\ UNCHANGED <<tokens, text, io, state>>

Input ==
  /\ Before("INPUT")
  /\ \E n \in Entered : env' = [env EXCEPT ![text[at + 1]] = n]
  /\ Go(at + 2)
  /\ UNCHANGED <<tokens, text, io, state>>

Label == Before("LABEL") /\ Go(at + 2) /\ UNCHANGED <<tokens, text, env, io, state>>

Goto ==
  /\ Before("GOTO")
  /\ Go(LabelPlace(text[at + 1]))
  /\ UNCHANGED <<tokens, text, env, io, state>>

\* The condition of the statement at the place: its operands and its operator.
Left == ValueAt(at + 1)
Right == ValueAt(AfterExpression(at + 1) + 1)
Holds == Compare(tokens[AfterExpression(at + 1)], Left, Right)
Body == AfterExpression(AfterExpression(at + 1) + 1) + 1

If ==
  /\ Before("IF") /\ Trap \notin {Left, Right}
  /\ Go(IF Holds THEN Body ELSE Close(at))
  /\ UNCHANGED <<tokens, text, env, io, state>>

Endif == Before("ENDIF") /\ Go(at + 1) /\ UNCHANGED <<tokens, text, env, io, state>>

While ==
  /\ Before("WHILE") /\ Trap \notin {Left, Right}
  /\ Go(IF Holds THEN Body ELSE Close(at) + 1)
  /\ UNCHANGED <<tokens, text, env, io, state>>

Endwhile == Before("ENDWHILE") /\ Go(Open(at)) /\ UNCHANGED <<tokens, text, env, io, state>>

\* An expression of the statement divides by zero, or has a quotient that is
\* no word.
Divides ==
  /\ \/ Before("PRINT") /\ tokens[at + 1] # "STRING" /\ ValueAt(at + 1) = Trap
     \/ Before("LET") /\ ValueAt(at + 3) = Trap
     \/ (Before("IF") \/ Before("WHILE")) /\ Trap \in {Left, Right}
  /\ state' = "trapped"
  /\ UNCHANGED <<tokens, text, at, env, io>>

End ==
  /\ state = "running" /\ at > Len(tokens)
  /\ state' = "ended"
  /\ UNCHANGED <<tokens, text, at, env, io>>

Next ==
  \/ Begin \/ Reject
  \/ PrintText_ \/ PrintValue \/ Let \/ Input \/ Label \/ Goto
  \/ If \/ Endif \/ While \/ Endwhile
  \/ Divides \/ End

Spec == Init /\ [][Next]_vars
=============================================================================
