--------------------------- MODULE CompilerProofs ---------------------------
(***************************************************************************)
(* That no assertion of the emitter fails, that a compiled program never   *)
(* computes from junk, that its stack is right on every path, and that it  *)
(* assembles and links, for every program.                                 *)
(*                                                                         *)
(* Accepts is what the front end has been proved to hand on; Fit says the  *)
(* same in the words of the emitter.  Links of the tree go to later nodes  *)
(* only, so the functions the emitter is made of, which recur along the    *)
(* links, are defined on every node and have the lines that their          *)
(* equations give: by downward induction on the number of the node         *)
(* (Backwards).                                                            *)
(*                                                                         *)
(* Flow is an abstract interpretation of a line: from what is known before *)
(* it (how much is pushed, which registers hold numbers of the program,    *)
(* whether there is a string to print) to what is known after it.  A piece *)
(* of code leads from one to the other if its lines can be annotated so,   *)
(* and pieces put one after the other lead on.  An expression ends with    *)
(* its value in the result register and the stack as it was, a statement   *)
(* begins and ends with nothing known and nothing pushed: so does control  *)
(* at every label, wherever it comes from.  MachineInv says that the       *)
(* machine is in a state that the annotation of its line describes.        *)
(*                                                                         *)
(* Labelled says of a piece of code which labels it may have on its lines, *)
(* by the numbers taken with emitter_get_label and by the piece of the     *)
(* text it comes from, that it has none twice, and that it jumps to its    *)
(* own labels or to the target of a GOTO.  Pieces that come after each     *)
(* other have different labels if those of the text differ.  Conversely    *)
(* every statement, so every LABEL, is reached from the first one, by      *)
(* what comes before it (Placed).                                          *)
(***************************************************************************)
EXTENDS Compiler, SequenceTheorems, FiniteSetTheorems, WellFoundedInduction, TLAPS

FP == INSTANCE FrontendProofs

-----------------------------------------------------------------------------
(***************************************************************************)
(* The tree that the emitter is given, in the emitter's own terms.         *)
(***************************************************************************)
Nodes == 1 .. Len(ast)
First(n) == FirstChild(ast, n)
After(n) == NextSibling(ast, n)

Gram(n, rule) == IsGrammar(ast, n) /\ ast[n].value = rule
Tok(n, types) == IsToken(ast, n) /\ TokenAt(n) \in types

SIGNS == {"PLUS", "MINUS"}
SCALES == {"DIV", "MULT"}
COMPARISONS == {"EQEQ", "NOTEQ", "GT", "GTE", "LT", "LTE"}
KEYWORDS == {"LET", "PRINT", "INPUT", "LABEL", "GOTO", "IF", "WHILE"}

\* Links go to nodes that were added later.
Forward ==
  /\ Len(ast) \in Nat
  /\ \A n \in Nodes : First(n) \in {0} \cup (n + 1 .. Len(ast)) /\ After(n) \in {0} \cup (n + 1 .. Len(ast))

ExpressionFit(n) ==
  /\ Gram(n, "PRIMARY") =>
       /\ Tok(First(n), {"NUMBER", "IDENT"})
       /\ TokenAt(First(n)) = "IDENT" => ast[First(n)].value \in F!VariablePlaces
  /\ Gram(n, "UNARY") =>
       /\ Gram(First(n), "PRIMARY") \/ (Tok(First(n), SIGNS) /\ Gram(Second(n), "PRIMARY"))
       /\ After(n) = 0 \/ (Tok(After(n), SCALES) /\ Gram(After(After(n)), "UNARY"))
  /\ Gram(n, "TERM") =>
       /\ Gram(First(n), "UNARY")
       /\ After(n) = 0 \/ (Tok(After(n), SIGNS) /\ Gram(After(After(n)), "TERM"))
  /\ Gram(n, "EXPRESSION") => Gram(First(n), "TERM")
  /\ Gram(n, "COMPARISON") =>
       /\ Gram(First(n), "EXPRESSION")
       /\ Tok(Second(n), COMPARISONS)
       /\ Gram(Third(n), "EXPRESSION")

\* A node of the block of a statement, or the one that closes it.
InBlock(q, m, n) ==
  /\ m \in Nodes /\ q[m].up = n
  /\ \/ Gram(m, "STATEMENT")
     \/ q[n].kw = "IF" /\ Tok(m, {"ENDIF"})
     \/ q[n].kw = "WHILE" /\ Tok(m, {"ENDWHILE"})

StatementFit(q, n) ==
  /\ q[n].kw \in KEYWORDS
  /\ Tok(First(n), {q[n].kw})
  /\ q[n].kw = "PRINT" => Tok(Second(n), {"STRING"}) \/ Gram(Second(n), "EXPRESSION")
  /\ q[n].kw \in {"LET", "INPUT", "LABEL", "GOTO"} =>
       Tok(Second(n), {"IDENT"}) /\ ast[Second(n)].value = ast[First(n)].value + 1
  /\ q[n].kw = "LET" => Gram(Fourth(n), "EXPRESSION")
  /\ q[n].kw = "IF" => Tok(Third(n), {"THEN"})
  /\ q[n].kw = "WHILE" => Tok(Third(n), {"REPEAT"})
  /\ q[n].kw \in {"IF", "WHILE"} => Gram(Second(n), "COMPARISON") /\ InBlock(q, Fourth(n), n)
  /\ q[n].up = Head_ => After(n) = 0 \/ (Gram(After(n), "STATEMENT") /\ q[After(n)].up = Head_)
  /\ q[n].up # Head_ =>
       /\ Gram(q[n].up, "STATEMENT") /\ q[q[n].up].kw \in {"IF", "WHILE"}
       /\ InBlock(q, After(n), q[n].up)

Fit(q) ==
  /\ Forward
  /\ \A n \in Nodes : IsToken(ast, n) => ast[n].value \in F!Places
  /\ First(Head_) = 0 \/ (Gram(First(Head_), "STATEMENT") /\ q[First(Head_)].up = Head_)
  /\ \A n \in Nodes : ExpressionFit(n) /\ (Gram(n, "STATEMENT") => StatementFit(q, n))

LEMMA Kinds ==
  /\ NO_NODE = 0 /\ Head_ = 1 /\ After(0) = 0 /\ First(0) = 0
  /\ \A n : IsToken(ast, n) => n \in Nodes /\ n # 0
  /\ \A n : IsGrammar(ast, n) => n \in Nodes /\ n # 0
  /\ \A n, rule : Gram(n, rule) => n \in Nodes /\ n # 0 /\ ~ IsToken(ast, n)
  /\ \A n, types : Tok(n, types) => n \in Nodes /\ n # 0 /\ ~ IsGrammar(ast, n)
  /\ \A n : ~ IsGrammar(ast, n) => First(n) = 0
BY DEF NO_NODE, Head_, After, NextSibling, First, FirstChild, IsToken, IsGrammar, Nodes, Gram, Tok

\* Every set of numbers has a least element.
LEMMA Least ==
  ASSUME NEW T, T \subseteq Nat, T # {}
  PROVE  \E x \in T : \A y \in T : x <= y
<1>1. PICK x \in T : \A y \in T : ~ (<<y, x>> \in OpToRel(<, Nat))
  BY WFMin, NatLessThanWellFounded
<1>2. \A y \in T : ~ (y < x)
  BY <1>1 DEF OpToRel
<1>. QED  BY <1>2

\* Induction from the last node to the first.
LEMMA Backwards ==
  ASSUME NEW N \in Nat, NEW S, N + 1 \in S, \A k \in 1 .. N : k + 1 \in S => k \in S
  PROVE  \A k \in 1 .. N + 1 : k \in S
<1>. DEFINE T == {j \in 0 .. N : N + 1 - j \notin S}
<1>1. T = {}
  <2>. SUFFICES ASSUME T # {} PROVE FALSE
    OBVIOUS
  <2>1. PICK j \in T : \A y \in T : j <= y
    <3>1. T \subseteq Nat
      OBVIOUS
    <3>. HIDE DEF T
    <3>. QED  BY <3>1, Least
  <2>2. j \in 0 .. N /\ N + 1 - j \notin S
    OBVIOUS
  <2>3. j # 0
    BY <2>2
  <2>4. j - 1 \in 0 .. N /\ ~ (j <= j - 1)
    BY <2>2, <2>3
  <2>5. N + 1 - (j - 1) \in S
    BY <2>1, <2>4
  <2>6. N + 1 - j \in 1 .. N /\ (N + 1 - j) + 1 = N + 1 - (j - 1)
    BY <2>2, <2>3
  <2>. QED  BY <2>2, <2>5, <2>6
<1>2. ASSUME NEW k \in 1 .. N + 1 PROVE k \in S
  <2>1. \A j \in 0 .. N : N + 1 - j \in S
    BY <1>1
  <2>2. PICK j : j = N + 1 - k
    OBVIOUS
  <2>3. j \in 0 .. N /\ N + 1 - j = k
    BY <2>2
  <2>. QED  BY <2>1, <2>3
<1>. QED  BY <1>2

-----------------------------------------------------------------------------
(***************************************************************************)
(* What is known before a line runs: how much is pushed, which registers   *)
(* hold numbers of this program, and whether the register of the first     *)
(* argument holds a string.                                                *)
(***************************************************************************)
States == [depth : Nat, known : SUBSET M!Registers, string : BOOLEAN]
Knows(depth, known, string) == [depth |-> depth, known |-> known, string |-> string]

\* Wherever control may come from elsewhere.
Nothing == Knows(0, {}, FALSE)

JUMPS == {"jmp", "je", "jne", "jl", "jle", "jg", "jge"}

Number_(operand, s) == operand[1] = "reg" /\ operand[2] \in s.known

\* From what is known before a line to what is known before the next one.
Flow(line, s, t) ==
  \/ /\ line.op = "mov" /\ line.dst[1] = "reg" /\ line.dst[2] \in M!Registers
     /\ line.src[1] \in {"number", "_var_"} \/ Number_(line.src, s)
     /\ t.depth = s.depth /\ t.known \subseteq s.known \cup {line.dst[2]} /\ ~ t.string
  \/ /\ line.op = "mov" /\ line.dst[1] = "_var_" /\ Number_(line.src, s)
     /\ t.depth = s.depth /\ t.known \subseteq s.known /\ ~ t.string
  \/ /\ line.op = "lea" /\ line.dst = Arg /\ line.src[1] = "_static_"
     /\ t.depth = s.depth /\ t.known = {}
  \/ /\ line.op = "push" /\ Number_(line.dst, s)
     /\ t.depth = s.depth + 1 /\ t.known \subseteq s.known /\ ~ t.string
  \/ /\ line.op = "pop" /\ line.dst[1] = "reg" /\ line.dst[2] \in M!Registers
     /\ s.depth = t.depth + 1 /\ t.known \subseteq s.known \cup {line.dst[2]} /\ ~ t.string
  \/ /\ line.op \in {"add", "sub", "imul", "cmp"} /\ Number_(line.dst, s) /\ Number_(line.src, s)
     /\ t.depth = s.depth /\ t.known \subseteq s.known /\ ~ t.string
  \/ /\ line.op = "neg" /\ Number_(line.dst, s)
     /\ t.depth = s.depth /\ t.known \subseteq s.known /\ ~ t.string
  \/ /\ line.op = "cqo" /\ "rax" \in s.known
     /\ t.depth = s.depth /\ t.known \subseteq s.known \cup {"rdx"} /\ ~ t.string
  \/ /\ line.op = "idiv" /\ Number_(line.dst, s) /\ {"rax", "rdx"} \subseteq s.known
     /\ t.depth = s.depth /\ t.known \subseteq s.known /\ ~ t.string
  \/ /\ line.op \in JUMPS /\ line.dst[1] \in {".LAB", ".ILAB"}
     /\ s.depth = 0 /\ t = Nothing
  \/ /\ line.op = "label"
     /\ s = Nothing /\ t = Nothing
  \/ /\ line.op = "call" /\ line.dst[2] = "print_integer" /\ cc.arg \in s.known
     /\ s.depth = 0 /\ t = Nothing
  \/ /\ line.op = "call" /\ line.dst[2] = "print_string" /\ s.string
     /\ s.depth = 0 /\ t = Nothing
  \/ /\ line.op = "call" /\ line.dst[2] = "input_integer"
     /\ s.depth = 0 /\ t.depth = 0 /\ t.known \subseteq {cc.ret} /\ ~ t.string
  \/ /\ line.op = "ret"
     /\ s.depth = 0 /\ t = Nothing

\* The names in a line: a variable is named where the text names one, labels
\* only in labels and jumps.
Named(line) ==
  \A operand \in {line.dst, line.src} :
    /\ operand[1] = "_var_" => operand[2] \in {text[p] : p \in F!VariablePlaces}
    /\ operand[1] \in {".LAB", ".ILAB"} => line.op \in JUMPS \cup {"label"} /\ operand = line.dst

Annotates(f, lines, s, t) ==
  /\ f \in [1 .. Len(lines) + 1 -> States]
  /\ f[1] = s /\ f[Len(lines) + 1] = t
  /\ \A i \in 1 .. Len(lines) : Flow(lines[i].line, f[i], f[i + 1]) /\ Named(lines[i].line)

IsSeq(lines) == \E S : lines \in Seq(S)

\* A piece of code that leads from what is known before it to what is known
\* after it.
Leads(lines, s, t) == IsSeq(lines) /\ \E f : Annotates(f, lines, s, t)

LEMMA IsSeqFacts ==
  ASSUME NEW x, NEW y, IsSeq(x), IsSeq(y)
  PROVE  /\ Len(x) \in Nat /\ Len(y) \in Nat /\ IsSeq(x \o y)
         /\ Len(x \o y) = Len(x) + Len(y)
         /\ \A i \in 1 .. Len(x) : (x \o y)[i] = x[i]
         /\ \A i \in 1 .. Len(y) : (x \o y)[Len(x) + i] = y[i]
<1>1. PICK S : x \in Seq(S)
  BY DEF IsSeq
<1>2. PICK T : y \in Seq(T)
  BY DEF IsSeq
<1>3. PICK U : U = S \cup T
  OBVIOUS
<1>4. x \in Seq(U) /\ y \in Seq(U)
  BY <1>1, <1>2, <1>3
<1>5. /\ x \o y \in Seq(U) /\ Len(x \o y) = Len(x) + Len(y) /\ Len(x) \in Nat /\ Len(y) \in Nat
      /\ \A i \in 1 .. Len(x) + Len(y) : (x \o y)[i] = IF i <= Len(x) THEN x[i] ELSE y[i - Len(x)]
  BY <1>4, ConcatProperties
<1>6. \A i \in 1 .. Len(x) : (x \o y)[i] = x[i]
  BY <1>5
<1>7. ASSUME NEW i \in 1 .. Len(y) PROVE (x \o y)[Len(x) + i] = y[i]
  <2>1. Len(x) + i \in 1 .. Len(x) + Len(y) /\ ~ (Len(x) + i <= Len(x)) /\ Len(x) + i - Len(x) = i
    BY <1>5
  <2>2. PICK j : j = Len(x) + i
    OBVIOUS
  <2>. QED  BY <1>5, <2>1, <2>2
<1>. QED  BY <1>5, <1>6, <1>7 DEF IsSeq

LEMMA LeadsOn ==
  ASSUME NEW x, NEW y, NEW s, NEW t, NEW u, Leads(x, s, t), Leads(y, t, u)
  PROVE  Leads(x \o y, s, u)
<1>1. PICK f : Annotates(f, x, s, t)
  BY DEF Leads
<1>2. PICK g : Annotates(g, y, t, u)
  BY DEF Leads
<1>3. PICK z : z = x \o y
  OBVIOUS
<1>4. PICK m, n : m = Len(x) /\ n = Len(y)
  OBVIOUS
<1>5. /\ m \in Nat /\ n \in Nat /\ IsSeq(z) /\ Len(z) = m + n
      /\ \A i \in 1 .. m : z[i] = x[i]
      /\ \A i \in 1 .. n : z[m + i] = y[i]
  BY <1>3, <1>4, IsSeqFacts DEF Leads
<1>6. PICK h : h = [i \in 1 .. m + n + 1 |-> IF i <= m THEN f[i] ELSE g[i - m]]
  OBVIOUS
<1>7. /\ f \in [1 .. m + 1 -> States] /\ f[1] = s /\ f[m + 1] = t
      /\ g \in [1 .. n + 1 -> States] /\ g[1] = t /\ g[n + 1] = u
  BY <1>1, <1>2, <1>4 DEF Annotates
<1>8. h \in [1 .. m + n + 1 -> States]
  <2>. SUFFICES ASSUME NEW i \in 1 .. m + n + 1 PROVE (IF i <= m THEN f[i] ELSE g[i - m]) \in States
    BY <1>6
  <2>1. CASE i <= m
    <3>1. i \in 1 .. m + 1
      BY <1>5, <2>1
    <3>. QED  BY <1>7, <2>1, <3>1
  <2>2. CASE ~ (i <= m)
    <3>1. i - m \in 1 .. n + 1
      BY <1>5, <2>2
    <3>. QED  BY <1>7, <2>2, <3>1
  <2>. QED  BY <2>1, <2>2
<1>9. \A i \in 1 .. m + 1 : h[i] = f[i]
  <2>1. \A i \in 1 .. m : h[i] = f[i]
    BY <1>5, <1>6
  <2>2. h[m + 1] = g[1]
    <3>1. PICK k : k = m + 1
      OBVIOUS
    <3>2. k \in 1 .. m + n + 1 /\ ~ (k <= m) /\ k - m = 1
      BY <1>5, <3>1
    <3>3. h[k] = g[k - m]
      BY <1>6, <3>2
    <3>. QED  BY <3>1, <3>2, <3>3
  <2>. QED  BY <1>5, <1>7, <2>1, <2>2
<1>10. ASSUME NEW i \in 1 .. n + 1 PROVE h[m + i] = g[i]
  <2>1. PICK k : k = m + i
    OBVIOUS
  <2>2. k \in 1 .. m + n + 1 /\ ~ (k <= m) /\ k - m = i
    BY <1>5, <2>1
  <2>3. h[k] = g[k - m]
    BY <1>6, <2>2
  <2>. QED  BY <2>1, <2>2, <2>3
<1>11. \A i \in 1 .. m : Flow(z[i].line, h[i], h[i + 1]) /\ Named(z[i].line)
  <2>. SUFFICES ASSUME NEW i \in 1 .. m PROVE Flow(z[i].line, h[i], h[i + 1]) /\ Named(z[i].line)
    OBVIOUS
  <2>1. Flow(x[i].line, f[i], f[i + 1]) /\ Named(x[i].line)
    BY <1>1, <1>4 DEF Annotates
  <2>2. z[i] = x[i] /\ h[i] = f[i] /\ h[i + 1] = f[i + 1]
    BY <1>5, <1>9
  <2>. QED  BY <2>1, <2>2
<1>12. ASSUME NEW i \in 1 .. n
       PROVE  Flow(z[m + i].line, h[m + i], h[m + i + 1]) /\ Named(z[m + i].line)
  <2>1. Flow(y[i].line, g[i], g[i + 1]) /\ Named(y[i].line)
    BY <1>2, <1>4 DEF Annotates
  <2>2. z[m + i] = y[i] /\ h[m + i] = g[i] /\ h[m + (i + 1)] = g[i + 1] /\ m + (i + 1) = m + i + 1
    BY <1>5, <1>10
  <2>. QED  BY <2>1, <2>2
<1>13. \A i \in 1 .. m + n : Flow(z[i].line, h[i], h[i + 1]) /\ Named(z[i].line)
  <2>. SUFFICES ASSUME NEW i \in 1 .. m + n PROVE Flow(z[i].line, h[i], h[i + 1]) /\ Named(z[i].line)
    OBVIOUS
  <2>1. CASE i <= m
    BY <1>5, <1>11, <2>1
  <2>2. CASE ~ (i <= m)
    <3>1. PICK j : j = i - m
      OBVIOUS
    <3>2. j \in 1 .. n /\ m + j = i
      BY <1>5, <2>2, <3>1
    <3>. QED  BY <1>12, <3>2
  <2>. QED  BY <2>1, <2>2
<1>14. h[1] = s /\ h[m + n + 1] = u
  <2>1. 1 \in 1 .. m + 1 /\ n + 1 \in 1 .. n + 1 /\ m + (n + 1) = m + n + 1
    BY <1>5
  <2>. QED  BY <1>7, <1>9, <1>10, <2>1
<1>15. Annotates(h, z, s, u)
  BY <1>5, <1>8, <1>13, <1>14 DEF Annotates
<1>. QED  BY <1>3, <1>5, <1>15 DEF Leads

LEMMA LeadsNowhere ==
  ASSUME NEW x, x = <<>>, NEW s \in States
  PROVE  Leads(x, s, s)
<1>1. x \in Seq({}) /\ Len(x) = 0
  OBVIOUS
<1>2. PICK f : f = [i \in 1 .. 1 |-> s]
  OBVIOUS
<1>3. Annotates(f, x, s, s)
  BY <1>1, <1>2 DEF Annotates
<1>. QED  BY <1>1, <1>3 DEF Leads, IsSeq

LEMMA LeadsBy ==
  ASSUME NEW x, NEW l, x = <<l>>, NEW s \in States, NEW t \in States, Flow(l.line, s, t), Named(l.line)
  PROVE  Leads(x, s, t)
<1>1. x \in Seq({l}) /\ Len(x) = 1 /\ x[1] = l
  OBVIOUS
<1>2. PICK f : f = [i \in 1 .. 2 |-> IF i = 1 THEN s ELSE t]
  OBVIOUS
<1>3. f \in [1 .. 2 -> States] /\ f[1] = s /\ f[2] = t
  BY <1>2
<1>4. Annotates(f, x, s, t)
  BY <1>1, <1>3 DEF Annotates
<1>. QED  BY <1>1, <1>4 DEF Leads, IsSeq

-----------------------------------------------------------------------------
(***************************************************************************)
(* Lines without their places.                                             *)
(***************************************************************************)
Follows(lines, s, t) == IsSeq(lines) /\ \A place : Leads(At(place, lines), s, t)

LEMMA AtFacts ==
  ASSUME NEW x, IsSeq(x), NEW place
  PROVE  /\ IsSeq(At(place, x)) /\ Len(At(place, x)) = Len(x) /\ Len(x) \in Nat
         /\ \A i \in 1 .. Len(x) : At(place, x)[i] = [line |-> x[i], place |-> place]
<1>1. Len(x) \in Nat
  BY DEF IsSeq
<1>2. PICK y : y = At(place, x)
  OBVIOUS
<1>3. y = [i \in 1 .. Len(x) |-> [line |-> x[i], place |-> place]]
  BY <1>2 DEF At
<1>4. PICK S : S = {[line |-> x[i], place |-> place] : i \in 1 .. Len(x)}
  OBVIOUS
<1>5. y \in [1 .. Len(x) -> S]
  BY <1>3, <1>4
<1>6. y \in Seq(S) /\ Len(y) = Len(x)
  BY <1>1, <1>5
<1>. QED  BY <1>1, <1>2, <1>3, <1>6 DEF IsSeq

LEMMA AtConcat ==
  ASSUME NEW x, NEW y, IsSeq(x), IsSeq(y), NEW place
  PROVE  At(place, x \o y) = At(place, x) \o At(place, y)
<1>1. PICK m, n, z : m = Len(x) /\ n = Len(y) /\ z = x \o y
  OBVIOUS
<1>2. PICK a, b, c : a = At(place, x) /\ b = At(place, y) /\ c = At(place, z)
  OBVIOUS
<1>3. /\ m \in Nat /\ n \in Nat /\ IsSeq(z) /\ Len(z) = m + n
      /\ \A i \in 1 .. m : z[i] = x[i]
      /\ \A i \in 1 .. n : z[m + i] = y[i]
  BY <1>1, IsSeqFacts
<1>4. /\ IsSeq(a) /\ Len(a) = m /\ \A i \in 1 .. m : a[i] = [line |-> x[i], place |-> place]
      /\ IsSeq(b) /\ Len(b) = n /\ \A i \in 1 .. n : b[i] = [line |-> y[i], place |-> place]
  BY <1>1, <1>2, AtFacts
<1>5. IsSeq(c) /\ Len(c) = m + n /\ \A i \in 1 .. m + n : c[i] = [line |-> z[i], place |-> place]
  <2>1. /\ IsSeq(At(place, z)) /\ Len(At(place, z)) = Len(z)
        /\ \A i \in 1 .. Len(z) : At(place, z)[i] = [line |-> z[i], place |-> place]
    BY <1>3, AtFacts
  <2>. QED  BY <1>2, <1>3, <2>1
<1>6. PICK d : d = a \o b
  OBVIOUS
<1>7. /\ IsSeq(d) /\ Len(d) = m + n
      /\ \A i \in 1 .. m : d[i] = a[i]
      /\ \A i \in 1 .. n : d[m + i] = b[i]
  <2>1. /\ IsSeq(a \o b) /\ Len(a \o b) = Len(a) + Len(b)
        /\ \A i \in 1 .. Len(a) : (a \o b)[i] = a[i]
        /\ \A i \in 1 .. Len(b) : (a \o b)[Len(a) + i] = b[i]
    BY <1>4, IsSeqFacts
  <2>. QED  BY <1>4, <1>6, <2>1
<1>8. ASSUME NEW i \in 1 .. m + n PROVE c[i] = d[i]
  <2>1. CASE i <= m
    BY <1>3, <1>4, <1>5, <1>7, <2>1
  <2>2. CASE ~ (i <= m)
    <3>1. PICK j : j = i - m
      OBVIOUS
    <3>2. j \in 1 .. n /\ i = m + j
      BY <1>3, <2>2, <3>1
    <3>3. d[i] = b[j] /\ b[j] = [line |-> y[j], place |-> place] /\ y[j] = z[i]
      BY <1>3, <1>4, <1>7, <3>2
    <3>. QED  BY <1>5, <3>3
  <2>. QED  BY <2>1, <2>2
<1>9. PICK S : c \in Seq(S)
  BY <1>5 DEF IsSeq
<1>10. PICK T : d \in Seq(T)
  BY <1>7 DEF IsSeq
<1>11. c \in Seq(S \cup T) /\ d \in Seq(S \cup T)
  BY <1>9, <1>10
<1>12. c = d
  BY <1>5, <1>7, <1>8, <1>11, SeqEqual
<1>. QED  BY <1>1, <1>2, <1>6, <1>12

LEMMA FollowsOn ==
  ASSUME NEW x, NEW y, NEW s, NEW t, NEW u, Follows(x, s, t), Follows(y, t, u)
  PROVE  Follows(x \o y, s, u)
<1>1. IsSeq(x) /\ IsSeq(y) /\ IsSeq(x \o y)
  BY IsSeqFacts DEF Follows
<1>2. ASSUME NEW place PROVE Leads(At(place, x \o y), s, u)
  <2>1. Leads(At(place, x), s, t) /\ Leads(At(place, y), t, u)
    BY DEF Follows
  <2>2. Leads(At(place, x) \o At(place, y), s, u)
    BY <2>1, LeadsOn
  <2>. QED  BY <1>1, <2>2, AtConcat
<1>. QED  BY <1>1, <1>2 DEF Follows

LEMMA FollowsNowhere ==
  ASSUME NEW x, x = <<>>, NEW s \in States
  PROVE  Follows(x, s, s)
<1>1. x \in Seq({}) /\ Len(x) = 0
  OBVIOUS
<1>2. ASSUME NEW place PROVE Leads(At(place, x), s, s)
  <2>1. PICK y : y = At(place, x)
    OBVIOUS
  <2>2. y = <<>>
    BY <1>1, <2>1 DEF At
  <2>. QED  BY <2>1, <2>2, LeadsNowhere
<1>. QED  BY <1>1, <1>2 DEF Follows, IsSeq

LEMMA FollowsBy ==
  ASSUME NEW x, NEW l, x = <<l>>, NEW s \in States, NEW t \in States, Flow(l, s, t), Named(l)
  PROVE  Follows(x, s, t)
<1>1. x \in Seq({l}) /\ Len(x) = 1 /\ x[1] = l
  OBVIOUS
<1>2. ASSUME NEW place PROVE Leads(At(place, x), s, t)
  <2>1. PICK y, m : y = At(place, x) /\ m = [line |-> l, place |-> place]
    OBVIOUS
  <2>2. y = <<m>> /\ m.line = l
    BY <1>1, <2>1 DEF At
  <2>. QED  BY <2>1, <2>2, LeadsBy
<1>. QED  BY <1>1, <1>2 DEF Follows, IsSeq

-----------------------------------------------------------------------------
(***************************************************************************)
(* Expressions.                                                            *)
(***************************************************************************)
LEMMA Conventions ==
  ASSUME cc \in CONVENTIONS
  PROVE  /\ cc.ret = "rax" /\ cc.scratch = "r10" /\ cc.arg \in {"rdi", "rcx"}
         /\ cc.shadow_space \in {0, 32} /\ cc.stack_alignment = 16 /\ cc.ptr_size = 8
         /\ Ret = <<"reg", "rax">> /\ Scratch = <<"reg", "r10">>
         /\ Arg = <<"reg", cc.arg>>
         /\ {"rax", "rdx", "r10", cc.arg} \subseteq M!Registers
         /\ cc.arg \notin {"rax", "rdx", "r10"}
<1>1. cc = CC_MS_64 \/ cc = CC_SYSTEM_V_64
  BY DEF CONVENTIONS, get_calling_convention
<1>2. cc.ret = "rax" /\ cc.scratch = "r10" /\ cc.arg \in {"rdi", "rcx"}
      /\ cc.shadow_space \in {0, 32} /\ cc.stack_alignment = 16 /\ cc.ptr_size = 8
  BY <1>1 DEF CC_MS_64, CC_SYSTEM_V_64
<1>. QED  BY <1>2 DEF Ret, Scratch, Arg, Reg, M!Registers

\* Lines without labels and jumps.
Straight(lines) == \A i \in 1 .. Len(lines) : lines[i].op \notin JUMPS \cup {"label"}

\* Lines that leave a number in the result register, whatever was pushed before.
Computes(lines) ==
  Straight(lines) /\ \A k \in Nat : Follows(lines, Knows(k, {}, FALSE), Knows(k, {"rax"}, FALSE))

LEMMA StraightOn ==
  ASSUME NEW x, NEW y, IsSeq(x), IsSeq(y), Straight(x), Straight(y)
  PROVE  Straight(x \o y)
<1>1. PICK z, m, n : z = x \o y /\ m = Len(x) /\ n = Len(y)
  OBVIOUS
<1>2. /\ m \in Nat /\ n \in Nat /\ Len(z) = m + n
      /\ \A i \in 1 .. m : z[i] = x[i]
      /\ \A i \in 1 .. n : z[m + i] = y[i]
  BY <1>1, IsSeqFacts
<1>3. ASSUME NEW i \in 1 .. m + n PROVE z[i].op \notin JUMPS \cup {"label"}
  <2>1. CASE i <= m
    BY <1>1, <1>2, <2>1 DEF Straight
  <2>2. CASE ~ (i <= m)
    <3>1. PICK j : j = i - m
      OBVIOUS
    <3>2. j \in 1 .. n /\ i = m + j
      BY <1>2, <2>2, <3>1
    <3>3. z[i] = y[j]
      BY <1>2, <3>2
    <3>. QED  BY <1>1, <3>2, <3>3 DEF Straight
  <2>. QED  BY <2>1, <2>2
<1>. QED  BY <1>1, <1>2, <1>3 DEF Straight

LEMMA StraightOne ==
  ASSUME NEW x, NEW l, x = <<l>>, l.op \notin JUMPS \cup {"label"}
  PROVE  Straight(x) /\ IsSeq(x)
<1>1. x \in Seq({l}) /\ Len(x) = 1 /\ x[1] = l
  OBVIOUS
<1>2. IsSeq(x)
  BY <1>1 DEF IsSeq
<1>. QED  BY <1>1, <1>2 DEF Straight

LEMMA Pair ==
  ASSUME NEW a, NEW b
  PROVE  <<a>> \o <<b>> = <<a, b>>
<1>1. PICK S, x, y, z : S = {a, b} /\ x = <<a>> /\ y = <<b>> /\ z = <<a, b>>
  OBVIOUS
<1>2. /\ x \in Seq(S) /\ Len(x) = 1 /\ x[1] = a
      /\ y \in Seq(S) /\ Len(y) = 1 /\ y[1] = b
      /\ z \in Seq(S) /\ Len(z) = 2 /\ z[1] = a /\ z[2] = b
  BY <1>1
<1>3. PICK w : w = x \o y
  OBVIOUS
<1>4. w \in Seq(S) /\ Len(w) = 2 /\ w[1] = a /\ w[2] = b
  <2>1. /\ x \o y \in Seq(S) /\ Len(x \o y) = Len(x) + Len(y)
        /\ \A i \in 1 .. Len(x) + Len(y) : (x \o y)[i] = IF i <= Len(x) THEN x[i] ELSE y[i - Len(x)]
    BY <1>2, ConcatProperties
  <2>. QED  BY <1>2, <1>3, <2>1
<1>5. w = z
  BY <1>2, <1>4, SeqEqual
<1>. QED  BY <1>1, <1>3, <1>5

\* What the lines of an instruction on registers are.
LEMMA LineFacts ==
  ASSUME cc \in CONVENTIONS
  PROVE  /\ Ret[1] = "reg" /\ Ret[2] = "rax" /\ Scratch[1] = "reg" /\ Scratch[2] = "r10"
         /\ Arg[1] = "reg" /\ Arg[2] = cc.arg /\ None[1] = "none"
         /\ \A op, d, s : Line(op, d, s).op = op /\ Line(op, d, s).dst = d /\ Line(op, d, s).src = s
         /\ \A d, s : Mov(d, s).op = "mov" /\ Mov(d, s).dst = d /\ Mov(d, s).src = s
BY Conventions DEF Line, Mov, None

LEMMA PrimaryComputes ==
  ASSUME NEW q, Fit(q), cc \in CONVENTIONS, NEW n, Gram(n, "PRIMARY")
  PROVE  Computes(Primary(n))
<1>1. PICK c : c = First(n)
  OBVIOUS
<1>2. /\ IsToken(ast, c) /\ TokenAt(c) \in {"NUMBER", "IDENT"}
      /\ TokenAt(c) = "IDENT" => ast[c].value \in F!VariablePlaces
  BY <1>1, Kinds DEF Fit, ExpressionFit, Tok
<1>3. PICK v : v = IF TokenAt(c) = "NUMBER" THEN Number(TextAt(c)) ELSE Var(TextAt(c))
  OBVIOUS
<1>4. Primary(n) = <<Mov(Ret, v)>>
  BY <1>1, <1>2, <1>3 DEF Primary, Is, First
<1>5. PICK l : l = Mov(Ret, v)
  OBVIOUS
<1>6. l.op = "mov" /\ l.dst = <<"reg", "rax">> /\ l.src = v /\ l.dst[1] = "reg" /\ l.dst[2] = "rax"
  BY <1>5, Conventions DEF Mov, Line
<1>7. /\ v[1] \in {"number", "_var_"}
      /\ v[1] = "_var_" => v[2] \in {text[p] : p \in F!VariablePlaces}
  <2>1. CASE TokenAt(c) = "NUMBER"
    BY <1>3, <2>1 DEF Number
  <2>2. CASE TokenAt(c) # "NUMBER"
    BY <1>2, <1>3, <2>2 DEF Var, TextAt
  <2>. QED  BY <2>1, <2>2
<1>8. Named(l)
  BY <1>6, <1>7 DEF Named
<1>9. ASSUME NEW k \in Nat PROVE Follows(Primary(n), Knows(k, {}, FALSE), Knows(k, {"rax"}, FALSE))
  <2>1. Knows(k, {}, FALSE) \in States /\ Knows(k, {"rax"}, FALSE) \in States
    BY DEF Knows, States, M!Registers
  <2>2. Flow(l, Knows(k, {}, FALSE), Knows(k, {"rax"}, FALSE))
    BY <1>6, <1>7 DEF Flow, Knows, M!Registers
  <2>. QED  BY <1>4, <1>5, <1>8, <2>1, <2>2, FollowsBy
<1>10. Straight(Primary(n))
  BY <1>4, <1>5, <1>6, StraightOne DEF JUMPS
<1>. QED  BY <1>9, <1>10 DEF Computes

LEMMA UnaryComputes ==
  ASSUME NEW q, Fit(q), cc \in CONVENTIONS, NEW n, Gram(n, "UNARY")
  PROVE  Computes(Unary[n])
<1>1. PICK c, d : c = First(n) /\ d = After(c)
  OBVIOUS
<1>2. n \in Nat /\ n \in Nodes /\ Forward
  BY Kinds DEF Nodes, Fit, Forward
<1>3. Gram(c, "PRIMARY") \/ (Tok(c, SIGNS) /\ Gram(d, "PRIMARY"))
  BY <1>1, <1>2 DEF Fit, ExpressionFit, Second, First, After
<1>4. Unary[n] = CASE ~ IsGrammar(ast, n) \/ ast[n].value # "UNARY" -> <<>>
        [] IsGrammar(ast, c) -> Primary(c)
        [] Is(c, "MINUS") /\ d # NO_NODE ->
             Primary(d) \o <<Line("neg", Ret, None)>>
        [] Is(c, "PLUS") /\ d # NO_NODE -> Primary(d)
        [] OTHER -> <<>>
  BY <1>1, <1>2 DEF Unary, First, After
<1>5. IsGrammar(ast, n) /\ ast[n].value = "UNARY"
  BY DEF Gram
<1>6. CASE Gram(c, "PRIMARY")
  <2>1. IsGrammar(ast, c) /\ ~ Is(c, "MINUS") /\ ~ Is(c, "PLUS")
    BY <1>6, Kinds DEF Gram, Is
  <2>2. Unary[n] = Primary(c)
    BY <1>4, <1>5, <2>1
  <2>. QED  BY <1>6, <2>2, PrimaryComputes
<1>7. CASE Tok(c, SIGNS) /\ Gram(d, "PRIMARY")
  <2>1. /\ ~ IsGrammar(ast, c) /\ IsToken(ast, c) /\ d # NO_NODE
        /\ TokenAt(c) = "PLUS" \/ TokenAt(c) = "MINUS"
    BY <1>7, Kinds DEF Tok, SIGNS
  <2>2. Computes(Primary(d))
    BY <1>7, PrimaryComputes
  <2>3. CASE TokenAt(c) = "PLUS"
    <3>1. Unary[n] = Primary(d)
      BY <1>4, <1>5, <2>1, <2>3 DEF Is
    <3>. QED  BY <2>2, <3>1
  <2>4. CASE TokenAt(c) = "MINUS"
    <3>1. PICK l, x, y : l = Line("neg", Ret, None) /\ x = Primary(d) /\ y = <<l>>
      OBVIOUS
    <3>2. Unary[n] = x \o y
      BY <1>4, <1>5, <2>1, <2>4, <3>1 DEF Is
    <3>3. l.op = "neg" /\ l.dst[1] = "reg" /\ l.dst[2] = "rax" /\ l.src[1] = "none"
      BY <3>1, LineFacts
    <3>4. ASSUME NEW k \in Nat PROVE Follows(x \o y, Knows(k, {}, FALSE), Knows(k, {"rax"}, FALSE))
      <4>1. Knows(k, {"rax"}, FALSE) \in States
        BY DEF Knows, States, M!Registers
      <4>2. Flow(l, Knows(k, {"rax"}, FALSE), Knows(k, {"rax"}, FALSE)) /\ Named(l)
        BY <3>3 DEF Flow, Knows, Number_, Named
      <4>3. Follows(y, Knows(k, {"rax"}, FALSE), Knows(k, {"rax"}, FALSE))
        BY <3>1, <4>1, <4>2, FollowsBy
      <4>4. Follows(x, Knows(k, {}, FALSE), Knows(k, {"rax"}, FALSE))
        BY <2>2, <3>1 DEF Computes
      <4>. QED  BY <4>3, <4>4, FollowsOn
    <3>5. IsSeq(x) /\ Straight(x)
      <4>1. 0 \in Nat
        OBVIOUS
      <4>. QED  BY <2>2, <3>1, <4>1 DEF Computes, Follows
    <3>6. IsSeq(y) /\ Straight(y)
      BY <3>1, <3>3, StraightOne DEF JUMPS
    <3>7. Straight(x \o y)
      BY <3>5, <3>6, StraightOn
    <3>. QED  BY <3>2, <3>4, <3>7 DEF Computes
  <2>. QED  BY <2>1, <2>3, <2>4
<1>. QED  BY <1>3, <1>6, <1>7

\* The second operand is computed with the first on the stack.
LEMMA SecondOperandFollows ==
  ASSUME cc \in CONVENTIONS, NEW x, Computes(x)
  PROVE  /\ IsSeq(SecondOperand(x)) /\ Straight(SecondOperand(x))
         /\ \A k \in Nat : Follows(SecondOperand(x), Knows(k, {"rax"}, FALSE), Knows(k, {"rax", "r10"}, FALSE))
<1>1. PICK a, b, c : a = Line("push", Ret, None) /\ b = Mov(Scratch, Ret) /\ c = Line("pop", Ret, None)
  OBVIOUS
<1>2. PICK u, v, w : u = <<a>> /\ v = <<b>> /\ w = <<c>>
  OBVIOUS
<1>3. /\ a.op = "push" /\ a.dst[1] = "reg" /\ a.dst[2] = "rax" /\ a.src[1] = "none"
      /\ b.op = "mov" /\ b.dst[1] = "reg" /\ b.dst[2] = "r10" /\ b.src[1] = "reg" /\ b.src[2] = "rax"
      /\ c.op = "pop" /\ c.dst[1] = "reg" /\ c.dst[2] = "rax" /\ c.src[1] = "none"
  BY <1>1, LineFacts
<1>4. IsSeq(u) /\ Straight(u) /\ IsSeq(v) /\ Straight(v) /\ IsSeq(w) /\ Straight(w)
  BY <1>2, <1>3, StraightOne DEF JUMPS
<1>5. IsSeq(x) /\ Straight(x)
  <2>1. 0 \in Nat
    OBVIOUS
  <2>. QED  BY <2>1 DEF Computes, Follows
<1>6. PICK y, z : y = u \o x /\ z = v \o w
  OBVIOUS
<1>7. SecondOperand(x) = y \o z
  <2>1. z = <<b, c>>
    BY <1>2, <1>6, Pair
  <2>. QED  BY <1>1, <1>2, <1>6, <2>1 DEF SecondOperand
<1>8. IsSeq(y) /\ IsSeq(z) /\ Straight(y) /\ Straight(z)
  BY <1>4, <1>5, <1>6, IsSeqFacts, StraightOn
<1>9. IsSeq(y \o z) /\ Straight(y \o z)
  BY <1>8, IsSeqFacts, StraightOn
<1>10. ASSUME NEW k \in Nat
       PROVE  Follows(SecondOperand(x), Knows(k, {"rax"}, FALSE), Knows(k, {"rax", "r10"}, FALSE))
  <2>. DEFINE s1 == Knows(k, {"rax"}, FALSE)
              s2 == Knows(k + 1, {}, FALSE)
              s3 == Knows(k + 1, {"rax"}, FALSE)
              s4 == Knows(k + 1, {"r10"}, FALSE)
              s5 == Knows(k, {"rax", "r10"}, FALSE)
  <2>1. s1 \in States /\ s2 \in States /\ s3 \in States /\ s4 \in States /\ s5 \in States
    BY DEF Knows, States, M!Registers
  <2>2. Flow(a, s1, s2) /\ Flow(b, s3, s4) /\ Flow(c, s4, s5)
    BY <1>3 DEF Flow, Knows, Number_, M!Registers
  <2>3. Named(a) /\ Named(b) /\ Named(c)
    BY <1>3 DEF Named
  <2>4. Follows(x, s2, s3)
    <3>1. k + 1 \in Nat
      OBVIOUS
    <3>. QED  BY <3>1 DEF Computes
  <2>. HIDE DEF s1, s2, s3, s4, s5
  <2>5. Follows(u, s1, s2) /\ Follows(v, s3, s4) /\ Follows(w, s4, s5)
    BY <1>2, <2>1, <2>2, <2>3, FollowsBy
  <2>6. Follows(y, s1, s3) /\ Follows(z, s3, s5)
    BY <1>6, <2>4, <2>5, FollowsOn
  <2>7. Follows(y \o z, s1, s5)
    BY <2>6, FollowsOn
  <2>. QED  BY <1>7, <2>7 DEF s1, s5
<1>. QED  BY <1>7, <1>9, <1>10

LEMMA OperationFollows ==
  ASSUME cc \in CONVENTIONS, NEW op \in SIGNS \cup SCALES
  PROVE  /\ IsSeq(Operation[op]) /\ Straight(Operation[op])
         /\ \A k \in Nat : Follows(Operation[op], Knows(k, {"rax", "r10"}, FALSE), Knows(k, {"rax"}, FALSE))
<1>1. ASSUME NEW k \in Nat, NEW known \in SUBSET M!Registers
      PROVE  Knows(k, known, FALSE) \in States
  BY DEF Knows, States
<1>2. ASSUME op # "DIV"
      PROVE  /\ IsSeq(Operation[op]) /\ Straight(Operation[op])
             /\ \A k \in Nat : Follows(Operation[op], Knows(k, {"rax", "r10"}, FALSE), Knows(k, {"rax"}, FALSE))
  <2>1. PICK o \in {"add", "sub", "imul"} : Operation[op] = <<Line(o, Ret, Scratch)>>
    BY <1>2 DEF Operation, SIGNS, SCALES
  <2>2. PICK l : l = Line(o, Ret, Scratch)
    OBVIOUS
  <2>3. l.op = o /\ l.dst[1] = "reg" /\ l.dst[2] = "rax" /\ l.src[1] = "reg" /\ l.src[2] = "r10"
    BY <2>2, Conventions DEF Line
  <2>4. \A k \in Nat : Flow(l, Knows(k, {"rax", "r10"}, FALSE), Knows(k, {"rax"}, FALSE))
    BY <2>1, <2>3 DEF Flow, Knows, Number_
  <2>5. Named(l)
    BY <2>3 DEF Named
  <2>6. l.op \notin JUMPS \cup {"label"}
    BY <2>1, <2>3 DEF JUMPS
  <2>7. \A k \in Nat : Follows(Operation[op], Knows(k, {"rax", "r10"}, FALSE), Knows(k, {"rax"}, FALSE))
    <3>1. {"rax", "r10"} \in SUBSET M!Registers /\ {"rax"} \in SUBSET M!Registers
      BY DEF M!Registers
    <3>. QED  BY <1>1, <2>1, <2>2, <2>4, <2>5, <3>1, FollowsBy
  <2>. QED  BY <2>1, <2>2, <2>6, <2>7, StraightOne
<1>3. ASSUME op = "DIV"
      PROVE  /\ IsSeq(Operation[op]) /\ Straight(Operation[op])
             /\ \A k \in Nat : Follows(Operation[op], Knows(k, {"rax", "r10"}, FALSE), Knows(k, {"rax"}, FALSE))
  <2>1. PICK a, b : a = Line("cqo", None, None) /\ b = Line("idiv", Scratch, None)
    OBVIOUS
  <2>2. PICK u, v : u = <<a>> /\ v = <<b>>
    OBVIOUS
  <2>3. Operation[op] = u \o v
    BY <1>3, <2>1, <2>2, Pair DEF Operation
  <2>4. /\ a.op = "cqo" /\ a.dst[1] = "none" /\ a.src[1] = "none"
        /\ b.op = "idiv" /\ b.dst[1] = "reg" /\ b.dst[2] = "r10" /\ b.src[1] = "none"
    BY <2>1, LineFacts
  <2>5. IsSeq(u) /\ Straight(u) /\ IsSeq(v) /\ Straight(v)
    BY <2>2, <2>4, StraightOne DEF JUMPS
  <2>6. Named(a) /\ Named(b)
    BY <2>4 DEF Named
  <2>7. ASSUME NEW k \in Nat
        PROVE  Follows(Operation[op], Knows(k, {"rax", "r10"}, FALSE), Knows(k, {"rax"}, FALSE))
    <3>. DEFINE s1 == Knows(k, {"rax", "r10"}, FALSE)
                s2 == Knows(k, {"rax", "rdx", "r10"}, FALSE)
                s3 == Knows(k, {"rax"}, FALSE)
    <3>1. s1 \in States /\ s2 \in States /\ s3 \in States
      BY DEF Knows, States, M!Registers
    <3>2. Flow(a, s1, s2) /\ Flow(b, s2, s3)
      BY <2>4 DEF Flow, Knows, Number_
    <3>. HIDE DEF s1, s2, s3
    <3>3. Follows(u, s1, s2) /\ Follows(v, s2, s3)
      BY <2>2, <2>6, <3>1, <3>2, FollowsBy
    <3>4. Follows(u \o v, s1, s3)
      BY <3>3, FollowsOn
    <3>. QED  BY <2>3, <3>4 DEF s1, s3
  <2>8. IsSeq(u \o v) /\ Straight(u \o v)
    BY <2>5, IsSeqFacts, StraightOn
  <2>. QED  BY <2>3, <2>7, <2>8
<1>. QED  BY <1>2, <1>3

-----------------------------------------------------------------------------
(***************************************************************************)
(* Chains of operands.                                                     *)
(***************************************************************************)
RestFrom(f, Operand, operators, op) ==
  IF ~ IsToken(ast, op) \/ After(op) = NO_NODE THEN <<>>
  ELSE SecondOperand(Operand[After(op)])
         \o IF TokenAt(op) \in operators
              THEN Operation[TokenAt(op)] \o f[After(After(op))]
              ELSE <<>>

\* What the function in Chain is.
RestIs(f, Operand, operators) ==
  f = [op \in Nat |->
        LET right == NextSibling(ast, op)
        IN  IF ~ IsToken(ast, op) \/ right = NO_NODE THEN <<>>
            ELSE SecondOperand(Operand[right])
                   \o IF TokenAt(op) \in operators
                        THEN Operation[TokenAt(op)] \o f[NextSibling(ast, right)]
                        ELSE <<>>]

RestIsRight ==
  \A f, Operand, operators :
    RestIs(f, Operand, operators) <=> f = [op \in Nat |-> RestFrom(f, Operand, operators, op)]

LEMMA RestUnfolds == RestIsRight
BY Zenon DEF RestIsRight, RestIs, RestFrom, After

LEMMA RestAhead ==
  ASSUME Forward, NEW Operand, NEW operators, NEW n, NEW f, NEW g,
         \A m \in {0} \cup (n + 1 .. Len(ast)) : f[m] = g[m]
  PROVE  RestFrom(f, Operand, operators, n) = RestFrom(g, Operand, operators, n)
<1>1. CASE ~ IsToken(ast, n) \/ After(n) = 0
  BY <1>1, Kinds DEF RestFrom
<1>2. CASE IsToken(ast, n) /\ After(n) # 0
  <2>1. n \in Nodes /\ After(n) \in n + 1 .. Len(ast) /\ Len(ast) \in Nat
    BY <1>2, Kinds DEF Forward
  <2>2. After(n) \in Nodes
    BY <2>1 DEF Nodes
  <2>3. After(After(n)) \in {0} \cup (After(n) + 1 .. Len(ast))
    BY <2>2 DEF Forward
  <2>4. After(After(n)) \in {0} \cup (n + 1 .. Len(ast))
    BY <2>1, <2>3 DEF Nodes
  <2>5. f[After(After(n))] = g[After(After(n))]
    BY <2>4
  <2>. QED  BY <1>2, <2>5 DEF RestFrom
<1>. QED  BY <1>1, <1>2

LEMMA RestExists ==
  ASSUME Forward, NEW Operand, NEW operators
  PROVE  \E f : RestIs(f, Operand, operators)
<1>. DEFINE Upto(f, k) ==
              f = [n \in Nat |-> IF n \in Nodes /\ n < k THEN <<>> ELSE RestFrom(f, Operand, operators, n)]
            S == {k \in Nat : \E f : Upto(f, k)}
<1>1. PICK N : N = Len(ast)
  OBVIOUS
<1>2. N \in Nat /\ Nodes = 1 .. N
  BY <1>1 DEF Forward, Nodes
<1>3. N + 1 \in S
  <2>1. PICK f : f = [n \in Nat |-> <<>>]
    OBVIOUS
  <2>2. ASSUME NEW n \in Nat
        PROVE  (IF n \in Nodes /\ n < N + 1 THEN <<>> ELSE RestFrom(f, Operand, operators, n)) = <<>>
    <3>1. CASE n \in Nodes
      BY <1>2, <3>1
    <3>2. CASE n \notin Nodes
      <4>1. ~ IsToken(ast, n)
        BY <3>2, Kinds
      <4>. QED  BY <3>2, <4>1 DEF RestFrom
    <3>. QED  BY <3>1, <3>2
  <2>3. Upto(f, N + 1)
    BY <2>1, <2>2
  <2>. QED  BY <1>2, <2>3
<1>4. ASSUME NEW k \in 1 .. N, k + 1 \in S PROVE k \in S
  <2>1. PICK f : Upto(f, k + 1)
    BY <1>4
  <2>2. PICK v : v = RestFrom(f, Operand, operators, k)
    OBVIOUS
  <2>3. PICK g : g = [n \in Nat |-> IF n = k THEN v ELSE f[n]]
    OBVIOUS
  <2>4. k \in Nat /\ \A n \in Nat : n # k => g[n] = f[n]
    BY <1>2, <2>3
  <2>5. ASSUME NEW n \in Nat
        PROVE  g[n] = IF n \in Nodes /\ n < k THEN <<>> ELSE RestFrom(g, Operand, operators, n)
    <3>1. f[n] = IF n \in Nodes /\ n < k + 1 THEN <<>> ELSE RestFrom(f, Operand, operators, n)
      BY <2>1
    <3>2. CASE n \in Nodes /\ n < k
      <4>1. n # k /\ n < k + 1
        BY <1>2, <3>2
      <4>. QED  BY <2>4, <3>1, <3>2, <4>1
    <3>3. CASE n \in Nodes /\ ~ (n < k)
      <4>1. \A m \in {0} \cup (n + 1 .. Len(ast)) : m \in Nat /\ m # k
        BY <1>1, <1>2, <3>3
      <4>2. RestFrom(g, Operand, operators, n) = RestFrom(f, Operand, operators, n)
        BY <2>4, <4>1, RestAhead
      <4>3. g[n] = RestFrom(f, Operand, operators, n)
        <5>1. CASE n = k
          BY <2>2, <2>3, <5>1
        <5>2. CASE n # k
          <6>1. ~ (n < k + 1)
            BY <1>2, <3>3, <5>2
          <6>. QED  BY <2>4, <3>1, <5>2, <6>1
        <5>. QED  BY <5>1, <5>2
      <4>. QED  BY <3>3, <4>2, <4>3
    <3>4. CASE n \notin Nodes
      <4>1. ~ IsToken(ast, n) /\ n # k
        BY <1>2, <3>4, Kinds
      <4>2. RestFrom(g, Operand, operators, n) = RestFrom(f, Operand, operators, n)
        BY <4>1 DEF RestFrom
      <4>. QED  BY <2>4, <3>1, <3>4, <4>1, <4>2
    <3>. QED  BY <3>2, <3>3, <3>4
  <2>6. Upto(g, k)
    BY <2>3, <2>5
  <2>. QED  BY <2>4, <2>6
<1>5. \A k \in 1 .. N + 1 : k \in S
  <2>. HIDE DEF S
  <2>. QED  BY <1>2, <1>3, <1>4, Backwards
<1>6. PICK f : Upto(f, 1)
  BY <1>2, <1>5
<1>7. \A n \in Nat : ~ (n \in Nodes /\ n < 1)
  BY <1>2
<1>8. f = [n \in Nat |-> RestFrom(f, Operand, operators, n)]
  BY <1>6, <1>7
<1>. QED  BY <1>8, RestUnfolds DEF RestIsRight

\* Lines that keep a number in the result register.
Keeps(lines) ==
  /\ IsSeq(lines) /\ Straight(lines)
  /\ \A k \in Nat : Follows(lines, Knows(k, {"rax"}, FALSE), Knows(k, {"rax"}, FALSE))

LEMMA KnowsStates ==
  \A k \in Nat : /\ Knows(k, {}, FALSE) \in States /\ Knows(k, {"rax"}, FALSE) \in States
                 /\ Knows(k, {"rax", "r10"}, FALSE) \in States
BY DEF Knows, States, M!Registers

LEMMA NothingKept == ASSUME NEW x, x = <<>> PROVE Keeps(x)
<1>1. x \in Seq({}) /\ Len(x) = 0
  OBVIOUS
<1>2. IsSeq(x)
  BY <1>1 DEF IsSeq
<1>3. Straight(x)
  BY <1>1 DEF Straight
<1>. QED  BY <1>2, <1>3, KnowsStates, FollowsNowhere DEF Keeps

LEMMA ChainComputes ==
  ASSUME Forward, cc \in CONVENTIONS, NEW Operand, NEW operators \in SUBSET (SIGNS \cup SCALES), NEW rule,
         \A m : Gram(m, rule) => Computes(Operand[m]),
         \A m : Gram(m, rule) =>
           After(m) = 0 \/ (Tok(After(m), operators) /\ Gram(After(After(m)), rule)),
         NEW n, Gram(First(n), rule)
  PROVE  Computes(Chain(Operand, operators, n))
<1>. DEFINE r == CHOOSE f : RestIs(f, Operand, operators)
<1>2. RestIs(r, Operand, operators)
  <2>1. \E f : RestIs(f, Operand, operators)
    BY RestExists
  <2>. QED  BY <2>1, Zenon
<1>3. Chain(Operand, operators, n) =
        IF First(n) = NO_NODE THEN <<>> ELSE Operand[First(n)] \o r[After(First(n))]
  BY Zenon DEF Chain, RestIs, First, After
<1>. HIDE DEF r
<1>4. r = [op \in Nat |-> RestFrom(r, Operand, operators, op)]
  BY <1>2, RestUnfolds DEF RestIsRight
<1>5. PICK N : N = Len(ast) /\ N \in Nat /\ Nodes = 1 .. N
  BY DEF Forward, Nodes
<1>6. \A m \in Nat : r[m] = RestFrom(r, Operand, operators, m)
  BY <1>4
<1>. DEFINE S == {k \in Nat : \A x \in Nodes : k <= x /\ Gram(x, rule) => Keeps(r[After(x)])}
<1>7. N + 1 \in S
  BY <1>5
<1>8. ASSUME NEW k \in 1 .. N, k + 1 \in S PROVE k \in S
  <2>1. ASSUME NEW x \in Nodes, x = k, Gram(x, rule) PROVE Keeps(r[After(x)])
    <3>1. CASE After(x) = 0
      <4>1. r[0] = <<>>
        <5>1. 0 \in Nat /\ ~ IsToken(ast, 0)
          BY Kinds
        <5>. QED  BY <1>6, <5>1 DEF RestFrom
      <4>. QED  BY <3>1, <4>1, NothingKept
    <3>2. CASE After(x) # 0
      <4>1. PICK op, right : op = After(x) /\ right = After(op)
        OBVIOUS
      <4>2. Tok(op, operators) /\ Gram(right, rule)
        BY <2>1, <3>2, <4>1
      <4>3. op \in Nodes /\ right \in Nodes /\ right # 0 /\ op > x /\ right > op
        BY <1>5, <2>1, <3>2, <4>1, <4>2, Kinds DEF Forward
      <4>4. Keeps(r[After(right)])
        BY <1>5, <1>8, <2>1, <4>2, <4>3
      <4>5. r[op] = SecondOperand(Operand[right]) \o (Operation[TokenAt(op)] \o r[After(right)])
        <5>1. op \in Nat /\ IsToken(ast, op) /\ TokenAt(op) \in operators
          BY <1>5, <4>2, <4>3 DEF Tok
        <5>2. r[op] = RestFrom(r, Operand, operators, op)
          BY <1>6, <5>1
        <5>. QED  BY <4>1, <4>3, <5>1, <5>2, Kinds DEF RestFrom
      <4>6. PICK a, b, c : a = SecondOperand(Operand[right]) /\ b = Operation[TokenAt(op)] /\ c = r[After(right)]
        OBVIOUS
      <4>7. /\ IsSeq(a) /\ Straight(a)
            /\ \A j \in Nat : Follows(a, Knows(j, {"rax"}, FALSE), Knows(j, {"rax", "r10"}, FALSE))
        BY <4>2, <4>6, SecondOperandFollows
      <4>8. /\ IsSeq(b) /\ Straight(b)
            /\ \A j \in Nat : Follows(b, Knows(j, {"rax", "r10"}, FALSE), Knows(j, {"rax"}, FALSE))
        <5>1. TokenAt(op) \in SIGNS \cup SCALES
          BY <4>2 DEF Tok
        <5>. QED  BY <4>6, <5>1, OperationFollows
      <4>9. /\ IsSeq(c) /\ Straight(c)
            /\ \A j \in Nat : Follows(c, Knows(j, {"rax"}, FALSE), Knows(j, {"rax"}, FALSE))
        BY <4>4, <4>6 DEF Keeps
      <4>10. IsSeq(b \o c) /\ Straight(b \o c)
        BY <4>8, <4>9, IsSeqFacts, StraightOn
      <4>11. IsSeq(a \o (b \o c)) /\ Straight(a \o (b \o c))
        BY <4>7, <4>10, IsSeqFacts, StraightOn
      <4>12. \A j \in Nat : Follows(b \o c, Knows(j, {"rax", "r10"}, FALSE), Knows(j, {"rax"}, FALSE))
        BY <4>8, <4>9, FollowsOn
      <4>13. \A j \in Nat : Follows(a \o (b \o c), Knows(j, {"rax"}, FALSE), Knows(j, {"rax"}, FALSE))
        BY <4>7, <4>12, FollowsOn
      <4>. QED  BY <4>1, <4>5, <4>6, <4>11, <4>13 DEF Keeps
    <3>. QED  BY <3>1, <3>2
  <2>2. ASSUME NEW x \in Nodes, k <= x, Gram(x, rule) PROVE Keeps(r[After(x)])
    <3>1. CASE x = k
      BY <2>1, <2>2, <3>1
    <3>2. CASE x # k
      <4>1. k + 1 <= x
        BY <1>5, <2>2, <3>2
      <4>. QED  BY <1>8, <2>2, <4>1
    <3>. QED  BY <3>1, <3>2
  <2>. QED  BY <1>5, <2>2
<1>9. 1 \in S
  <2>1. \A k \in 1 .. N + 1 : k \in S
    <3>. HIDE DEF S
    <3>. QED  BY <1>5, <1>7, <1>8, Backwards
  <2>. QED  BY <1>5, <2>1
<1>10. First(n) \in Nodes /\ First(n) # 0 /\ First(n) >= 1
  BY <1>5, Kinds
<1>11. PICK a, b : a = Operand[First(n)] /\ b = r[After(First(n))]
  OBVIOUS
<1>12. Keeps(b)
  BY <1>9, <1>10, <1>11
<1>13. Computes(a)
  BY <1>11
<1>14. Chain(Operand, operators, n) = a \o b
  BY <1>3, <1>10, <1>11, Kinds
<1>15. IsSeq(a) /\ Straight(a) /\ IsSeq(b) /\ Straight(b)
  <2>1. 0 \in Nat
    OBVIOUS
  <2>. QED  BY <1>12, <1>13, <2>1 DEF Computes, Follows, Keeps
<1>16. Straight(a \o b)
  BY <1>15, StraightOn
<1>17. \A j \in Nat : Follows(a \o b, Knows(j, {}, FALSE), Knows(j, {"rax"}, FALSE))
  BY <1>12, <1>13, FollowsOn DEF Computes, Keeps
<1>. QED  BY <1>14, <1>16, <1>17 DEF Computes

LEMMA TermComputes ==
  ASSUME NEW q, Fit(q), cc \in CONVENTIONS, NEW n, Gram(n, "TERM")
  PROVE  Computes(Term[n])
<1>1. n \in Nat /\ n \in Nodes /\ Forward
  BY Kinds DEF Nodes, Fit, Forward
<1>2. Term[n] = Chain(Unary, SCALES, n)
  BY <1>1 DEF Term, SCALES
<1>3. \A m : Gram(m, "UNARY") => Computes(Unary[m])
  BY UnaryComputes
<1>4. \A m : Gram(m, "UNARY") => After(m) = 0 \/ (Tok(After(m), SCALES) /\ Gram(After(After(m)), "UNARY"))
  BY Kinds DEF Fit, ExpressionFit
<1>5. Gram(First(n), "UNARY")
  BY <1>1 DEF Fit, ExpressionFit
<1>6. SCALES \in SUBSET (SIGNS \cup SCALES)
  OBVIOUS
<1>. QED  BY <1>1, <1>2, <1>3, <1>4, <1>5, <1>6, ChainComputes

LEMMA ExpressionComputes ==
  ASSUME NEW q, Fit(q), cc \in CONVENTIONS, NEW n, Gram(n, "EXPRESSION")
  PROVE  Computes(Expression(n))
<1>1. n \in Nodes /\ Forward
  BY Kinds DEF Fit
<1>2. Expression(n) = Chain(Term, SIGNS, n)
  BY DEF Expression, SIGNS
<1>3. \A m : Gram(m, "TERM") => Computes(Term[m])
  BY TermComputes
<1>4. \A m : Gram(m, "TERM") => After(m) = 0 \/ (Tok(After(m), SIGNS) /\ Gram(After(After(m)), "TERM"))
  BY Kinds DEF Fit, ExpressionFit
<1>5. Gram(First(n), "TERM")
  BY <1>1 DEF Fit, ExpressionFit
<1>6. SIGNS \in SUBSET (SIGNS \cup SCALES)
  OBVIOUS
<1>. QED  BY <1>1, <1>2, <1>3, <1>4, <1>5, <1>6, ChainComputes

-----------------------------------------------------------------------------
(***************************************************************************)
(* The functions over the statements of a block.                           *)
(***************************************************************************)
LEMMA StatementNodes == \A n : IsStatementNode(n) <=> Gram(n, "STATEMENT")
BY DEF IsStatementNode, IsStatement, Gram

LEMMA Ahead ==
  ASSUME Forward, NEW n \in Nodes
  PROVE  /\ n \in Nat /\ Len(ast) \in Nat
         /\ \A m \in {First(n), Second(n), Third(n), Fourth(n), After(n)} :
              m \in Nat /\ (m = 0 \/ (m \in Nodes /\ m > n))
<1>1. Len(ast) \in Nat /\ Nodes = 1 .. Len(ast) /\ n \in Nat
  BY DEF Forward, Nodes
<1>2. First(n) \in Nat /\ (First(n) = 0 \/ (First(n) \in Nodes /\ First(n) > n))
  BY <1>1 DEF Forward
<1>3. After(n) \in Nat /\ (After(n) = 0 \/ (After(n) \in Nodes /\ After(n) > n))
  BY <1>1 DEF Forward
<1>4. ASSUME NEW m, m \in Nat, m = 0 \/ (m \in Nodes /\ m > n)
      PROVE  After(m) \in Nat /\ (After(m) = 0 \/ (After(m) \in Nodes /\ After(m) > n))
  <2>1. CASE m = 0
    BY <2>1, Kinds
  <2>2. CASE m \in Nodes /\ m > n
    BY <1>1, <2>2 DEF Forward
  <2>. QED  BY <1>4, <2>1, <2>2
<1>5. Second(n) = After(First(n)) /\ Third(n) = After(Second(n)) /\ Fourth(n) = After(Third(n))
  BY DEF Second, Third, Fourth, After, First
<1>6. Second(n) \in Nat /\ (Second(n) = 0 \/ (Second(n) \in Nodes /\ Second(n) > n))
  BY <1>2, <1>4, <1>5
<1>7. Third(n) \in Nat /\ (Third(n) = 0 \/ (Third(n) \in Nodes /\ Third(n) > n))
  BY <1>4, <1>5, <1>6
<1>8. Fourth(n) \in Nat /\ (Fourth(n) = 0 \/ (Fourth(n) \in Nodes /\ Fourth(n) > n))
  BY <1>4, <1>5, <1>7
<1>. QED  BY <1>1, <1>2, <1>3, <1>6, <1>7, <1>8

\* What the function in BlockEnd is.
EndIs(f) == f = [n \in Nat |-> IF IsStatementNode(n) THEN f[NextSibling(ast, n)] ELSE n]

LEMMA EndExists == ASSUME Forward PROVE \E f : EndIs(f)
<1>. DEFINE Upto(f, k) == f = [n \in Nat |-> IF (n \in Nodes => n >= k) /\ IsStatementNode(n)
                                                THEN f[NextSibling(ast, n)] ELSE n]
            S == {k \in Nat : \E f : Upto(f, k)}
<1>1. PICK N : N = Len(ast)
  OBVIOUS
<1>2. N \in Nat /\ Nodes = 1 .. N
  BY <1>1 DEF Forward, Nodes
<1>3. \A n : IsStatementNode(n) => n \in Nodes
  BY StatementNodes, Kinds
<1>4. N + 1 \in S
  <2>1. PICK f : f = [n \in Nat |-> n]
    OBVIOUS
  <2>2. \A n \in Nat : ~ ((n \in Nodes => n >= N + 1) /\ IsStatementNode(n))
    BY <1>2, <1>3
  <2>3. Upto(f, N + 1)
    BY <2>1, <2>2
  <2>. QED  BY <1>2, <2>3
<1>5. ASSUME NEW k \in 1 .. N, k + 1 \in S PROVE k \in S
  <2>1. PICK f : Upto(f, k + 1)
    BY <1>5
  <2>2. PICK v : v = IF IsStatementNode(k) THEN f[NextSibling(ast, k)] ELSE k
    OBVIOUS
  <2>3. PICK g : g = [n \in Nat |-> IF n = k THEN v ELSE f[n]]
    OBVIOUS
  <2>4. k \in Nat /\ k \in Nodes /\ \A n \in Nat : n # k => g[n] = f[n]
    BY <1>2, <2>3
  <2>5. ASSUME NEW n \in Nat
        PROVE  g[n] = IF (n \in Nodes => n >= k) /\ IsStatementNode(n) THEN g[NextSibling(ast, n)] ELSE n
    <3>1. f[n] = IF (n \in Nodes => n >= k + 1) /\ IsStatementNode(n) THEN f[NextSibling(ast, n)] ELSE n
      BY <2>1
    <3>2. CASE IsStatementNode(n) /\ n >= k
      <4>1. n \in Nodes /\ NextSibling(ast, n) \in Nat /\ NextSibling(ast, n) # k
        <5>1. n \in Nodes
          BY <1>3, <3>2
        <5>2. After(n) \in Nat /\ (After(n) = 0 \/ After(n) > n)
          BY <5>1, Ahead
        <5>. QED  BY <1>2, <3>2, <5>1, <5>2 DEF After
      <4>2. g[NextSibling(ast, n)] = f[NextSibling(ast, n)]
        BY <2>4, <4>1
      <4>3. CASE n = k
        BY <2>2, <2>3, <3>2, <4>1, <4>2, <4>3
      <4>4. CASE n # k
        <5>1. n >= k + 1
          BY <1>2, <3>2, <4>1, <4>4
        <5>. QED  BY <2>4, <3>1, <3>2, <4>1, <4>2, <4>4, <5>1
      <4>. QED  BY <4>3, <4>4
    <3>3. CASE ~ IsStatementNode(n)
      BY <2>2, <2>3, <2>4, <3>1, <3>3
    <3>4. CASE IsStatementNode(n) /\ ~ (n >= k)
      <4>1. n \in Nodes /\ ~ (n >= k + 1) /\ n # k
        BY <1>2, <1>3, <3>4
      <4>. QED  BY <2>4, <3>1, <3>4, <4>1
    <3>. QED  BY <3>2, <3>3, <3>4
  <2>6. Upto(g, k)
    BY <2>3, <2>5
  <2>. QED  BY <2>4, <2>6
<1>6. \A k \in 1 .. N + 1 : k \in S
  <2>. HIDE DEF S
  <2>. QED  BY <1>2, <1>4, <1>5, Backwards
<1>7. PICK f : Upto(f, 1)
  <2>1. 1 \in 1 .. N + 1
    BY <1>2
  <2>2. 1 \in S
    <3>. HIDE DEF S
    <3>. QED  BY <1>6, <2>1
  <2>. QED  BY <2>2
<1>8. \A n \in Nat : (n \in Nodes => n >= 1)
  BY <1>2
<1>9. f = [n \in Nat |-> IF IsStatementNode(n) THEN f[NextSibling(ast, n)] ELSE n]
  BY <1>7, <1>8
<1>. QED  BY <1>9, Zenon DEF EndIs

\* A block ends where its statement is closed.
LEMMA BlockEnds ==
  ASSUME NEW q, Fit(q), NEW n, n # Head_, q[n].kw \in {"IF", "WHILE"}, NEW m, InBlock(q, m, n)
  PROVE  Tok(BlockEnd(m), {IF q[n].kw = "IF" THEN "ENDIF" ELSE "ENDWHILE"})
<1>. DEFINE e == CHOOSE f : EndIs(f)
<1>1. EndIs(e)
  <2>1. \E f : EndIs(f)
    BY EndExists DEF Fit
  <2>. QED  BY <2>1, Zenon
<1>2. \A x : BlockEnd(x) = e[x]
  BY Zenon DEF BlockEnd, EndIs
<1>. HIDE DEF e
<1>3. \A x \in Nat : e[x] = IF IsStatementNode(x) THEN e[After(x)] ELSE x
  BY <1>1 DEF EndIs, After
<1>4. PICK N : N = Len(ast) /\ N \in Nat /\ Nodes = 1 .. N /\ Forward
  BY DEF Fit, Forward, Nodes
<1>5. PICK types : types = {IF q[n].kw = "IF" THEN "ENDIF" ELSE "ENDWHILE"}
  OBVIOUS
<1>. DEFINE S == {k \in Nat : \A x \in Nodes : k <= x /\ InBlock(q, x, n) => Tok(e[x], types)}
<1>6. N + 1 \in S
  BY <1>4
<1>7. ASSUME NEW k \in 1 .. N, k + 1 \in S PROVE k \in S
  <2>1. ASSUME NEW x \in Nodes, x = k, InBlock(q, x, n) PROVE Tok(e[x], types)
    <3>1. CASE Gram(x, "STATEMENT")
      <4>1. InBlock(q, After(x), n)
        BY <2>1, <3>1 DEF Fit, StatementFit, InBlock
      <4>2. e[x] = e[After(x)]
        BY <1>3, <1>4, <3>1, StatementNodes
      <4>3. After(x) \in Nodes /\ After(x) # 0
        BY <1>4, <4>1 DEF InBlock
      <4>4. After(x) >= k + 1
        BY <1>4, <2>1, <4>3, Ahead
      <4>. QED  BY <1>7, <4>1, <4>2, <4>3, <4>4
    <3>2. CASE ~ Gram(x, "STATEMENT")
      <4>1. e[x] = x
        BY <1>3, <1>4, <3>2, StatementNodes
      <4>2. Tok(x, types)
        BY <1>5, <2>1, <3>2 DEF InBlock
      <4>. QED  BY <4>1, <4>2
    <3>. QED  BY <3>1, <3>2
  <2>2. ASSUME NEW x \in Nodes, k <= x, InBlock(q, x, n) PROVE Tok(e[x], types)
    <3>1. CASE x = k
      BY <2>1, <2>2, <3>1
    <3>2. CASE x # k
      <4>1. k + 1 <= x
        BY <1>4, <2>2, <3>2
      <4>. QED  BY <1>7, <2>2, <4>1
    <3>. QED  BY <3>1, <3>2
  <2>. QED  BY <1>4, <2>2
<1>8. 1 \in S
  <2>1. \A k \in 1 .. N + 1 : k \in S
    <3>. HIDE DEF S
    <3>. QED  BY <1>4, <1>6, <1>7, Backwards
  <2>. QED  BY <1>4, <2>1
<1>9. m \in Nodes /\ 1 <= m
  BY <1>4 DEF InBlock
<1>. QED  BY <1>2, <1>5, <1>8, <1>9

-----------------------------------------------------------------------------
LabelFrom(f, n, label) ==
  IF ~ IsStatementNode(n) THEN label
  ELSE f[After(n)][f[Fourth(n)][label + LabelsOf(n)]]

LabelAfterIs(f) ==
  f = [node \in Nat |->
        [label \in Nat |->
          IF ~ IsStatementNode(node) THEN label
          ELSE f[NextSibling(ast, node)][f[Fourth(node)][label + LabelsOf(node)]]]]

LEMMA LabelAfterUnfolds ==
  \A f : LabelAfterIs(f) <=> f = [node \in Nat |-> [label \in Nat |-> LabelFrom(f, node, label)]]
BY Zenon DEF LabelAfterIs, LabelFrom, After

LEMMA LabelsTaken == \A n : LabelsOf(n) \in Nat
BY DEF LabelsOf

LEMMA LabelAfterExists == ASSUME Forward PROVE \E f \in [Nat -> [Nat -> Nat]] : LabelAfterIs(f)
<1>. DEFINE Upto(f, k) ==
              /\ f \in [Nat -> [Nat -> Nat]]
              /\ \A n, l \in Nat : f[n][l] = IF n \in Nodes /\ n < k THEN l ELSE LabelFrom(f, n, l)
            S == {k \in Nat : \E f : Upto(f, k)}
<1>1. PICK N : N = Len(ast)
  OBVIOUS
<1>2. N \in Nat /\ Nodes = 1 .. N
  BY <1>1 DEF Forward, Nodes
<1>3. \A n : IsStatementNode(n) => n \in Nodes
  BY StatementNodes, Kinds
<1>4. N + 1 \in S
  <2>1. PICK f : f = [n \in Nat |-> [l \in Nat |-> l]]
    OBVIOUS
  <2>2. f \in [Nat -> [Nat -> Nat]]
    BY <2>1
  <2>3. ASSUME NEW n \in Nat, NEW l \in Nat
        PROVE  f[n][l] = IF n \in Nodes /\ n < N + 1 THEN l ELSE LabelFrom(f, n, l)
    <3>1. f[n][l] = l
      BY <2>1
    <3>2. n \in Nodes \/ LabelFrom(f, n, l) = l
      BY <1>3 DEF LabelFrom
    <3>. QED  BY <1>2, <3>1, <3>2
  <2>4. Upto(f, N + 1)
    BY <2>2, <2>3
  <2>5. N + 1 \in Nat
    BY <1>2
  <2>. HIDE DEF Upto
  <2>. QED  BY <2>4, <2>5
<1>5. ASSUME NEW k \in 1 .. N, k + 1 \in S PROVE k \in S
  <2>1. PICK f : Upto(f, k + 1)
    BY <1>5
  <2>2. k \in Nat /\ k \in Nodes
    BY <1>2
  <2>3. \A n, l \in Nat : f[n][l] \in Nat
    BY <2>1
  <2>4. ASSUME NEW n \in Nat, NEW l \in Nat PROVE LabelFrom(f, n, l) \in Nat
    <3>1. CASE IsStatementNode(n)
      <4>1. n \in Nodes
        BY <1>3, <3>1
      <4>2. Fourth(n) \in Nat /\ After(n) \in Nat
        BY <4>1, Ahead
      <4>3. l + LabelsOf(n) \in Nat
        BY LabelsTaken
      <4>4. PICK i : i = f[Fourth(n)][l + LabelsOf(n)] /\ i \in Nat
        BY <2>3, <4>2, <4>3
      <4>5. f[After(n)][i] \in Nat
        BY <2>3, <4>2, <4>4
      <4>. QED  BY <3>1, <4>4, <4>5 DEF LabelFrom
    <3>2. CASE ~ IsStatementNode(n)
      BY <3>2 DEF LabelFrom
    <3>. QED  BY <3>1, <3>2
  <2>5. PICK g : g = [n \in Nat |-> [l \in Nat |-> IF n = k THEN LabelFrom(f, k, l) ELSE f[n][l]]]
    OBVIOUS
  <2>6. g \in [Nat -> [Nat -> Nat]]
    BY <2>2, <2>3, <2>4, <2>5
  <2>7. \A n, l \in Nat : n # k => g[n][l] = f[n][l]
    BY <2>5
  <2>8. \A l \in Nat : g[k][l] = LabelFrom(f, k, l)
    BY <2>2, <2>5
  <2>9. ASSUME NEW n \in Nat, NEW l \in Nat, n \in Nodes => n >= k
        PROVE  LabelFrom(g, n, l) = LabelFrom(f, n, l)
    <3>1. CASE IsStatementNode(n)
      <4>1. n \in Nodes
        BY <1>3, <3>1
      <4>2. Fourth(n) \in Nat /\ After(n) \in Nat /\ Fourth(n) # k /\ After(n) # k
        <5>1. /\ Fourth(n) \in Nat /\ (Fourth(n) = 0 \/ Fourth(n) > n)
              /\ After(n) \in Nat /\ (After(n) = 0 \/ After(n) > n)
          BY <4>1, Ahead
        <5>. QED  BY <1>2, <2>9, <4>1, <5>1
      <4>3. l + LabelsOf(n) \in Nat
        BY LabelsTaken
      <4>4. PICK i : i = f[Fourth(n)][l + LabelsOf(n)] /\ i \in Nat
        BY <2>3, <4>2, <4>3
      <4>5. g[Fourth(n)][l + LabelsOf(n)] = i
        BY <2>7, <4>2, <4>3, <4>4
      <4>6. g[After(n)][i] = f[After(n)][i]
        BY <2>7, <4>2, <4>4
      <4>. QED  BY <3>1, <4>4, <4>5, <4>6 DEF LabelFrom
    <3>2. CASE ~ IsStatementNode(n)
      BY <3>2 DEF LabelFrom
    <3>. QED  BY <3>1, <3>2
  <2>10. ASSUME NEW n \in Nat, NEW l \in Nat
         PROVE  g[n][l] = IF n \in Nodes /\ n < k THEN l ELSE LabelFrom(g, n, l)
    <3>1. f[n][l] = IF n \in Nodes /\ n < k + 1 THEN l ELSE LabelFrom(f, n, l)
      BY <2>1
    <3>2. CASE n \in Nodes /\ n < k
      <4>1. n # k /\ n < k + 1
        BY <1>2, <3>2
      <4>. QED  BY <2>7, <3>1, <3>2, <4>1
    <3>3. CASE n = k
      BY <2>2, <2>8, <2>9, <3>3
    <3>4. CASE n # k /\ ~ (n \in Nodes /\ n < k)
      <4>1. ~ (n \in Nodes /\ n < k + 1) /\ (n \in Nodes => n >= k)
        BY <1>2, <3>4
      <4>. QED  BY <2>7, <2>9, <3>1, <3>4, <4>1
    <3>. QED  BY <3>2, <3>3, <3>4
  <2>11. Upto(g, k)
    BY <2>6, <2>10
  <2>. QED  BY <2>2, <2>11
<1>6. \A k \in 1 .. N + 1 : k \in S
  <2>. HIDE DEF S
  <2>. QED  BY <1>2, <1>4, <1>5, Backwards
<1>7. PICK f : Upto(f, 1)
  <2>1. 1 \in 1 .. N + 1
    BY <1>2
  <2>2. 1 \in S
    <3>. HIDE DEF S
    <3>. QED  BY <1>6, <2>1
  <2>. QED  BY <2>2
<1>8. \A n, l \in Nat : f[n][l] = LabelFrom(f, n, l)
  <2>1. \A n, l \in Nat : f[n][l] = IF n \in Nodes /\ n < 1 THEN l ELSE LabelFrom(f, n, l)
    BY <1>7
  <2>2. \A n \in Nat : ~ (n \in Nodes /\ n < 1)
    BY <1>2
  <2>. QED  BY <2>1, <2>2
<1>9. f = [node \in Nat |-> [label \in Nat |-> LabelFrom(f, node, label)]]
  BY <1>7, <1>8
<1>. QED  BY <1>7, <1>9, LabelAfterUnfolds

LEMMA LabelAfterFacts ==
  ASSUME Forward
  PROVE  \A n, l \in Nat : LabelAfter[n][l] \in Nat /\ LabelAfter[n][l] = LabelFrom(LabelAfter, n, l)
<1>. DEFINE f == CHOOSE f : LabelAfterIs(f)
<1>1. LabelAfter = f
  BY Zenon DEF LabelAfter, LabelAfterIs
<1>2. LabelAfterIs(f)
  <2>1. \E g : LabelAfterIs(g)
    BY LabelAfterExists
  <2>. QED  BY <2>1, Zenon
<1>. HIDE DEF f
<1>3. \A n, l \in Nat : f[n][l] = LabelFrom(f, n, l)
  <2>1. f = [node \in Nat |-> [label \in Nat |-> LabelFrom(f, node, label)]]
    BY <1>2, LabelAfterUnfolds
  <2>. QED  BY <2>1
<1>4. PICK N : N = Len(ast) /\ N \in Nat /\ Nodes = 1 .. N
  BY DEF Forward, Nodes
<1>. DEFINE S == {k \in Nat : \A n, l \in Nat : (n \in Nodes => k <= n) => f[n][l] \in Nat}
<1>5. N + 1 \in S
  <2>1. ASSUME NEW n \in Nat, NEW l \in Nat, n \in Nodes => N + 1 <= n PROVE f[n][l] \in Nat
    <3>1. ~ IsStatementNode(n)
      BY <1>4, <2>1, StatementNodes, Kinds
    <3>. QED  BY <1>3, <3>1 DEF LabelFrom
  <2>. QED  BY <1>4, <2>1
<1>6. ASSUME NEW k \in 1 .. N, k + 1 \in S PROVE k \in S
  <2>1. ASSUME NEW n \in Nat, NEW l \in Nat, n \in Nodes => k <= n PROVE f[n][l] \in Nat
    <3>1. CASE ~ IsStatementNode(n)
      BY <1>3, <3>1 DEF LabelFrom
    <3>2. CASE IsStatementNode(n)
      <4>1. n \in Nodes
        BY <3>2, StatementNodes, Kinds
      <4>2. /\ Fourth(n) \in Nat /\ (Fourth(n) \in Nodes => k + 1 <= Fourth(n))
            /\ After(n) \in Nat /\ (After(n) \in Nodes => k + 1 <= After(n))
        <5>1. /\ Fourth(n) \in Nat /\ (Fourth(n) = 0 \/ Fourth(n) > n)
              /\ After(n) \in Nat /\ (After(n) = 0 \/ After(n) > n)
          BY <4>1, Ahead
        <5>. QED  BY <1>4, <2>1, <4>1, <5>1
      <4>3. PICK i : i = f[Fourth(n)][l + LabelsOf(n)] /\ i \in Nat
        <5>1. l + LabelsOf(n) \in Nat
          BY LabelsTaken
        <5>. QED  BY <1>6, <4>2, <5>1
      <4>4. f[After(n)][i] \in Nat
        BY <1>6, <4>2, <4>3
      <4>. QED  BY <1>3, <3>2, <4>3, <4>4 DEF LabelFrom
    <3>. QED  BY <3>1, <3>2
  <2>. QED  BY <1>4, <2>1
<1>7. \A k \in 1 .. N + 1 : k \in S
  <2>. HIDE DEF S
  <2>. QED  BY <1>4, <1>5, <1>6, Backwards
<1>8. \A n, l \in Nat : f[n][l] \in Nat
  <2>1. 1 \in S
    BY <1>4, <1>7
  <2>. QED  BY <1>4, <2>1
<1>. QED  BY <1>1, <1>3, <1>8

BlockFrom(f, n, label) ==
  IF ~ IsStatementNode(n) THEN <<>>
  ELSE StatementLines(n, label, f[Fourth(n)][label + LabelsOf(n)])
         \o f[After(n)][LabelAfter[Fourth(n)][label + LabelsOf(n)]]

BlockIs(f) ==
  f = [node \in Nat |->
        [label \in Nat |->
          IF ~ IsStatementNode(node) THEN <<>>
          ELSE LET inside == label + LabelsOf(node)
               IN  StatementLines(node, label, f[Fourth(node)][inside])
                     \o f[NextSibling(ast, node)][LabelAfter[Fourth(node)][inside]]]]

LEMMA BlockUnfolds ==
  \A f : BlockIs(f) <=> f = [node \in Nat |-> [label \in Nat |-> BlockFrom(f, node, label)]]
BY Zenon DEF BlockIs, BlockFrom, After

LEMMA Inside ==
  ASSUME Forward, NEW n \in Nodes, NEW l \in Nat
  PROVE  /\ l + LabelsOf(n) \in Nat /\ LabelAfter[Fourth(n)][l + LabelsOf(n)] \in Nat
         /\ Fourth(n) \in Nat /\ (Fourth(n) = 0 \/ (Fourth(n) \in Nodes /\ Fourth(n) > n))
         /\ After(n) \in Nat /\ (After(n) = 0 \/ (After(n) \in Nodes /\ After(n) > n))
<1>1. l + LabelsOf(n) \in Nat
  BY LabelsTaken
<1>2. /\ Fourth(n) \in Nat /\ (Fourth(n) = 0 \/ (Fourth(n) \in Nodes /\ Fourth(n) > n))
      /\ After(n) \in Nat /\ (After(n) = 0 \/ (After(n) \in Nodes /\ After(n) > n))
  BY Ahead
<1>3. LabelAfter[Fourth(n)][l + LabelsOf(n)] \in Nat
  BY <1>1, <1>2, LabelAfterFacts
<1>. QED  BY <1>1, <1>2, <1>3

LEMMA BlockExists == ASSUME Forward PROVE \E f : BlockIs(f)
<1>. DEFINE Body(f, k, n, l) == IF n \in Nodes /\ n < k THEN <<>> ELSE BlockFrom(f, n, l)
            Upto(f, k) == f = [n \in Nat |-> [l \in Nat |-> Body(f, k, n, l)]]
            S == {k \in Nat : \E f : Upto(f, k)}
<1>1. PICK N : N = Len(ast)
  OBVIOUS
<1>2. N \in Nat /\ Nodes = 1 .. N
  BY <1>1 DEF Forward, Nodes
<1>3. \A n : IsStatementNode(n) => n \in Nodes
  BY StatementNodes, Kinds
<1>4. N + 1 \in S
  <2>1. PICK f : f = [n \in Nat |-> [l \in Nat |-> <<>>]]
    OBVIOUS
  <2>2. ASSUME NEW n \in Nat, NEW l \in Nat PROVE Body(f, N + 1, n, l) = <<>>
    <3>1. n \in Nodes \/ BlockFrom(f, n, l) = <<>>
      BY <1>3 DEF BlockFrom
    <3>. QED  BY <1>2, <3>1
  <2>. HIDE DEF Body
  <2>3. Upto(f, N + 1)
    BY <2>1, <2>2
  <2>4. N + 1 \in Nat
    BY <1>2
  <2>. HIDE DEF Upto
  <2>. QED  BY <2>3, <2>4
<1>5. ASSUME NEW k \in 1 .. N, k + 1 \in S PROVE k \in S
  <2>1. PICK f : Upto(f, k + 1)
    <3>. HIDE DEF Upto
    <3>. QED  BY <1>5
  <2>2. k \in Nat /\ k \in Nodes
    BY <1>2
  <2>3. \A n, l \in Nat : f[n][l] = Body(f, k + 1, n, l)
    <3>. HIDE DEF Body
    <3>. QED  BY <2>1
  <2>4. PICK g : g = [n \in Nat |-> [l \in Nat |-> IF n = k THEN BlockFrom(f, k, l) ELSE f[n][l]]]
    OBVIOUS
  <2>5. \A n, l \in Nat : n # k => g[n][l] = f[n][l]
    BY <2>4
  <2>6. \A l \in Nat : g[k][l] = BlockFrom(f, k, l)
    BY <2>2, <2>4
  <2>7. ASSUME NEW n \in Nat, NEW l \in Nat, n \in Nodes => n >= k
        PROVE  BlockFrom(g, n, l) = BlockFrom(f, n, l)
    <3>1. CASE IsStatementNode(n)
      <4>1. n \in Nodes
        BY <1>3, <3>1
      <4>2. PICK i, m : i = l + LabelsOf(n) /\ m = LabelAfter[Fourth(n)][i]
        OBVIOUS
      <4>3. /\ i \in Nat /\ m \in Nat
            /\ Fourth(n) \in Nat /\ (Fourth(n) = 0 \/ Fourth(n) > n)
            /\ After(n) \in Nat /\ (After(n) = 0 \/ After(n) > n)
        BY <4>1, <4>2, Inside
      <4>4. Fourth(n) # k /\ After(n) # k
        BY <1>2, <2>7, <4>1, <4>3
      <4>5. g[Fourth(n)][i] = f[Fourth(n)][i] /\ g[After(n)][m] = f[After(n)][m]
        BY <2>5, <4>3, <4>4
      <4>. QED  BY <3>1, <4>2, <4>5 DEF BlockFrom
    <3>2. CASE ~ IsStatementNode(n)
      BY <3>2 DEF BlockFrom
    <3>. QED  BY <3>1, <3>2
  <2>8. ASSUME NEW n \in Nat, NEW l \in Nat PROVE g[n][l] = Body(g, k, n, l)
    <3>1. f[n][l] = IF n \in Nodes /\ n < k + 1 THEN <<>> ELSE BlockFrom(f, n, l)
      BY <2>3
    <3>2. CASE n \in Nodes /\ n < k
      <4>1. n # k /\ n < k + 1
        BY <1>2, <3>2
      <4>. QED  BY <2>5, <3>1, <3>2, <4>1
    <3>3. CASE n = k
      <4>1. ~ (n < k) /\ n >= k
        BY <2>2, <3>3
      <4>. QED  BY <2>2, <2>6, <2>7, <3>3, <4>1
    <3>4. CASE n # k /\ ~ (n \in Nodes /\ n < k)
      <4>1. ~ (n \in Nodes /\ n < k + 1) /\ (n \in Nodes => n >= k)
        BY <1>2, <3>4
      <4>. QED  BY <2>5, <2>7, <3>1, <3>4, <4>1
    <3>. QED  BY <3>2, <3>3, <3>4
  <2>. HIDE DEF Body
  <2>9. PICK h : h = [n \in Nat |-> [l \in Nat |-> Body(g, k, n, l)]]
    OBVIOUS
  <2>10. g = h
    <3>1. \A n \in Nat : g[n] = h[n]
      BY <2>4, <2>8, <2>9
    <3>. QED  BY <2>4, <2>9, <3>1
  <2>11. Upto(g, k)
    BY <2>9, <2>10
  <2>. HIDE DEF Upto
  <2>. QED  BY <2>2, <2>11
<1>6. \A k \in 1 .. N + 1 : k \in S
  <2>. HIDE DEF S
  <2>. QED  BY <1>2, <1>4, <1>5, Backwards
<1>7. PICK f : Upto(f, 1)
  <2>1. 1 \in 1 .. N + 1
    BY <1>2
  <2>2. 1 \in S
    <3>. HIDE DEF S
    <3>. QED  BY <1>6, <2>1
  <2>. HIDE DEF Upto
  <2>. QED  BY <2>2
<1>8. \A n, l \in Nat : Body(f, 1, n, l) = BlockFrom(f, n, l)
  BY <1>2
<1>9. f = [n \in Nat |-> [l \in Nat |-> BlockFrom(f, n, l)]]
  <2>. HIDE DEF Body
  <2>. QED  BY <1>7, <1>8
<1>. QED  BY <1>9, BlockUnfolds

LEMMA BlockFacts ==
  ASSUME Forward
  PROVE  \A n, l \in Nat : Block[n][l] = BlockFrom(Block, n, l)
<1>. DEFINE f == CHOOSE f : BlockIs(f)
<1>1. Block = f
  BY Zenon DEF Block, BlockIs
<1>2. BlockIs(f)
  <2>1. \E g : BlockIs(g)
    BY BlockExists
  <2>. QED  BY <2>1, Zenon
<1>. HIDE DEF f
<1>3. f = [node \in Nat |-> [label \in Nat |-> BlockFrom(f, node, label)]]
  BY <1>2, BlockUnfolds
<1>4. \A n, l \in Nat : f[n][l] = BlockFrom(f, n, l)
  BY <1>3
<1>. QED  BY <1>1, <1>4

-----------------------------------------------------------------------------
(***************************************************************************)
(* Statements start and end with nothing on the stack and nothing known.   *)
(***************************************************************************)
Whole(lines) == Follows(lines, Nothing, Nothing)
Sound(lines) == Leads(lines, Nothing, Nothing)

LEMMA NothingState ==
  /\ Nothing \in States /\ Nothing = Knows(0, {}, FALSE)
  /\ \A k \in Nat, known \in SUBSET M!Registers, string \in BOOLEAN : Knows(k, known, string) \in States
BY DEF Nothing, Knows, States

LEMMA WholeSound == ASSUME NEW x, Whole(x), NEW place PROVE Sound(At(place, x))
BY DEF Whole, Sound, Follows

LEMMA NothingSound == ASSUME NEW x, x = <<>> PROVE Sound(x)
BY NothingState, LeadsNowhere DEF Sound

LEMMA SoundOn == ASSUME NEW x, NEW y, Sound(x), Sound(y) PROVE Sound(x \o y)
BY LeadsOn DEF Sound

LEMMA WholeOn == ASSUME NEW x, NEW y, Whole(x), Whole(y) PROVE Whole(x \o y)
BY FollowsOn DEF Whole

\* A label or a jump stands alone.
LEMMA WholeBy ==
  ASSUME NEW l, l.op \in JUMPS \cup {"label"}, l.dst[1] \in {".LAB", ".ILAB"}, l.src = None
  PROVE  Whole(<<l>>)
<1>1. Flow(l, Nothing, Nothing)
  BY DEF Flow, Nothing, Knows
<1>2. Named(l)
  <2>0. None[1] = "none"
    BY DEF None
  <2>1. l.src[1] = "none"
    BY <2>0
  <2>2. l.src[1] \notin {"_var_", ".LAB", ".ILAB"}
    BY <2>1
  <2>. QED  BY <2>2 DEF Named
<1>. QED  BY <1>1, <1>2, NothingState, FollowsBy DEF Whole

LEMMA LabelsAndJumps ==
  \A label : /\ Label(label).op = "label" /\ Label(label).dst = label /\ Label(label).src = None
             /\ \A op : Jump(op, label).op = op /\ Jump(op, label).dst = label /\ Jump(op, label).src = None
BY DEF Label, Jump, Line

LEMMA ComparisonWhole ==
  ASSUME NEW q, Fit(q), cc \in CONVENTIONS, NEW n, Gram(n, "COMPARISON")
  PROVE  Whole(Comparison(n)) /\ Straight(Comparison(n)) /\ IsSeq(Comparison(n))
<1>1. PICK a, b, l : a = Expression(First(n)) /\ b = SecondOperand(Expression(Third(n))) /\ l = Line("cmp", Ret, Scratch)
  OBVIOUS
<1>2. PICK c : c = <<l>>
  OBVIOUS
<1>3. n \in Nodes /\ Forward
  BY Kinds DEF Fit
<1>4. Gram(First(n), "EXPRESSION") /\ Gram(Third(n), "EXPRESSION")
  BY <1>3 DEF Fit, ExpressionFit
<1>5. Comparison(n) = (a \o b) \o c
  <2>1. Third(n) # NO_NODE
    BY <1>4, Kinds
  <2>. QED  BY <1>1, <1>2, <2>1 DEF Comparison, First
<1>6. Computes(a) /\ Computes(Expression(Third(n)))
  BY <1>1, <1>4, ExpressionComputes
<1>7. /\ IsSeq(a) /\ Straight(a)
      /\ Follows(a, Knows(0, {}, FALSE), Knows(0, {"rax"}, FALSE))
  <2>1. 0 \in Nat
    OBVIOUS
  <2>. QED  BY <1>6, <2>1 DEF Computes, Follows
<1>8. /\ IsSeq(b) /\ Straight(b)
      /\ Follows(b, Knows(0, {"rax"}, FALSE), Knows(0, {"rax", "r10"}, FALSE))
  <2>1. 0 \in Nat
    OBVIOUS
  <2>. QED  BY <1>1, <1>6, <2>1, SecondOperandFollows
<1>9. /\ IsSeq(c) /\ Straight(c)
      /\ Follows(c, Knows(0, {"rax", "r10"}, FALSE), Knows(0, {}, FALSE))
  <2>1. l.op = "cmp" /\ l.dst[1] = "reg" /\ l.dst[2] = "rax" /\ l.src[1] = "reg" /\ l.src[2] = "r10"
    BY <1>1, LineFacts
  <2>2. Flow(l, Knows(0, {"rax", "r10"}, FALSE), Knows(0, {}, FALSE))
    BY <2>1 DEF Flow, Knows, Number_
  <2>3. Named(l)
    BY <2>1 DEF Named
  <2>4. l.op \notin JUMPS \cup {"label"}
    BY <2>1 DEF JUMPS
  <2>5. Knows(0, {"rax", "r10"}, FALSE) \in States /\ Knows(0, {}, FALSE) \in States
    BY KnowsStates
  <2>. QED  BY <1>2, <2>2, <2>3, <2>4, <2>5, StraightOne, FollowsBy
<1>10. Follows(a \o b, Knows(0, {}, FALSE), Knows(0, {"rax", "r10"}, FALSE))
  BY <1>7, <1>8, FollowsOn
<1>11. Follows((a \o b) \o c, Knows(0, {}, FALSE), Knows(0, {}, FALSE))
  BY <1>9, <1>10, FollowsOn
<1>12. IsSeq(a \o b) /\ Straight(a \o b)
  BY <1>7, <1>8, IsSeqFacts, StraightOn
<1>13. IsSeq((a \o b) \o c) /\ Straight((a \o b) \o c)
  BY <1>9, <1>12, IsSeqFacts, StraightOn
<1>. QED  BY <1>5, <1>11, <1>13 DEF Whole, Nothing

LEMMA JumpsKnown == \A op \in COMPARISONS : JumpUnless[op] \in JUMPS
BY DEF COMPARISONS, JumpUnless, JUMPS

\* The comparison of a statement and the jump after it.
LEMMA JumpUnlessWhole ==
  ASSUME NEW q, Fit(q), cc \in CONVENTIONS, NEW n, Gram(n, "COMPARISON"), NEW label, label[1] \in {".LAB", ".ILAB"}
  PROVE  Whole(JumpUnlessHolds(n, label))
<1>1. PICK op : op = JumpUnless[TokenAt(Second(n))]
  OBVIOUS
<1>2. PICK l : l = Jump(op, label)
  OBVIOUS
<1>3. n \in Nodes
  BY Kinds
<1>4. TokenAt(Second(n)) \in COMPARISONS
  BY <1>3 DEF Fit, ExpressionFit, Tok
<1>5. l.op \in JUMPS /\ l.dst = label /\ l.src = None
  BY <1>1, <1>2, <1>4, JumpsKnown, LabelsAndJumps
<1>6. Whole(<<l>>)
  BY <1>5, WholeBy
<1>7. Whole(Comparison(n))
  BY ComparisonWhole
<1>8. JumpUnlessHolds(n, label) = Comparison(n) \o <<l>>
  BY <1>1, <1>2 DEF JumpUnlessHolds
<1>. QED  BY <1>6, <1>7, <1>8, WholeOn

-----------------------------------------------------------------------------
\* The statements that hold no others.
LEMMA StatementFacts ==
  ASSUME NEW q, Fit(q), NEW n, Gram(n, "STATEMENT")
  PROVE  n \in Nodes /\ StatementFit(q, n) /\ Keyword(n) = q[n].kw
<1>1. n \in Nodes /\ StatementFit(q, n)
  BY Kinds DEF Fit
<1>2. IsToken(ast, First(n)) /\ TokenAt(First(n)) = q[n].kw
  BY <1>1 DEF StatementFit, Tok
<1>. QED  BY <1>1, <1>2 DEF Keyword, First

\* A variable named by LET and INPUT.
LEMMA NamedVariable ==
  ASSUME NEW q, Fit(q), NEW n, Gram(n, "STATEMENT"), q[n].kw \in {"LET", "INPUT"}
  PROVE  TextAt(Second(n)) \in {text[p] : p \in F!VariablePlaces}
<1>1. PICK k, c, p : k = First(n) /\ c = Second(n) /\ p = ast[c].value
  OBVIOUS
<1>2. n \in Nodes /\ StatementFit(q, n)
  BY StatementFacts
<1>3. /\ IsToken(ast, k) /\ tokens[ast[k].value] = q[n].kw
      /\ IsToken(ast, c) /\ tokens[p] = "IDENT" /\ p = ast[k].value + 1
  BY <1>1, <1>2 DEF StatementFit, Tok, TokenAt
<1>4. k \in Nodes /\ c \in Nodes
  BY <1>3, Kinds
<1>5. ast[k].value \in F!Places /\ p \in F!Places /\ F!Places \subseteq Int
  <2>1. ast[k].value \in F!Places /\ p \in F!Places
    BY <1>1, <1>3, <1>4 DEF Fit
  <2>2. F!Places \subseteq Int
    BY DEF F!Places
  <2>. QED  BY <2>1, <2>2
<1>6. p - 1 = ast[k].value
  <2>1. PICK v : v = ast[k].value
    OBVIOUS
  <2>2. v \in Int /\ p = v + 1
    BY <1>3, <1>5, <2>1
  <2>3. p - 1 = v
    BY <2>2
  <2>. QED  BY <2>1, <2>3
<1>7. p \in F!VariablePlaces
  BY <1>3, <1>5, <1>6 DEF F!VariablePlaces, F!IdentsAfter
<1>. QED  BY <1>1, <1>7 DEF TextAt

LEMMA PrintWhole ==
  ASSUME NEW q, Fit(q), cc \in CONVENTIONS, NEW c, Tok(c, {"STRING"}) \/ Gram(c, "EXPRESSION")
  PROVE  Whole(PrintLines(c)) /\ Straight(PrintLines(c))
<1>0. PICK known : known = {cc.arg} /\ known \in SUBSET M!Registers /\ cc.arg \in known /\ known \subseteq {cc.arg}
  BY Conventions
<1>1. CASE Tok(c, {"STRING"})
  <2>1. PICK k : k = literal_table[TextAt(c)]
    OBVIOUS
  <2>2. PICK l, m : l = Line("lea", Arg, Static(k)) /\ m = Call("print_string")
    OBVIOUS
  <2>3. PICK u, v : u = <<l>> /\ v = <<m>>
    OBVIOUS
  <2>4. PrintLines(c) = u \o v
    <3>1. Is(c, "STRING") /\ ~ IsGrammar(ast, c)
      BY <1>1, Kinds DEF Tok, Is
    <3>2. u \o v = <<l, m>>
      BY <2>3, Pair
    <3>3. PrintLines(c) = <<Line("lea", Arg, Static(literal_table[TextAt(c)])), Call("print_string")>>
      BY <3>1 DEF PrintLines
    <3>. QED  BY <2>1, <2>2, <3>2, <3>3
  <2>5. /\ l.op = "lea" /\ l.dst = Arg /\ Arg[1] = "reg" /\ l.src[1] = "_static_"
        /\ m.op = "call" /\ m.dst[1] = "helper" /\ m.dst[2] = "print_string" /\ m.src[1] = "none"
    BY <2>2, LineFacts DEF Call, Static
  <2>6. PICK s : s = Knows(0, {}, TRUE)
    OBVIOUS
  <2>7. s \in States
    BY <2>6, NothingState
  <2>8. Flow(l, Nothing, s) /\ Flow(m, s, Nothing)
    BY <2>5, <2>6 DEF Flow, Nothing, Knows
  <2>9. Named(l) /\ Named(m)
    BY <2>5 DEF Named
  <2>10. Follows(u, Nothing, s) /\ Follows(v, s, Nothing)
    BY <2>3, <2>7, <2>8, <2>9, NothingState, FollowsBy
  <2>11. l.op \notin JUMPS \cup {"label"} /\ m.op \notin JUMPS \cup {"label"}
    BY <2>5 DEF JUMPS
  <2>12. Straight(u \o v)
    BY <2>3, <2>11, StraightOne, StraightOn
  <2>13. Whole(u \o v)
    BY <2>10, FollowsOn DEF Whole
  <2>. QED  BY <2>4, <2>12, <2>13
<1>2. CASE Gram(c, "EXPRESSION")
  <2>1. PICK a : a = Expression(c)
    OBVIOUS
  <2>2. PICK l, m : l = Mov(Arg, Ret) /\ m = Call("print_integer")
    OBVIOUS
  <2>3. PICK u, v : u = <<l>> /\ v = <<m>>
    OBVIOUS
  <2>4. PrintLines(c) = a \o (u \o v)
    <3>1. ~ Is(c, "STRING") /\ IsGrammar(ast, c) /\ ast[c].value = "EXPRESSION"
      BY <1>2, Kinds DEF Is, Gram
    <3>2. u \o v = <<l, m>>
      BY <2>3, Pair
    <3>. QED  BY <2>1, <2>2, <3>1, <3>2 DEF PrintLines
  <2>5. /\ l.op = "mov" /\ l.dst[1] = "reg" /\ l.dst[2] = cc.arg /\ l.src[1] = "reg" /\ l.src[2] = "rax"
        /\ m.op = "call" /\ m.dst[1] = "helper" /\ m.dst[2] = "print_integer" /\ m.src[1] = "none"
    BY <2>2, LineFacts DEF Call
  <2>6. PICK s, t : s = Knows(0, {"rax"}, FALSE) /\ t = Knows(0, known, FALSE)
    OBVIOUS
  <2>7. s \in States /\ t \in States /\ cc.arg \in M!Registers
    <3>1. 0 \in Nat /\ FALSE \in BOOLEAN /\ {"rax"} \in SUBSET M!Registers
      BY Conventions
    <3>. QED  BY <1>0, <2>6, <3>1, NothingState
  <2>8. Flow(l, s, t)
    BY <1>0, <2>5, <2>6, <2>7 DEF Flow, Knows, Number_
  <2>9. Flow(m, t, Nothing)
    BY <1>0, <2>5, <2>6 DEF Flow, Knows, Nothing
  <2>10. Named(l) /\ Named(m)
    BY <2>5 DEF Named
  <2>11. Follows(u, s, t) /\ Follows(v, t, Nothing)
    BY <2>3, <2>7, <2>8, <2>9, <2>10, NothingState, FollowsBy
  <2>12. l.op \notin JUMPS \cup {"label"} /\ m.op \notin JUMPS \cup {"label"}
    BY <2>5 DEF JUMPS
  <2>13. Straight(u \o v) /\ IsSeq(u \o v)
    BY <2>3, <2>12, StraightOne, StraightOn, IsSeqFacts
  <2>14. Straight(a) /\ IsSeq(a) /\ Follows(a, Nothing, s)
    <3>1. 0 \in Nat
      OBVIOUS
    <3>. QED  BY <1>2, <2>1, <2>6, <3>1, ExpressionComputes DEF Computes, Follows, Nothing
  <2>15. Follows(u \o v, s, Nothing)
    BY <2>11, FollowsOn
  <2>16. Follows(a \o (u \o v), Nothing, Nothing) /\ Straight(a \o (u \o v))
    BY <2>13, <2>14, <2>15, FollowsOn, StraightOn
  <2>. QED  BY <2>4, <2>16 DEF Whole
<1>. QED  BY <1>1, <1>2

\* A number goes from the result register to a variable.
LEMMA StoreFollows ==
  ASSUME cc \in CONVENTIONS, NEW name \in {text[p] : p \in F!VariablePlaces}
  PROVE  /\ Follows(<<Mov(Var(name), Ret)>>, Knows(0, {"rax"}, FALSE), Nothing)
         /\ Straight(<<Mov(Var(name), Ret)>>) /\ IsSeq(<<Mov(Var(name), Ret)>>)
<1>1. PICK v, l : v = Var(name) /\ l = Mov(v, Ret)
  OBVIOUS
<1>2. v[1] = "_var_" /\ v[2] = name
  BY <1>1 DEF Var
<1>3. l.op = "mov" /\ l.dst = v /\ l.src[1] = "reg" /\ l.src[2] = "rax"
  BY <1>1, LineFacts
<1>4. Flow(l, Knows(0, {"rax"}, FALSE), Nothing)
  BY <1>2, <1>3 DEF Flow, Knows, Nothing, Number_
<1>5. Named(l)
  BY <1>2, <1>3 DEF Named
<1>6. l.op \notin JUMPS \cup {"label"}
  BY <1>3 DEF JUMPS
<1>7. Knows(0, {"rax"}, FALSE) \in States
  BY KnowsStates
<1>. QED  BY <1>1, <1>4, <1>5, <1>6, <1>7, NothingState, FollowsBy, StraightOne

LEMMA SimpleWhole ==
  ASSUME NEW q, Fit(q), cc \in CONVENTIONS, NEW n, Gram(n, "STATEMENT"), q[n].kw \notin {"IF", "WHILE"}
  PROVE  /\ Whole(SimpleLines(n))
         /\ q[n].kw \notin {"LABEL", "GOTO"} => Straight(SimpleLines(n))
         /\ q[n].kw = "LABEL" => SimpleLines(n) = <<Label(Lab(TextAt(Second(n))))>>
         /\ q[n].kw = "GOTO" => SimpleLines(n) = <<Jump("jmp", Lab(TextAt(Second(n))))>>
<1>1. n \in Nodes /\ StatementFit(q, n) /\ Keyword(n) = q[n].kw
  BY StatementFacts
<1>2. PICK kw : kw = q[n].kw
  OBVIOUS
<1>3. kw \in {"LET", "PRINT", "INPUT", "LABEL", "GOTO"}
  BY <1>1, <1>2 DEF StatementFit, KEYWORDS
<1>4. Keyword(n) = kw
  BY <1>1, <1>2
<1>5. CASE kw = "PRINT"
  <2>1. SimpleLines(n) = PrintLines(Second(n))
    BY <1>4, <1>5 DEF SimpleLines
  <2>2. Tok(Second(n), {"STRING"}) \/ Gram(Second(n), "EXPRESSION")
    BY <1>1, <1>2, <1>5 DEF StatementFit
  <2>. QED  BY <1>2, <1>5, <2>1, <2>2, PrintWhole
<1>6. CASE kw = "LET"
  <2>1. PICK a, b : a = Expression(Fourth(n)) /\ b = <<Mov(Var(TextAt(Second(n))), Ret)>>
    OBVIOUS
  <2>2. Gram(Fourth(n), "EXPRESSION")
    BY <1>1, <1>2, <1>6 DEF StatementFit
  <2>3. SimpleLines(n) = a \o b
    <3>1. Fourth(n) # NO_NODE
      BY <2>2, Kinds
    <3>. QED  BY <1>4, <1>6, <2>1, <3>1 DEF SimpleLines
  <2>4. Follows(b, Knows(0, {"rax"}, FALSE), Nothing) /\ Straight(b) /\ IsSeq(b)
    BY <1>2, <1>6, <2>1, NamedVariable, StoreFollows
  <2>5. Straight(a) /\ IsSeq(a) /\ Follows(a, Nothing, Knows(0, {"rax"}, FALSE))
    <3>1. 0 \in Nat
      OBVIOUS
    <3>. QED  BY <2>1, <2>2, <3>1, ExpressionComputes DEF Computes, Follows, Nothing
  <2>6. Follows(a \o b, Nothing, Nothing) /\ Straight(a \o b)
    BY <2>4, <2>5, FollowsOn, StraightOn
  <2>. QED  BY <1>2, <1>6, <2>3, <2>6 DEF Whole
<1>7. CASE kw = "INPUT"
  <2>1. PICK l, m : l = Call("input_integer") /\ m = Mov(Var(TextAt(Second(n))), Ret)
    OBVIOUS
  <2>2. PICK a, b : a = <<l>> /\ b = <<m>>
    OBVIOUS
  <2>3. Tok(Second(n), {"IDENT"})
    BY <1>1, <1>2, <1>7 DEF StatementFit
  <2>4. SimpleLines(n) = a \o b
    <3>1. Second(n) # NO_NODE
      BY <2>3, Kinds
    <3>2. SimpleLines(n) = <<l, m>>
      BY <1>4, <1>7, <2>1, <3>1 DEF SimpleLines
    <3>. QED  BY <2>2, <3>2, Pair
  <2>5. Follows(b, Knows(0, {"rax"}, FALSE), Nothing) /\ Straight(b) /\ IsSeq(b)
    BY <1>2, <1>7, <2>1, <2>2, NamedVariable, StoreFollows
  <2>6. l.op = "call" /\ l.dst[1] = "helper" /\ l.dst[2] = "input_integer" /\ l.src[1] = "none"
    BY <2>1, LineFacts DEF Call
  <2>7. Flow(l, Nothing, Knows(0, {"rax"}, FALSE))
    BY <2>6, Conventions DEF Flow, Nothing, Knows
  <2>8. Named(l)
    BY <2>6 DEF Named
  <2>9. l.op \notin JUMPS \cup {"label"}
    BY <2>6 DEF JUMPS
  <2>10. Knows(0, {"rax"}, FALSE) \in States
    BY KnowsStates
  <2>11. Follows(a, Nothing, Knows(0, {"rax"}, FALSE)) /\ Straight(a) /\ IsSeq(a)
    BY <2>2, <2>7, <2>8, <2>9, <2>10, NothingState, FollowsBy, StraightOne
  <2>12. Follows(a \o b, Nothing, Nothing) /\ Straight(a \o b)
    BY <2>5, <2>11, FollowsOn, StraightOn
  <2>. QED  BY <1>2, <1>7, <2>4, <2>12 DEF Whole
<1>8. CASE kw \in {"LABEL", "GOTO"}
  <2>1. Second(n) # NO_NODE
    <3>1. Tok(Second(n), {"IDENT"})
      BY <1>1, <1>2, <1>8 DEF StatementFit
    <3>. QED  BY <3>1, Kinds
  <2>2. PICK b, l : b = Lab(TextAt(Second(n))) /\ l = IF kw = "LABEL" THEN Label(b) ELSE Jump("jmp", b)
    OBVIOUS
  <2>3. SimpleLines(n) = <<l>>
    BY <1>4, <1>8, <2>1, <2>2 DEF SimpleLines
  <2>4. l.op \in JUMPS \cup {"label"} /\ l.dst = b /\ l.src = None
    BY <2>2, LabelsAndJumps DEF JUMPS
  <2>5. b[1] \in {".LAB", ".ILAB"}
    BY <2>2 DEF Lab
  <2>6. Whole(<<l>>)
    BY <2>4, <2>5, WholeBy
  <2>. QED  BY <1>2, <1>8, <2>2, <2>3, <2>6
<1>. QED  BY <1>3, <1>5, <1>6, <1>7, <1>8

-----------------------------------------------------------------------------
LEMMA Asserted == Assert_(TRUE) = <<>>
BY DEF Assert_

LEMMA LabelLines ==
  /\ \A name : Lab(name)[1] = ".LAB" /\ Lab(name)[2] = name
  /\ \A k : ILab(k)[1] = ".ILAB" /\ ILab(k)[2] = k
BY DEF Lab, ILab

\* What IF and WHILE are made of.
IfHead(n, label) == At(Place(First(n)), JumpUnlessHolds(Second(n), ILab(label)))
IfEnd(n, label) == At(Place(BlockEnd(Fourth(n))), <<Label(ILab(label))>>)
WhileHead(n, label) ==
  At(Place(First(n)), <<Label(ILab(label))>> \o JumpUnlessHolds(Second(n), ILab(label + 1)))
WhileBack(n, label) == At(Place(BlockEnd(Fourth(n))), <<Jump("jmp", ILab(label))>>)
WhileEnd(n, label) == At(Place(BlockEnd(Fourth(n))) + 1, <<Label(ILab(label + 1))>>)

LEMMA NothingAdded ==
  ASSUME NEW x, IsSeq(x), NEW e, e = <<>>
  PROVE  x \o e = x
<1>1. PICK S : x \in Seq(S)
  BY DEF IsSeq
<1>. QED  BY <1>1

LEMMA HoldersFacts ==
  ASSUME NEW q, Fit(q), NEW n, Gram(n, "STATEMENT"), q[n].kw \in {"IF", "WHILE"}
  PROVE  /\ n \in Nodes /\ n # Head_ /\ Keyword(n) = q[n].kw
         /\ Second(n) # NO_NODE /\ Gram(Second(n), "COMPARISON")
         /\ Is(Third(n), IF q[n].kw = "IF" THEN "THEN" ELSE "REPEAT")
         /\ InBlock(q, Fourth(n), n)
         /\ Is(BlockEnd(Fourth(n)), IF q[n].kw = "IF" THEN "ENDIF" ELSE "ENDWHILE")
<1>1. n \in Nodes /\ StatementFit(q, n) /\ Keyword(n) = q[n].kw
  BY StatementFacts
<1>2. n # Head_
  <2>1. Tok(First(n), {q[n].kw})
    BY <1>1 DEF StatementFit
  <2>2. ~ (First(n) = 0 \/ Gram(First(n), "STATEMENT"))
    <3>1. IsToken(ast, First(n))
      BY <2>1 DEF Tok
    <3>. QED  BY <3>1, Kinds
  <2>. QED  BY <2>2 DEF Fit
<1>3. Gram(Second(n), "COMPARISON") /\ InBlock(q, Fourth(n), n)
  BY <1>1 DEF StatementFit
<1>4. Is(Third(n), IF q[n].kw = "IF" THEN "THEN" ELSE "REPEAT")
  BY <1>1 DEF StatementFit, Tok, Is
<1>5. Is(BlockEnd(Fourth(n)), IF q[n].kw = "IF" THEN "ENDIF" ELSE "ENDWHILE")
  BY <1>2, <1>3, BlockEnds DEF Tok, Is
<1>. QED  BY <1>1, <1>2, <1>3, <1>4, <1>5, Kinds

LEMMA IfLinesAre ==
  ASSUME NEW q, Fit(q), cc \in CONVENTIONS, NEW n, Gram(n, "STATEMENT"), q[n].kw = "IF",
         NEW label, NEW block, IsSeq(block)
  PROVE  /\ StatementLines(n, label, block) = (IfHead(n, label) \o block) \o IfEnd(n, label)
         /\ Sound(IfHead(n, label)) /\ Sound(IfEnd(n, label))
<1>1. /\ Keyword(n) = "IF" /\ Second(n) # NO_NODE /\ Gram(Second(n), "COMPARISON")
      /\ Is(Third(n), "THEN") /\ Is(BlockEnd(Fourth(n)), "ENDIF")
  BY HoldersFacts
<1>2. PICK h, e, t : h = IfHead(n, label) /\ e = <<>> /\ t = IfEnd(n, label)
  OBVIOUS
<1>3. Sound(h)
  BY <1>1, <1>2, JumpUnlessWhole, LabelLines, WholeSound DEF IfHead
<1>4. Sound(t)
  <2>1. PICK l : l = Label(ILab(label))
    OBVIOUS
  <2>2. l.op = "label" /\ l.dst[1] \in {".LAB", ".ILAB"} /\ l.src = None
    BY <2>1, LabelsAndJumps, LabelLines
  <2>3. Whole(<<l>>)
    BY <2>2, WholeBy
  <2>. QED  BY <1>2, <2>1, <2>3, WholeSound DEF IfEnd
<1>5. StatementLines(n, label, block) = IfLines(n, label, block)
  BY <1>1 DEF StatementLines
<1>6. IfLines(n, label, block) = (((h \o e) \o block) \o e) \o t
  BY <1>1, <1>2, Asserted DEF IfLines, IfHead, IfEnd, First
<1>7. IsSeq(h)
  BY <1>3 DEF Sound, Leads
<1>8. h \o e = h
  BY <1>2, <1>7, NothingAdded
<1>9. IsSeq(h \o block)
  BY <1>7, IsSeqFacts
<1>10. (h \o block) \o e = h \o block
  BY <1>2, <1>9, NothingAdded
<1>. QED  BY <1>2, <1>3, <1>4, <1>5, <1>6, <1>8, <1>10

LEMMA WhileLinesAre ==
  ASSUME NEW q, Fit(q), cc \in CONVENTIONS, NEW n, Gram(n, "STATEMENT"), q[n].kw = "WHILE",
         NEW label, NEW block, IsSeq(block)
  PROVE  /\ StatementLines(n, label, block) =
              ((WhileHead(n, label) \o block) \o WhileBack(n, label)) \o WhileEnd(n, label)
         /\ Sound(WhileHead(n, label)) /\ Sound(WhileBack(n, label)) /\ Sound(WhileEnd(n, label))
<1>1. /\ Keyword(n) = "WHILE" /\ Second(n) # NO_NODE /\ Gram(Second(n), "COMPARISON")
      /\ Is(Third(n), "REPEAT") /\ Is(BlockEnd(Fourth(n)), "ENDWHILE")
  BY HoldersFacts
<1>2. PICK h, e, b, t : h = WhileHead(n, label) /\ e = <<>> /\ b = WhileBack(n, label) /\ t = WhileEnd(n, label)
  OBVIOUS
<1>3. \A k : Whole(<<Label(ILab(k))>>) /\ Whole(<<Jump("jmp", ILab(k))>>)
  <2>. TAKE k
  <2>1. PICK l, m : l = Label(ILab(k)) /\ m = Jump("jmp", ILab(k))
    OBVIOUS
  <2>2. /\ l.op = "label" /\ l.dst[1] \in {".LAB", ".ILAB"} /\ l.src = None
        /\ m.op = "jmp" /\ m.dst[1] \in {".LAB", ".ILAB"} /\ m.src = None
    BY <2>1, LabelsAndJumps, LabelLines
  <2>3. "jmp" \in JUMPS
    BY DEF JUMPS
  <2>4. Whole(<<l>>)
    BY <2>2, WholeBy
  <2>5. Whole(<<m>>)
    BY <2>2, <2>3, WholeBy
  <2>. QED  BY <2>1, <2>4, <2>5
<1>4. Sound(h)
  <2>1. Whole(JumpUnlessHolds(Second(n), ILab(label + 1)))
    BY <1>1, JumpUnlessWhole, LabelLines
  <2>2. Whole(<<Label(ILab(label))>> \o JumpUnlessHolds(Second(n), ILab(label + 1)))
    BY <1>3, <2>1, WholeOn
  <2>. QED  BY <1>2, <2>2, WholeSound DEF WhileHead
<1>5. Sound(b) /\ Sound(t)
  BY <1>2, <1>3, WholeSound DEF WhileBack, WhileEnd
<1>6. StatementLines(n, label, block) = WhileLines(n, label, block)
  BY <1>1 DEF StatementLines
<1>7. WhileLines(n, label, block) = ((((h \o e) \o block) \o b) \o e) \o t
  BY <1>1, <1>2, Asserted DEF WhileLines, WhileHead, WhileBack, WhileEnd, First
<1>8. IsSeq(h) /\ IsSeq(b)
  BY <1>4, <1>5 DEF Sound, Leads
<1>9. h \o e = h
  BY <1>2, <1>8, NothingAdded
<1>10. IsSeq(h \o block)
  BY <1>8, IsSeqFacts
<1>11. IsSeq((h \o block) \o b)
  BY <1>8, <1>10, IsSeqFacts
<1>12. ((h \o block) \o b) \o e = (h \o block) \o b
  BY <1>2, <1>11, NothingAdded
<1>. QED  BY <1>2, <1>4, <1>5, <1>6, <1>7, <1>9, <1>12

LEMMA SimpleLinesAre ==
  ASSUME NEW q, Fit(q), cc \in CONVENTIONS, NEW n, Gram(n, "STATEMENT"), q[n].kw \notin {"IF", "WHILE"},
         NEW label, NEW block
  PROVE  /\ StatementLines(n, label, block) = At(Place(First(n)), SimpleLines(n))
         /\ Sound(At(Place(First(n)), SimpleLines(n)))
<1>1. n \in Nodes /\ StatementFit(q, n) /\ Keyword(n) = q[n].kw
  BY StatementFacts
<1>2. Keyword(n) \in {"INPUT", "LABEL", "GOTO"} => Is(Second(n), "IDENT")
  BY <1>1 DEF StatementFit, Tok, Is
<1>3. PICK t, e : t = At(Place(First(n)), SimpleLines(n)) /\ e = <<>>
  OBVIOUS
<1>4. Sound(t)
  BY <1>3, SimpleWhole, WholeSound
<1>5. StatementLines(n, label, block) = e \o t
  BY <1>1, <1>2, <1>3, Asserted DEF StatementLines, First
<1>6. e \o t = t
  <2>1. PICK S : t \in Seq(S)
    BY <1>4 DEF Sound, Leads, IsSeq
  <2>. QED  BY <1>3, <2>1
<1>. QED  BY <1>3, <1>4, <1>5, <1>6

LEMMA StatementSound ==
  ASSUME NEW q, Fit(q), cc \in CONVENTIONS, NEW n, Gram(n, "STATEMENT"), NEW label, NEW block, Sound(block)
  PROVE  Sound(StatementLines(n, label, block))
<1>1. IsSeq(block)
  BY DEF Sound, Leads
<1>2. CASE q[n].kw = "IF"
  <2>1. PICK h, t : h = IfHead(n, label) /\ t = IfEnd(n, label)
    OBVIOUS
  <2>2. StatementLines(n, label, block) = (h \o block) \o t /\ Sound(h) /\ Sound(t)
    BY <1>1, <1>2, <2>1, IfLinesAre
  <2>3. Sound(h \o block)
    BY <2>2, SoundOn
  <2>. QED  BY <2>2, <2>3, SoundOn
<1>3. CASE q[n].kw = "WHILE"
  <2>1. PICK h, b, t : h = WhileHead(n, label) /\ b = WhileBack(n, label) /\ t = WhileEnd(n, label)
    OBVIOUS
  <2>2. StatementLines(n, label, block) = ((h \o block) \o b) \o t /\ Sound(h) /\ Sound(b) /\ Sound(t)
    BY <1>1, <1>3, <2>1, WhileLinesAre
  <2>3. Sound(h \o block)
    BY <2>2, SoundOn
  <2>4. Sound((h \o block) \o b)
    BY <2>2, <2>3, SoundOn
  <2>. QED  BY <2>2, <2>4, SoundOn
<1>4. CASE q[n].kw \notin {"IF", "WHILE"}
  BY <1>4, SimpleLinesAre
<1>. QED  BY <1>2, <1>3, <1>4

LEMMA BlockSound ==
  ASSUME NEW q, Fit(q), cc \in CONVENTIONS
  PROVE  \A n, l \in Nat : Sound(Block[n][l])
<1>1. PICK N : N = Len(ast) /\ N \in Nat /\ Nodes = 1 .. N /\ Forward
  BY DEF Fit, Forward, Nodes
<1>2. \A n, l \in Nat : Block[n][l] = BlockFrom(Block, n, l)
  BY <1>1, BlockFacts
<1>3. \A n, l \in Nat : n \notin Nodes => Sound(Block[n][l])
  <2>. SUFFICES ASSUME NEW n \in Nat, NEW l \in Nat, n \notin Nodes PROVE Sound(Block[n][l])
    OBVIOUS
  <2>1. Block[n][l] = <<>>
    BY <1>2, StatementNodes, Kinds DEF BlockFrom
  <2>. QED  BY <2>1, NothingSound
<1>. DEFINE S == {k \in Nat : \A n \in Nodes, l \in Nat : k <= n => Sound(Block[n][l])}
<1>4. N + 1 \in S
  BY <1>1
<1>5. ASSUME NEW k \in 1 .. N, k + 1 \in S PROVE k \in S
  <2>1. \A n \in Nodes, l \in Nat : k + 1 <= n => Sound(Block[n][l])
    BY <1>5
  <2>2. ASSUME NEW l \in Nat PROVE Sound(Block[k][l])
    <3>1. k \in Nat /\ k \in Nodes /\ k + 1 \in Nat
      BY <1>1
    <3>2. Block[k][l] = BlockFrom(Block, k, l)
      BY <1>2, <3>1
    <3>3. CASE ~ IsStatementNode(k)
      BY <3>2, <3>3, NothingSound DEF BlockFrom
    <3>4. CASE IsStatementNode(k)
      <4>1. Gram(k, "STATEMENT")
        BY <3>4, StatementNodes
      <4>2. PICK i, m, c, d : i = l + LabelsOf(k) /\ m = LabelAfter[Fourth(k)][i] /\ c = Fourth(k) /\ d = After(k)
        OBVIOUS
      <4>3. /\ i \in Nat /\ m \in Nat
            /\ c \in Nat /\ (c = 0 \/ (c \in Nodes /\ c > k))
            /\ d \in Nat /\ (d = 0 \/ (d \in Nodes /\ d > k))
        BY <1>1, <3>1, <4>2, Inside
      <4>4. Block[k][l] = StatementLines(k, l, Block[c][i]) \o Block[d][m]
        BY <3>2, <3>4, <4>2 DEF BlockFrom
      <4>5. 0 \notin Nodes
        BY <1>1
      <4>6. Sound(Block[c][i])
        <5>1. CASE c = 0
          BY <1>3, <4>3, <4>5, <5>1
        <5>2. CASE c \in Nodes /\ c > k
          <6>1. k + 1 <= c
            BY <1>1, <3>1, <5>2
          <6>. QED  BY <2>1, <4>3, <5>2, <6>1
        <5>. QED  BY <4>3, <5>1, <5>2
      <4>7. Sound(Block[d][m])
        <5>1. CASE d = 0
          BY <1>3, <4>3, <4>5, <5>1
        <5>2. CASE d \in Nodes /\ d > k
          <6>1. k + 1 <= d
            BY <1>1, <3>1, <5>2
          <6>. QED  BY <2>1, <4>3, <5>2, <6>1
        <5>. QED  BY <4>3, <5>1, <5>2
      <4>8. Sound(StatementLines(k, l, Block[c][i]))
        BY <4>1, <4>6, StatementSound
      <4>. QED  BY <4>4, <4>7, <4>8, SoundOn
    <3>. QED  BY <3>3, <3>4
  <2>3. ASSUME NEW n \in Nodes, NEW l \in Nat, k <= n PROVE Sound(Block[n][l])
    <3>1. n = k \/ k + 1 <= n
      BY <1>1, <2>3
    <3>. QED  BY <2>1, <2>2, <3>1
  <2>4. k \in Nat
    OBVIOUS
  <2>. QED  BY <2>3, <2>4
<1>6. \A k \in 1 .. N + 1 : k \in S
  <2>. HIDE DEF S
  <2>. QED  BY <1>1, <1>4, <1>5, Backwards
<1>7. \A n \in Nodes, l \in Nat : Sound(Block[n][l])
  <2>1. 1 \in 1 .. N + 1
    BY <1>1
  <2>2. 1 \in S
    <3>. HIDE DEF S
    <3>. QED  BY <1>6, <2>1
  <2>3. \A n \in Nodes : 1 <= n
    BY <1>1
  <2>. QED  BY <2>2, <2>3
<1>. QED  BY <1>3, <1>7

\* The body of main: from its first line to the ret that ends it.
LEMMA MainSound ==
  ASSUME NEW q, Fit(q), cc \in CONVENTIONS
  PROVE  /\ Sound(MainLines) /\ Len(MainLines) \in Nat /\ Len(MainLines) >= 1
         /\ MainLines[Len(MainLines)].line.op = "ret"
<1>1. PICK l, p : l = Line("ret", None, None) /\ p = Len(tokens) + 1
  OBVIOUS
<1>2. PICK b, t : b = Block[First(Head_)][0] /\ t = At(p, <<l>>)
  OBVIOUS
<1>3. MainLines = b \o t
  BY <1>1, <1>2 DEF MainLines, First
<1>4. Sound(b)
  <2>1. First(Head_) \in Nat /\ 0 \in Nat
    <3>1. First(Head_) = 0 \/ First(Head_) \in Nodes
      BY Kinds DEF Fit
    <3>. QED  BY <3>1 DEF Fit, Forward, Nodes
  <2>. QED  BY <1>2, <2>1, BlockSound
<1>5. l.op = "ret" /\ l.dst[1] = "none" /\ l.src[1] = "none"
  BY <1>1, LineFacts
<1>6. Whole(<<l>>)
  <2>1. Flow(l, Nothing, Nothing)
    BY <1>5 DEF Flow, Nothing, Knows
  <2>2. Named(l)
    BY <1>5 DEF Named
  <2>. QED  BY <2>1, <2>2, NothingState, FollowsBy DEF Whole
<1>7. Sound(t)
  BY <1>2, <1>6, WholeSound
<1>8. IsSeq(b) /\ IsSeq(t)
  BY <1>4, <1>7 DEF Sound, Leads
<1>9. Len(t) = 1 /\ t[1].line = l
  <2>1. PICK x : x = <<l>>
    OBVIOUS
  <2>2. Len(x) = 1 /\ x[1] = l /\ x \in Seq({l})
    BY <2>1
  <2>3. t = [i \in 1 .. Len(x) |-> [line |-> x[i], place |-> p]]
    BY <1>2, <2>1 DEF At
  <2>. QED  BY <2>2, <2>3
<1>10. /\ Len(b) \in Nat /\ Len(b \o t) = Len(b) + Len(t)
       /\ \A i \in 1 .. Len(t) : (b \o t)[Len(b) + i] = t[i]
  BY <1>8, IsSeqFacts
<1>11. PICK m : m = b \o t
  OBVIOUS
<1>12. Len(m) = Len(b) + 1 /\ m[Len(b) + 1] = t[1]
  BY <1>9, <1>10, <1>11
<1>13. Sound(m)
  BY <1>4, <1>7, <1>11, SoundOn
<1>. QED  BY <1>3, <1>5, <1>9, <1>10, <1>11, <1>12, <1>13

LEMMA SameNext == F!Next => FP!Next
BY Zenon DEF F!P!STATEMENT_START_KEYWORDS, FP!P!STATEMENT_START_KEYWORDS, F!P!CONTROL_FLOW_TOKENS,
  FP!P!CONTROL_FLOW_TOKENS, F!P!COMPARISON_OPS, FP!P!COMPARISON_OPS, F!P!SIGNS, FP!P!SIGNS,
  F!P!TOKEN, FP!P!TOKEN, F!P!vars, FP!P!vars, F!P!Frame, FP!P!Frame, F!P!Start, FP!P!Start,
  F!P!Init, FP!P!Init, F!P!Running, FP!P!Running, F!P!Top, FP!P!Top, F!P!Below, FP!P!Below,
  F!P!In, FP!P!In, F!P!At, FP!P!At, F!P!Done, FP!P!Done, F!P!Expect, FP!P!Expect, F!P!WithToken,
  FP!P!WithToken, F!P!Here, FP!P!Here, F!P!FILE_START, FP!P!FILE_START, F!P!Recovered, FP!P!Recovered, F!P!Recover, FP!P!Recover,
  F!P!Resume, FP!P!Resume, F!P!Call, FP!P!Call, F!P!Return, FP!P!Return, F!P!ParsePrimary,
  FP!P!ParsePrimary, F!P!ParseUnary, FP!P!ParseUnary, F!P!ParseChain, FP!P!ParseChain,
  F!P!ParseTerm, FP!P!ParseTerm, F!P!ParseExpression, FP!P!ParseExpression, F!P!ParseComparison,
  FP!P!ParseComparison, F!P!Token, FP!P!Token, F!P!Part, FP!P!Part, F!P!TokenOr, FP!P!TokenOr,
  F!P!Ident, FP!P!Ident, F!P!Form, FP!P!Form, F!P!InForm, FP!P!InForm, F!P!Item, FP!P!Item,
  F!P!StatementToken, FP!P!StatementToken, F!P!StatementCall, FP!P!StatementCall,
  F!P!StatementBlock, FP!P!StatementBlock, F!P!StatementResume, FP!P!StatementResume,
  F!P!StatementFail, FP!P!StatementFail, F!P!StatementEnd, FP!P!StatementEnd, F!P!InLoop,
  FP!P!InLoop, F!P!AtLoop, FP!P!AtLoop, F!P!AtBlockEnd, FP!P!AtBlockEnd, F!P!StarReturn,
  FP!P!StarReturn, F!P!StarUnknown, FP!P!StarUnknown, F!P!StarStatement, FP!P!StarStatement,
  F!P!StarRecover, FP!P!StarRecover, F!P!Finished, FP!P!Finished, F!P!Next, FP!P!Next,
  F!P!GRAMMAR_TYPE, FP!P!GRAMMAR_TYPE, F!P!NodeOK, FP!P!NodeOK, F!P!TypeOK, FP!P!TypeOK,
  F!P!TreeWellFormed, FP!P!TreeWellFormed, F!P!TokenNodes, FP!P!TokenNodes, F!P!ConsumedOnce,
  FP!P!ConsumedOnce, F!P!StatementsKept, FP!P!StatementsKept, F!P!SkipsReported,
  FP!P!SkipsReported, F!P!RecoveryAccounted, FP!P!RecoveryAccounted, F!P!OnlyForward,
  FP!P!OnlyForward, F!P!Terminates, FP!P!Terminates, F!P!NO_NODE, FP!P!NO_NODE, F!P!Head_,
  FP!P!Head_, F!P!TokenNode, FP!P!TokenNode, F!P!GrammarNode, FP!P!GrammarNode, F!P!IsToken,
  FP!P!IsToken, F!P!IsGrammar, FP!P!IsGrammar, F!P!LinkLast, FP!P!LinkLast, F!P!AddChild,
  FP!P!AddChild, F!P!AddToken, FP!P!AddToken, F!P!AddGrammar, FP!P!AddGrammar, F!P!FirstChild,
  FP!P!FirstChild, F!P!NextSibling, FP!P!NextSibling, F!P!Ids, FP!P!Ids, F!P!LinksForward,
  FP!P!LinksForward, F!P!EndsMeet, FP!P!EndsMeet, F!P!LinksInjective, FP!P!LinksInjective,
  F!P!NoOrphan, FP!P!NoOrphan, F!P!IsTree, FP!P!IsTree, F!P!Extends, FP!P!Extends, F!NO_NODE,
  FP!NO_NODE, F!Head_, FP!Head_, F!TokenNode, FP!TokenNode, F!GrammarNode, FP!GrammarNode,
  F!IsToken, FP!IsToken, F!IsGrammar, FP!IsGrammar, F!LinkLast, FP!LinkLast, F!AddChild,
  FP!AddChild, F!AddToken, FP!AddToken, F!AddGrammar, FP!AddGrammar, F!FirstChild, FP!FirstChild,
  F!NextSibling, FP!NextSibling, F!Ids, FP!Ids, F!LinksForward, FP!LinksForward, F!EndsMeet,
  FP!EndsMeet, F!LinksInjective, FP!LinksInjective, F!NoOrphan, FP!NoOrphan, F!IsTree, FP!IsTree,
  F!Extends, FP!Extends, F!visitorVars, FP!visitorVars, F!Idle, FP!Idle, F!StartTraversal,
  FP!StartTraversal, F!Current, FP!Current, F!Parent, FP!Parent, F!Above, FP!Above, F!IsStatement,
  FP!IsStatement, F!StatementAncestor, FP!StatementAncestor, F!AtToken, FP!AtToken, F!Continue,
  FP!Continue, F!Stop, FP!Stop, F!EnterGrammar, FP!EnterGrammar, F!Popped, FP!Popped, F!LeaveNode,
  FP!LeaveNode, F!Walk, FP!Walk, F!StatementsOfPath, FP!StatementsOfPath, F!tableVars,
  FP!tableVars, F!Empty, FP!Empty, F!NoTables, FP!NoTables, F!TokenAt, FP!TokenAt, F!TextAt,
  FP!TextAt, F!Sibling, FP!Sibling, F!HasIdent, FP!HasIdent, F!Info, FP!Info, F!Put, FP!Put,
  F!CollectLiteral, FP!CollectLiteral, F!CollectLabel, FP!CollectLabel, F!CollectVariable,
  FP!CollectVariable, F!CollectNothing, FP!CollectNothing, F!CollectToken, FP!CollectToken,
  F!Collect, FP!Collect, F!analyzerVars, FP!analyzerVars, F!NotChecked, FP!NotChecked, F!Report,
  FP!Report, F!Place, FP!Place, F!Name, FP!Name, F!CheckMalformed, FP!CheckMalformed, F!CheckGoto,
  FP!CheckGoto, F!CheckLabel, FP!CheckLabel, F!NamesLabel, FP!NamesLabel, F!InOwnDeclaration,
  FP!InOwnDeclaration, F!VariableErrors, FP!VariableErrors, F!CheckIdent, FP!CheckIdent,
  F!CheckOther, FP!CheckOther, F!CheckToken, FP!CheckToken, F!Check, FP!Check, F!parserVars,
  FP!parserVars, F!vars, FP!vars, F!Init, FP!Init, F!Parse, FP!Parse, F!StartCollect,
  FP!StartCollect, F!CollectNode, FP!CollectNode, F!StartCheck, FP!StartCheck, F!CheckNode,
  FP!CheckNode, F!EndCheck, FP!EndCheck, F!Finished, FP!Finished, F!Next, FP!Next, F!Places,
  FP!Places, F!IdentsAfter, FP!IdentsAfter, F!VariablePlaces, FP!VariablePlaces, F!Labels,
  FP!Labels, F!FirstOf, FP!FirstOf, F!StatementStart, FP!StatementStart, F!UniqueLabels,
  FP!UniqueLabels, F!JumpsLand, FP!JumpsLand, F!DeclaredBefore, FP!DeclaredBefore, F!Meaningful,
  FP!Meaningful, F!OneKind, FP!OneKind, F!Accepted, FP!Accepted, F!AcceptsMeaningful,
  FP!AcceptsMeaningful, F!Kept, FP!Kept, F!FirstDeclarations, FP!FirstDeclarations,
  F!LiteralsApart, FP!LiteralsApart, F!StopIsReported, FP!StopIsReported, F!StatementStackRight,
  FP!StatementStackRight, F!TablesRight, FP!TablesRight, F!LabelsAreNotVariables,
  FP!LabelsAreNotVariables

LEMMA SameInit == F!Init => FP!Init
BY Zenon DEF F!P!STATEMENT_START_KEYWORDS, FP!P!STATEMENT_START_KEYWORDS, F!P!CONTROL_FLOW_TOKENS,
  FP!P!CONTROL_FLOW_TOKENS, F!P!COMPARISON_OPS, FP!P!COMPARISON_OPS, F!P!SIGNS, FP!P!SIGNS,
  F!P!TOKEN, FP!P!TOKEN, F!P!vars, FP!P!vars, F!P!Frame, FP!P!Frame, F!P!Start, FP!P!Start,
  F!P!Init, FP!P!Init, F!P!Running, FP!P!Running, F!P!Top, FP!P!Top, F!P!Below, FP!P!Below,
  F!P!In, FP!P!In, F!P!At, FP!P!At, F!P!Done, FP!P!Done, F!P!Expect, FP!P!Expect, F!P!WithToken,
  FP!P!WithToken, F!P!Here, FP!P!Here, F!P!FILE_START, FP!P!FILE_START, F!P!Recovered, FP!P!Recovered, F!P!Recover, FP!P!Recover,
  F!P!Resume, FP!P!Resume, F!P!Call, FP!P!Call, F!P!Return, FP!P!Return, F!P!ParsePrimary,
  FP!P!ParsePrimary, F!P!ParseUnary, FP!P!ParseUnary, F!P!ParseChain, FP!P!ParseChain,
  F!P!ParseTerm, FP!P!ParseTerm, F!P!ParseExpression, FP!P!ParseExpression, F!P!ParseComparison,
  FP!P!ParseComparison, F!P!Token, FP!P!Token, F!P!Part, FP!P!Part, F!P!TokenOr, FP!P!TokenOr,
  F!P!Ident, FP!P!Ident, F!P!Form, FP!P!Form, F!P!InForm, FP!P!InForm, F!P!Item, FP!P!Item,
  F!P!StatementToken, FP!P!StatementToken, F!P!StatementCall, FP!P!StatementCall,
  F!P!StatementBlock, FP!P!StatementBlock, F!P!StatementResume, FP!P!StatementResume,
  F!P!StatementFail, FP!P!StatementFail, F!P!StatementEnd, FP!P!StatementEnd, F!P!InLoop,
  FP!P!InLoop, F!P!AtLoop, FP!P!AtLoop, F!P!AtBlockEnd, FP!P!AtBlockEnd, F!P!StarReturn,
  FP!P!StarReturn, F!P!StarUnknown, FP!P!StarUnknown, F!P!StarStatement, FP!P!StarStatement,
  F!P!StarRecover, FP!P!StarRecover, F!P!Finished, FP!P!Finished, F!P!Next, FP!P!Next,
  F!P!GRAMMAR_TYPE, FP!P!GRAMMAR_TYPE, F!P!NodeOK, FP!P!NodeOK, F!P!TypeOK, FP!P!TypeOK,
  F!P!TreeWellFormed, FP!P!TreeWellFormed, F!P!TokenNodes, FP!P!TokenNodes, F!P!ConsumedOnce,
  FP!P!ConsumedOnce, F!P!StatementsKept, FP!P!StatementsKept, F!P!SkipsReported,
  FP!P!SkipsReported, F!P!RecoveryAccounted, FP!P!RecoveryAccounted, F!P!OnlyForward,
  FP!P!OnlyForward, F!P!Terminates, FP!P!Terminates, F!P!NO_NODE, FP!P!NO_NODE, F!P!Head_,
  FP!P!Head_, F!P!TokenNode, FP!P!TokenNode, F!P!GrammarNode, FP!P!GrammarNode, F!P!IsToken,
  FP!P!IsToken, F!P!IsGrammar, FP!P!IsGrammar, F!P!LinkLast, FP!P!LinkLast, F!P!AddChild,
  FP!P!AddChild, F!P!AddToken, FP!P!AddToken, F!P!AddGrammar, FP!P!AddGrammar, F!P!FirstChild,
  FP!P!FirstChild, F!P!NextSibling, FP!P!NextSibling, F!P!Ids, FP!P!Ids, F!P!LinksForward,
  FP!P!LinksForward, F!P!EndsMeet, FP!P!EndsMeet, F!P!LinksInjective, FP!P!LinksInjective,
  F!P!NoOrphan, FP!P!NoOrphan, F!P!IsTree, FP!P!IsTree, F!P!Extends, FP!P!Extends, F!NO_NODE,
  FP!NO_NODE, F!Head_, FP!Head_, F!TokenNode, FP!TokenNode, F!GrammarNode, FP!GrammarNode,
  F!IsToken, FP!IsToken, F!IsGrammar, FP!IsGrammar, F!LinkLast, FP!LinkLast, F!AddChild,
  FP!AddChild, F!AddToken, FP!AddToken, F!AddGrammar, FP!AddGrammar, F!FirstChild, FP!FirstChild,
  F!NextSibling, FP!NextSibling, F!Ids, FP!Ids, F!LinksForward, FP!LinksForward, F!EndsMeet,
  FP!EndsMeet, F!LinksInjective, FP!LinksInjective, F!NoOrphan, FP!NoOrphan, F!IsTree, FP!IsTree,
  F!Extends, FP!Extends, F!visitorVars, FP!visitorVars, F!Idle, FP!Idle, F!StartTraversal,
  FP!StartTraversal, F!Current, FP!Current, F!Parent, FP!Parent, F!Above, FP!Above, F!IsStatement,
  FP!IsStatement, F!StatementAncestor, FP!StatementAncestor, F!AtToken, FP!AtToken, F!Continue,
  FP!Continue, F!Stop, FP!Stop, F!EnterGrammar, FP!EnterGrammar, F!Popped, FP!Popped, F!LeaveNode,
  FP!LeaveNode, F!Walk, FP!Walk, F!StatementsOfPath, FP!StatementsOfPath, F!tableVars,
  FP!tableVars, F!Empty, FP!Empty, F!NoTables, FP!NoTables, F!TokenAt, FP!TokenAt, F!TextAt,
  FP!TextAt, F!Sibling, FP!Sibling, F!HasIdent, FP!HasIdent, F!Info, FP!Info, F!Put, FP!Put,
  F!CollectLiteral, FP!CollectLiteral, F!CollectLabel, FP!CollectLabel, F!CollectVariable,
  FP!CollectVariable, F!CollectNothing, FP!CollectNothing, F!CollectToken, FP!CollectToken,
  F!Collect, FP!Collect, F!analyzerVars, FP!analyzerVars, F!NotChecked, FP!NotChecked, F!Report,
  FP!Report, F!Place, FP!Place, F!Name, FP!Name, F!CheckMalformed, FP!CheckMalformed, F!CheckGoto,
  FP!CheckGoto, F!CheckLabel, FP!CheckLabel, F!NamesLabel, FP!NamesLabel, F!InOwnDeclaration,
  FP!InOwnDeclaration, F!VariableErrors, FP!VariableErrors, F!CheckIdent, FP!CheckIdent,
  F!CheckOther, FP!CheckOther, F!CheckToken, FP!CheckToken, F!Check, FP!Check, F!parserVars,
  FP!parserVars, F!vars, FP!vars, F!Init, FP!Init, F!Parse, FP!Parse, F!StartCollect,
  FP!StartCollect, F!CollectNode, FP!CollectNode, F!StartCheck, FP!StartCheck, F!CheckNode,
  FP!CheckNode, F!EndCheck, FP!EndCheck, F!Finished, FP!Finished, F!Next, FP!Next, F!Places,
  FP!Places, F!IdentsAfter, FP!IdentsAfter, F!VariablePlaces, FP!VariablePlaces, F!Labels,
  FP!Labels, F!FirstOf, FP!FirstOf, F!StatementStart, FP!StatementStart, F!UniqueLabels,
  FP!UniqueLabels, F!JumpsLand, FP!JumpsLand, F!DeclaredBefore, FP!DeclaredBefore, F!Meaningful,
  FP!Meaningful, F!OneKind, FP!OneKind, F!Accepted, FP!Accepted, F!AcceptsMeaningful,
  FP!AcceptsMeaningful, F!Kept, FP!Kept, F!FirstDeclarations, FP!FirstDeclarations,
  F!LiteralsApart, FP!LiteralsApart, F!StopIsReported, FP!StopIsReported, F!StatementStackRight,
  FP!StatementStackRight, F!TablesRight, FP!TablesRight, F!LabelsAreNotVariables,
  FP!LabelsAreNotVariables

LEMMA ProgramsRight ==
  \A program \in Programs :
    /\ program.tokens \in Seq(FP!P!TOKEN)
    /\ Len(program.text) = Len(program.tokens)
<1>1. F!P!TOKEN = FP!P!TOKEN
  BY Zenon DEF F!P!TOKEN, FP!P!TOKEN, F!P!STATEMENT_START_KEYWORDS, FP!P!STATEMENT_START_KEYWORDS,
     F!P!CONTROL_FLOW_TOKENS, FP!P!CONTROL_FLOW_TOKENS, F!P!COMPARISON_OPS, FP!P!COMPARISON_OPS,
     F!P!SIGNS, FP!P!SIGNS
<1>. QED  BY <1>1, CompilerAssumption, Zenon

LEMMA FrontendInit == F!Init => FP!FInv /\ FP!MInv /\ FP!DerivedInv
BY SameInit, ProgramsRight, FP!InitFInv, FP!InitMInv, FP!InitDerivedInv, Zenon

LEMMA FrontendStep ==
  FP!FInv /\ FP!MInv /\ FP!DerivedInv /\ F!Next => FP!FInv' /\ FP!MInv' /\ FP!DerivedInv'
BY SameNext, ProgramsRight, FP!StepFInv, FP!StepMInv, FP!StepDerivedInv, Zenon

LEMMA FrontendStays ==
  FP!FInv /\ FP!MInv /\ FP!DerivedInv /\ UNCHANGED frontendVars
    => FP!FInv' /\ FP!MInv' /\ FP!DerivedInv'
<1>1. UNCHANGED frontendVars => UNCHANGED FP!vars
  BY Zenon DEF frontendVars, visitorVars, tableVars, FP!vars, FP!parserVars, FP!visitorVars,
               FP!tableVars, FP!analyzerVars
<1>. QED  BY <1>1, ProgramsRight, FP!StepFInv, FP!StepMInv, FP!StepDerivedInv, Zenon

LEMMA FrontendReady ==
  FP!FInv /\ FP!MInv /\ FP!DerivedInv /\ stage = "done" /\ errors = <<>> /\ semantic = <<>>
    => \E q : FP!Accepts(q)
BY ProgramsRight, FP!Readiness, Zenon DEF FP!Accepted

LEMMA AcceptsFit == ASSUME NEW q, FP!Accepts(q) PROVE Fit(q)
<1>1. /\ Len(ast) \in Nat
      /\ \A n \in Nodes : First(n) \in {0} \cup (n + 1 .. Len(ast)) /\ After(n) \in {0} \cup (n + 1 .. Len(ast))
  BY DEF FP!Accepts, FP!Nodes, Nodes, First, After, FP!FirstChild, FirstChild, FP!NextSibling,
         NextSibling, FP!IsGrammar, IsGrammar, FP!NO_NODE, NO_NODE
<1>2. \A n \in Nodes : IsToken(ast, n) => ast[n].value \in F!Places
  BY DEF FP!Accepts, FP!Nodes, Nodes, FP!IsToken, IsToken, FP!Places, F!Places
<1>3. FP!PP!Built(ast, q, tokens)
  BY DEF FP!Accepts
<1>4. /\ \A n : FP!PP!FirstChild(ast, n) = First(n)
      /\ \A n : FP!PP!NextSibling(ast, n) = After(n)
      /\ \A n, rule : FP!PP!Gram(ast, n, rule) <=> Gram(n, rule)
      /\ \A n, types : FP!PP!Tok(ast, tokens, n, types) <=> Tok(n, types)
      /\ FP!PP!Ids(ast) = Nodes /\ FP!PP!Head_ = Head_ /\ Head_ = 1
  BY Zenon DEF FP!PP!FirstChild, FP!PP!NextSibling, FP!PP!Gram, FP!PP!Tok, FP!PP!IsGrammar, FP!PP!IsToken,
     FP!PP!NO_NODE, FP!PP!Head_, FP!PP!Ids, First, After, FirstChild, NextSibling, Gram, Tok, IsGrammar, IsToken,
     TokenAt, NO_NODE, Head_, Nodes
<1>5. \A n : Second(n) = After(First(n)) /\ Third(n) = After(Second(n)) /\ Fourth(n) = After(Third(n))
  BY DEF Second, Third, Fourth, First, After
<1>6. First(Head_) = 0 \/ (Gram(First(Head_), "STATEMENT") /\ q[First(Head_)].up = Head_)
  BY <1>3, <1>4, Zenon DEF FP!PP!Built
<1>7. ASSUME NEW n \in Nodes PROVE ExpressionFit(n)
  <2>1. FP!PP!ExpressionBuilt(ast, tokens, n)
    BY <1>3, <1>4 DEF FP!PP!Built
  <2>2. Gram(n, "PRIMARY") /\ TokenAt(First(n)) = "IDENT" => ast[First(n)].value \in F!VariablePlaces
    <3>1. FP!VariablePlaces = F!VariablePlaces
      BY Zenon DEF FP!VariablePlaces, F!VariablePlaces, FP!IdentsAfter, F!IdentsAfter, FP!Places, F!Places
    <3>2. FP!TokenAt(FP!FirstChild(ast, n)) = TokenAt(First(n)) /\ FP!FirstChild(ast, n) = First(n)
      BY Zenon DEF FP!TokenAt, TokenAt, FP!FirstChild, First, FirstChild, FP!IsGrammar, IsGrammar, FP!NO_NODE, NO_NODE
    <3>3. FP!Nodes = Nodes
      BY DEF FP!Nodes, Nodes
    <3>. QED  BY <1>4, <3>1, <3>2, <3>3, Zenon DEF FP!Accepts
  <2>3. FP!PP!SIGNS = SIGNS /\ FP!PP!COMPARISON_OPS = COMPARISONS /\ SCALES = {"DIV", "MULT"}
    BY DEF FP!PP!SIGNS, SIGNS, FP!PP!COMPARISON_OPS, COMPARISONS, SCALES
  <2>. QED  BY <1>4, <1>5, <2>1, <2>2, <2>3, Zenon DEF ExpressionFit, FP!PP!ExpressionBuilt
<1>8. ASSUME NEW n \in Nodes, Gram(n, "STATEMENT") PROVE StatementFit(q, n)
  <2>1. FP!PP!StatementBuilt(ast, q, tokens, n)
    BY <1>3, <1>4, <1>8 DEF FP!PP!Built
  <2>2. \A m, k : FP!PP!InBlock(ast, q, tokens, m, k) <=> InBlock(q, m, k)
    BY <1>4, Zenon DEF FP!PP!InBlock, InBlock
  <2>3. q[n].kw \in {"LET", "INPUT", "LABEL", "GOTO"} => ast[Second(n)].value = ast[First(n)].value + 1
    <3>1. HAVE q[n].kw \in {"LET", "INPUT", "LABEL", "GOTO"}
    <3>2. Tok(First(n), {q[n].kw})
      BY <1>4, <2>1, Zenon DEF FP!PP!StatementBuilt
    <3>3. FP!IsToken(ast, First(n)) /\ FP!TokenAt(First(n)) \in FP!NAMERS /\ First(n) \in FP!Nodes
      BY <3>1, <3>2 DEF Tok, IsToken, FP!IsToken, FP!NAMERS, FP!TokenAt, TokenAt, FP!Nodes
    <3>4. FP!NextSibling(ast, First(n)) = Second(n)
      BY <1>5, Zenon DEF FP!NextSibling, NextSibling, After, FP!NO_NODE, NO_NODE
    <3>. QED  BY <3>3, <3>4, Zenon DEF FP!Accepts
  <2>4. FP!PP!STATEMENT_START_KEYWORDS = KEYWORDS /\ FP!PP!NAMERS = {"LET", "INPUT", "LABEL", "GOTO"}
    BY DEF FP!PP!STATEMENT_START_KEYWORDS, KEYWORDS, FP!PP!NAMERS
  <2>. QED  BY <1>4, <1>5, <2>1, <2>2, <2>3, <2>4, Zenon DEF StatementFit, FP!PP!StatementBuilt
<1>. QED  BY <1>1, <1>2, <1>6, <1>7, <1>8, Zenon DEF Fit, Forward

-----------------------------------------------------------------------------
(***************************************************************************)
(* The program runs as its lines say.                                      *)
(***************************************************************************)
Numbers(values) == \A v \in values : v[1] = "int"

\* The machine is in a state of which s is known.
Holds(s) ==
  /\ \E S : pushed \in Seq(S) /\ Numbers(S)
  /\ Len(pushed) = s.depth
  /\ \A r \in s.known : reg[r][1] = "int"
  /\ s.string => reg[cc.arg][1] = "static"

\* Every jump has a line to go to.
JumpsFound ==
  \A i \in 1 .. Len(code) : code[i].line.op \in JUMPS =>
    \E l \in 1 .. Len(code) : code[l].line.op = "label" /\ code[l].line.dst = code[i].line.dst

\* The state before the line that is next, if what is known of the lines is f.
Ready(f) == pc \in 1 .. Len(code) /\ DOMAIN reg = M!Registers /\ Holds(f[pc])

LEMMA KnownValues ==
  ASSUME NEW s, Holds(s), NEW operand, Number_(operand, s) \/ operand[1] \in {"number", "_var_"}
  PROVE  M!ValueOf(operand)[1] = "int"
<1>1. CASE operand[1] = "reg"
  <2>1. operand[2] \in s.known
    BY <1>1 DEF Number_
  <2>. QED  BY <1>1, <2>1 DEF Holds, M!ValueOf
<1>2. CASE operand[1] = "number"
  BY <1>2 DEF M!ValueOf, M!Num
<1>3. CASE operand[1] = "_var_"
  BY <1>3 DEF M!ValueOf, M!Num
<1>. QED  BY <1>1, <1>2, <1>3 DEF Number_

LEMMA ConventionRegisters ==
  ASSUME cc \in CONVENTIONS
  PROVE  /\ cc.arg \in M!Registers /\ cc.ret = "rax" /\ cc.scratch = "r10" /\ cc.arg \notin {"rax", "r10", "rdx"}
         /\ \A n : n = 0 => (cc.shadow_space + cc.ptr_size * n) % cc.stack_alignment = 0
<1>1. cc = CC_MS_64 \/ cc = CC_SYSTEM_V_64
  BY DEF CONVENTIONS, get_calling_convention
<1>. QED  BY <1>1 DEF CC_MS_64, CC_SYSTEM_V_64, M!Registers

\* What one line does to the state, for each kind of line.
LEMMA AfterSet ==
  ASSUME NEW s, NEW t, Holds(s), DOMAIN reg = M!Registers, s \in States, t \in States,
         NEW r \in M!Registers, NEW v, M!Set(r, v),
         t.known \subseteq s.known \cup {r}, v[1] = "int" \/ r \notin t.known,
         t.string => r = cc.arg /\ v[1] = "static",
         UNCHANGED <<pushed, cc>>, t.depth = s.depth
  PROVE  DOMAIN reg' = M!Registers /\ Holds(t)'
<1>1. DOMAIN reg' = M!Registers /\ \A x \in M!Registers : reg'[x] = IF x = r THEN v ELSE reg[x]
  BY DEF M!Set
<1>2. \A x \in t.known : reg'[x][1] = "int"
  BY <1>1 DEF Holds, States
<1>3. t.string => reg'[cc.arg][1] = "static"
  BY <1>1
<1>. QED  BY <1>1, <1>2, <1>3 DEF Holds, Numbers

LEMMA FlowOps ==
  ASSUME NEW l, NEW s, NEW t, Flow(l, s, t)
  PROVE  /\ l.op \in {"mov", "lea", "push", "pop", "add", "sub", "imul", "cmp", "neg", "cqo", "idiv",
                      "label", "call", "ret"} \cup JUMPS
         /\ l.op = "mov" =>
              \/ /\ l.dst[1] = "reg" /\ l.dst[2] \in M!Registers
                 /\ l.src[1] \in {"number", "_var_"} \/ Number_(l.src, s)
                 /\ t.depth = s.depth /\ t.known \subseteq s.known \cup {l.dst[2]} /\ ~ t.string
              \/ /\ l.dst[1] = "_var_" /\ Number_(l.src, s)
                 /\ t.depth = s.depth /\ t.known \subseteq s.known /\ ~ t.string
         /\ l.op = "lea" =>
              /\ l.dst = Arg /\ l.src[1] = "_static_" /\ t.depth = s.depth /\ t.known = {}
         /\ l.op = "push" =>
              /\ Number_(l.dst, s) /\ t.depth = s.depth + 1 /\ t.known \subseteq s.known /\ ~ t.string
         /\ l.op = "pop" =>
              /\ l.dst[1] = "reg" /\ l.dst[2] \in M!Registers
              /\ s.depth = t.depth + 1 /\ t.known \subseteq s.known \cup {l.dst[2]} /\ ~ t.string
         /\ l.op \in {"add", "sub", "imul", "cmp"} =>
              /\ Number_(l.dst, s) /\ Number_(l.src, s)
              /\ t.depth = s.depth /\ t.known \subseteq s.known /\ ~ t.string
         /\ l.op = "neg" =>
              /\ Number_(l.dst, s) /\ t.depth = s.depth /\ t.known \subseteq s.known /\ ~ t.string
         /\ l.op = "cqo" =>
              /\ "rax" \in s.known /\ t.depth = s.depth /\ t.known \subseteq s.known \cup {"rdx"} /\ ~ t.string
         /\ l.op = "idiv" =>
              /\ Number_(l.dst, s) /\ {"rax", "rdx"} \subseteq s.known
              /\ t.depth = s.depth /\ t.known \subseteq s.known /\ ~ t.string
         /\ l.op \in JUMPS =>
              l.dst[1] \in {".LAB", ".ILAB"} /\ s.depth = 0 /\ t = Nothing
         /\ l.op = "label" => s = Nothing /\ t = Nothing
         /\ l.op = "call" =>
              \/ l.dst[2] = "print_integer" /\ cc.arg \in s.known /\ s.depth = 0 /\ t = Nothing
              \/ l.dst[2] = "print_string" /\ s.string /\ s.depth = 0 /\ t = Nothing
              \/ /\ l.dst[2] = "input_integer"
                 /\ s.depth = 0 /\ t.depth = 0 /\ t.known \subseteq {cc.ret} /\ ~ t.string
         /\ l.op = "ret" => s.depth = 0
<1>1. "label" \notin JUMPS /\ "call" \notin JUMPS /\ "ret" \notin JUMPS
      /\ JUMPS \cap {"mov", "lea", "push", "pop", "add", "sub", "imul", "cmp", "neg", "cqo", "idiv"} = {}
  BY DEF JUMPS
<1>. QED  BY <1>1 DEF Flow

\* A line that only changes memory, flags or nothing.
LEMMA AfterNone ==
  ASSUME NEW s, NEW t, Holds(s), DOMAIN reg = M!Registers,
         UNCHANGED <<reg, pushed, cc>>, t.depth = s.depth, t.known \subseteq s.known, ~ t.string
  PROVE  DOMAIN reg' = M!Registers /\ Holds(t)'
BY DEF Holds, Numbers

LEMMA NothingHolds ==
  ASSUME NEW s, Holds(s), s.depth = 0, DOMAIN reg' = M!Registers, UNCHANGED pushed,
         NEW t, t = Nothing
  PROVE  Holds(t)'
BY DEF Holds, Numbers, Nothing, Knows

LEMMA MoveHolds ==
  ASSUME NEW s \in States, NEW t \in States, cc \in CONVENTIONS, Holds(s), DOMAIN reg = M!Registers,
         Flow(M!Now, s, t), M!Move, UNCHANGED cc
  PROVE  DOMAIN reg' = M!Registers /\ Holds(t)'
<1>1. PICK l : l = M!Now
  OBVIOUS
<1>2. l.op \in {"mov", "lea"} /\ UNCHANGED pushed
  BY <1>1 DEF M!Move, M!Running
<1>3. CASE l.op = "mov" /\ l.dst[1] = "reg"
  <2>1. M!Set(l.dst[2], M!ValueOf(l.src))
    BY <1>1, <1>3 DEF M!Move
  <2>2. /\ l.dst[2] \in M!Registers
        /\ l.src[1] \in {"number", "_var_"} \/ Number_(l.src, s)
        /\ t.depth = s.depth /\ t.known \subseteq s.known \cup {l.dst[2]} /\ ~ t.string
    BY <1>1, <1>3, FlowOps
  <2>3. M!ValueOf(l.src)[1] = "int"
    BY <2>2, KnownValues
  <2>. QED  BY <1>2, <2>1, <2>2, <2>3, AfterSet
<1>4. CASE l.op = "mov" /\ l.dst[1] # "reg"
  <2>1. UNCHANGED reg
    BY <1>1, <1>4 DEF M!Move
  <2>2. t.depth = s.depth /\ t.known \subseteq s.known /\ ~ t.string
    BY <1>1, <1>4, FlowOps
  <2>. QED  BY <1>2, <2>1, <2>2, AfterNone
<1>5. CASE l.op = "lea"
  <2>1. l.dst[1] = "reg" /\ l.dst[2] = cc.arg /\ l.src[1] = "_static_" /\ t.depth = s.depth /\ t.known = {}
    BY <1>1, <1>5, FlowOps DEF Arg, Reg
  <2>2. M!Set(cc.arg, M!ValueOf(l.src))
    BY <1>1, <2>1 DEF M!Move
  <2>3. M!ValueOf(l.src)[1] = "static"
    <3>1. M!ValueOf(l.src) = M!Address(l.src[2])
      BY <2>1 DEF M!ValueOf
    <3>. QED  BY <3>1 DEF M!Address
  <2>. QED  BY <1>2, <2>1, <2>2, <2>3, AfterSet, ConventionRegisters
<1>. QED  BY <1>2, <1>3, <1>4, <1>5

LEMMA PushHolds ==
  ASSUME NEW s \in States, NEW t \in States, cc \in CONVENTIONS, Holds(s), DOMAIN reg = M!Registers,
         Flow(M!Now, s, t), M!Push, UNCHANGED cc
  PROVE  DOMAIN reg' = M!Registers /\ Holds(t)'
<1>1. PICK l : l = M!Now
  OBVIOUS
<1>2. l.op = "push" /\ UNCHANGED reg /\ pushed' = Append(pushed, M!ValueOf(l.dst))
  BY <1>1 DEF M!Push, M!Running
<1>3. Number_(l.dst, s) /\ t.depth = s.depth + 1 /\ t.known \subseteq s.known /\ ~ t.string
  BY <1>1, <1>2, FlowOps
<1>4. PICK v : v = M!ValueOf(l.dst)
  OBVIOUS
<1>5. v[1] = "int"
  BY <1>3, <1>4, KnownValues
<1>6. PICK S : pushed \in Seq(S) /\ Numbers(S)
  BY DEF Holds
<1>7. PICK U : U = S \cup {v}
  OBVIOUS
<1>8. pushed \in Seq(U) /\ v \in U /\ Numbers(U)
  BY <1>5, <1>6, <1>7 DEF Numbers
<1>9. pushed' \in Seq(U) /\ Len(pushed') = Len(pushed) + 1
  BY <1>2, <1>4, <1>8
<1>. QED  BY <1>2, <1>3, <1>8, <1>9 DEF Holds, Numbers

LEMMA PopHolds ==
  ASSUME NEW s \in States, NEW t \in States, cc \in CONVENTIONS, Holds(s), DOMAIN reg = M!Registers,
         Flow(M!Now, s, t), M!Pop, UNCHANGED cc
  PROVE  DOMAIN reg' = M!Registers /\ Holds(t)'
<1>1. PICK l : l = M!Now
  OBVIOUS
<1>2. PICK v : v = pushed[Len(pushed)]
  OBVIOUS
<1>3. l.op = "pop" /\ M!Set(l.dst[2], v) /\ pushed' = SubSeq(pushed, 1, Len(pushed) - 1) /\ pushed # <<>>
  BY <1>1, <1>2 DEF M!Pop, M!Running
<1>4. /\ l.dst[1] = "reg" /\ l.dst[2] \in M!Registers
      /\ s.depth = t.depth + 1 /\ t.known \subseteq s.known \cup {l.dst[2]} /\ ~ t.string
  BY <1>1, <1>3, FlowOps
<1>5. PICK S : pushed \in Seq(S) /\ Numbers(S)
  BY DEF Holds
<1>6. v \in S /\ v[1] = "int"
  BY <1>2, <1>3, <1>5 DEF Numbers
<1>7. pushed' \in Seq(S) /\ Len(pushed') = Len(pushed) - 1
  <2>1. PICK n : n = Len(pushed)
    OBVIOUS
  <2>2. n \in Nat /\ n # 0 /\ 1 \in 1 .. n + 1 /\ n - 1 \in 1 - 1 .. n
    BY <1>3, <1>5, <2>1, EmptySeq
  <2>3. SubSeq(pushed, 1, n - 1) \in Seq(S) /\ Len(SubSeq(pushed, 1, n - 1)) = n - 1
    BY <1>5, <2>1, <2>2, SubSeqProperties
  <2>. QED  BY <1>3, <2>1, <2>3
<1>8. Len(pushed') = t.depth
  BY <1>4, <1>7 DEF Holds, States
<1>9. DOMAIN reg' = M!Registers /\ \A x \in M!Registers : reg'[x] = IF x = l.dst[2] THEN v ELSE reg[x]
  BY <1>3, <1>4 DEF M!Set
<1>10. \A x \in t.known : reg'[x][1] = "int"
  BY <1>4, <1>6, <1>9 DEF Holds, States
<1>. QED  BY <1>4, <1>5, <1>7, <1>8, <1>9, <1>10 DEF Holds, Numbers

LEMMA ArithmeticHolds ==
  ASSUME NEW s \in States, NEW t \in States, cc \in CONVENTIONS, Holds(s), DOMAIN reg = M!Registers,
         Flow(M!Now, s, t), M!Arithmetic, UNCHANGED cc
  PROVE  DOMAIN reg' = M!Registers /\ Holds(t)'
<1>1. PICK l : l = M!Now
  OBVIOUS
<1>2. UNCHANGED pushed /\ ~ t.string /\ t.depth = s.depth
  BY <1>1, FlowOps DEF M!Arithmetic, M!Running
<1>3. CASE l.op \in {"add", "sub", "imul", "neg"}
  <2>1. PICK v : M!Set(l.dst[2], v) /\ v[1] = "int"
    BY <1>1, <1>3 DEF M!Arithmetic, M!Running, M!Num
  <2>2. Number_(l.dst, s) /\ t.known \subseteq s.known
    BY <1>1, <1>3, FlowOps
  <2>3. l.dst[2] \in M!Registers
    BY <2>2 DEF Number_, States
  <2>. QED  BY <1>2, <2>1, <2>2, <2>3, AfterSet
<1>4. CASE l.op = "cqo"
  <2>1. PICK v : M!Set("rdx", v) /\ v[1] = "int"
    BY <1>1, <1>4 DEF M!Arithmetic, M!Running, M!Num
  <2>2. t.known \subseteq s.known \cup {"rdx"}
    BY <1>1, <1>4, FlowOps
  <2>3. "rdx" \in M!Registers
    BY DEF M!Registers
  <2>. QED  BY <1>2, <2>1, <2>2, <2>3, AfterSet
<1>. QED  BY <1>1, <1>3, <1>4 DEF M!Arithmetic, M!Running

LEMMA DivideHolds ==
  ASSUME NEW s \in States, NEW t \in States, cc \in CONVENTIONS, Holds(s), DOMAIN reg = M!Registers,
         Flow(M!Now, s, t), M!Divide, UNCHANGED cc
  PROVE  DOMAIN reg' = M!Registers /\ Holds(t)'
<1>1. M!Now.op = "idiv" /\ UNCHANGED pushed
  BY DEF M!Divide, M!Running
<1>2. t.depth = s.depth /\ t.known \subseteq s.known /\ ~ t.string
  BY <1>1, FlowOps
<1>3. PICK u, v : u[1] = "int" /\ v[1] = "int" /\ reg' = [reg EXCEPT !["rax"] = u, !["rdx"] = v]
  BY DEF M!Divide, M!Num
<1>4. /\ DOMAIN reg' = M!Registers
      /\ \A x \in M!Registers : reg'[x] = u \/ reg'[x] = v \/ reg'[x] = reg[x]
  BY <1>3 DEF M!Registers
<1>5. \A x \in t.known : reg'[x][1] = "int"
  BY <1>2, <1>3, <1>4 DEF Holds, States
<1>. QED  BY <1>1, <1>2, <1>4, <1>5 DEF Holds, Numbers

\* Calls leave junk, and input_integer a number in the result register.
LEMMA CallHolds ==
  ASSUME NEW s \in States, NEW t \in States, cc \in CONVENTIONS, Holds(s),
         Flow(M!Now, s, t), M!PrintInteger \/ M!PrintString \/ M!InputInteger, UNCHANGED cc
  PROVE  DOMAIN reg' = M!Registers /\ Holds(t)'
<1>1. PICK l : l = M!Now
  OBVIOUS
<1>2. l.op = "call" /\ UNCHANGED pushed
  BY <1>1 DEF M!PrintInteger, M!PrintString, M!InputInteger, M!Calls, M!Running
<1>3. s.depth = 0 /\ t.depth = 0 /\ ~ t.string
  BY <1>1, <1>2, FlowOps DEF Nothing, Knows
<1>4. CASE M!PrintInteger \/ M!PrintString
  <2>1. l.dst[2] \in {"print_integer", "print_string"} /\ reg' = M!AllJunk
    BY <1>1, <1>4 DEF M!PrintInteger, M!PrintString, M!Calls
  <2>2. t = Nothing
    BY <1>1, <1>2, <2>1, FlowOps
  <2>3. DOMAIN reg' = M!Registers
    BY <2>1 DEF M!AllJunk
  <2>. QED  BY <1>2, <1>3, <2>2, <2>3, NothingHolds
<1>5. CASE M!InputInteger
  <2>1. l.dst[2] = "input_integer"
    BY <1>1, <1>5 DEF M!InputInteger, M!Calls
  <2>2. t.known \subseteq {cc.ret} /\ cc.ret = "rax"
    BY <1>1, <1>2, <2>1, FlowOps, ConventionRegisters
  <2>3. PICK v : v[1] = "int" /\ reg' = [M!AllJunk EXCEPT !["rax"] = v]
    BY <1>5, ConventionRegisters DEF M!InputInteger, M!Num
  <2>4. DOMAIN reg' = M!Registers /\ reg'["rax"] = v
    BY <2>3 DEF M!AllJunk, M!Registers
  <2>. QED  BY <1>2, <1>3, <2>2, <2>3, <2>4 DEF Holds, Numbers
<1>. QED  BY <1>4, <1>5

LEMMA Executes ==
  ASSUME NEW f, Annotates(f, code, Nothing, Nothing), Ready(f), JumpsFound, cc \in CONVENTIONS,
         Len(code) \in Nat, code[Len(code)].line.op = "ret", status = "running",
         M!Execute, UNCHANGED cc
  PROVE  /\ UNCHANGED code /\ status' \in {"running", "ended", "trapped"}
         /\ status' = "running" => Ready(f)'
<1>1. PICK k, l, s, t : k = pc /\ l = code[k].line /\ s = f[k] /\ t = f[k + 1]
  OBVIOUS
<1>2. k \in 1 .. Len(code) /\ l = M!Now /\ Holds(s) /\ DOMAIN reg = M!Registers
  BY <1>1 DEF Ready, M!Now
<1>3. Flow(l, s, t) /\ s \in States /\ t \in States
  <2>1. k \in 1 .. Len(code) + 1 /\ k + 1 \in 1 .. Len(code) + 1
    BY <1>2
  <2>2. /\ f \in [1 .. Len(code) + 1 -> States]
        /\ \A i \in 1 .. Len(code) : Flow(code[i].line, f[i], f[i + 1])
    BY DEF Annotates
  <2>3. Flow(l, s, t)
    BY <1>1, <1>2, <2>2
  <2>. QED  BY <1>1, <2>1, <2>2, <2>3
<1>4. CASE M!Trap \/ M!End
  BY <1>4 DEF M!Trap, M!End
<1>5. ASSUME pc' = k + 1, UNCHANGED <<code, status>>, DOMAIN reg' = M!Registers, Holds(t)', l.op # "ret"
      PROVE  Ready(f)'
  <2>1. k # Len(code)
    BY <1>1, <1>5
  <2>2. k + 1 \in 1 .. Len(code)
    BY <1>2, <2>1
  <2>3. f[pc'] = t
    BY <1>1, <1>5
  <2>4. pc' \in 1 .. Len(code')
    BY <1>5, <2>2
  <2>5. Holds(f[pc])'
    BY <1>5, <2>3 DEF Holds, Numbers
  <2>. QED  BY <1>5, <2>4, <2>5 DEF Ready
<1>6. CASE M!Move
  BY <1>1, <1>2, <1>3, <1>5, <1>6, MoveHolds DEF M!Move, M!Running, M!Advance, M!Go
<1>7. CASE M!Push
  BY <1>1, <1>2, <1>3, <1>5, <1>7, PushHolds DEF M!Push, M!Running, M!Advance, M!Go
<1>8. CASE M!Pop
  BY <1>1, <1>2, <1>3, <1>5, <1>8, PopHolds DEF M!Pop, M!Running, M!Advance, M!Go
<1>9. CASE M!Arithmetic
  <2>1. l.op \in {"add", "sub", "imul", "neg", "cqo"} /\ pc' = k + 1 /\ UNCHANGED <<code, status>>
    BY <1>1, <1>2, <1>9 DEF M!Arithmetic, M!Running, M!Advance, M!Go
  <2>. QED  BY <1>2, <1>3, <1>5, <1>9, <2>1, ArithmeticHolds
<1>10. CASE M!Divide
  BY <1>1, <1>2, <1>3, <1>5, <1>10, DivideHolds DEF M!Divide, M!Running, M!Advance, M!Go
<1>11. CASE M!Compare
  <2>1. l.op = "cmp" /\ pc' = k + 1 /\ UNCHANGED <<code, status, reg, pushed>>
    BY <1>1, <1>2, <1>11 DEF M!Compare, M!Running, M!Advance, M!Go
  <2>2. t.depth = s.depth /\ t.known \subseteq s.known /\ ~ t.string
    BY <1>3, <2>1, FlowOps
  <2>3. DOMAIN reg' = M!Registers /\ Holds(t)'
    BY <1>2, <2>1, <2>2, AfterNone
  <2>. QED  BY <1>5, <2>1, <2>3
<1>12. CASE M!PassLabel
  <2>1. l.op = "label" /\ pc' = k + 1 /\ UNCHANGED <<code, status, reg, pushed>>
    BY <1>1, <1>2, <1>12 DEF M!PassLabel, M!Running, M!Advance, M!Go
  <2>2. s = Nothing /\ t = Nothing /\ s.depth = 0
    BY <1>3, <2>1, FlowOps DEF Nothing, Knows
  <2>3. DOMAIN reg' = M!Registers /\ Holds(t)'
    BY <1>2, <2>1, <2>2, NothingHolds
  <2>. QED  BY <1>5, <2>1, <2>3
<1>13. CASE M!PrintInteger \/ M!PrintString \/ M!InputInteger
  <2>1. l.op = "call" /\ pc' = k + 1 /\ UNCHANGED <<code, status>>
    BY <1>1, <1>2, <1>13 DEF M!PrintInteger, M!PrintString, M!InputInteger, M!Calls, M!Running, M!Advance, M!Go
  <2>. QED  BY <1>2, <1>3, <1>5, <1>13, <2>1, CallHolds
<1>14. CASE M!Jumps
  <2>1. l.op \in JUMPS /\ UNCHANGED <<code, status, reg, pushed>>
    BY <1>1, <1>2, <1>14 DEF M!Jumps, M!Running, JUMPS
  <2>2. s.depth = 0 /\ t = Nothing
    BY <1>3, <2>1, FlowOps
  <2>3. DOMAIN reg' = M!Registers /\ Holds(Nothing)'
    BY <1>2, <2>1, <2>2, NothingHolds
  <2>4. CASE pc' = k + 1
    <3>1. l.op # "ret"
      BY <2>1 DEF JUMPS
    <3>. QED  BY <1>5, <2>1, <2>2, <2>3, <2>4, <3>1
  <2>5. CASE pc' # k + 1
    <3>1. pc' = M!LineOf(l.dst)
      BY <1>1, <1>2, <1>14, <2>5 DEF M!Jumps, M!Go, M!Advance
    <3>2. \E i \in 1 .. Len(code) : code[i].line.op = "label" /\ code[i].line.dst = l.dst
      BY <1>1, <1>2, <2>1 DEF JumpsFound
    <3>3. M!LineOf(l.dst) \in 1 .. Len(code) /\ code[M!LineOf(l.dst)].line.op = "label"
      BY <3>2, Zenon DEF M!LineOf
    <3>4. PICK j : j = pc'
      OBVIOUS
    <3>5. j \in 1 .. Len(code) /\ code[j].line.op = "label"
      BY <3>1, <3>3, <3>4
    <3>6. Flow(code[j].line, f[j], f[j + 1])
      BY <3>5 DEF Annotates
    <3>7. f[j] = Nothing
      BY <3>5, <3>6, FlowOps
    <3>8. Holds(f[pc])'
      BY <2>3, <3>4, <3>7 DEF Holds, Numbers
    <3>9. pc' \in 1 .. Len(code')
      BY <2>1, <3>4, <3>5
    <3>. QED  BY <2>1, <2>3, <3>8, <3>9 DEF Ready
  <2>. QED  BY <2>1, <2>4, <2>5
<1>. QED
  BY <1>4, <1>6, <1>7, <1>8, <1>9, <1>10, <1>11, <1>12, <1>13, <1>14, Zenon DEF M!Execute

LEMMA NothingJunk ==
  ASSUME NEW f, Annotates(f, code, Nothing, Nothing), Ready(f), status = "running", cc \in CONVENTIONS,
         Len(code) \in Nat
  PROVE  M!Defined /\ StackRight
<1>1. PICK k, l, s, t : k = pc /\ l = code[k].line /\ s = f[k] /\ t = f[k + 1]
  OBVIOUS
<1>2. k \in 1 .. Len(code) /\ l = M!Now /\ Holds(s)
  BY <1>1 DEF Ready, M!Now
<1>3. Flow(l, s, t) /\ s \in States /\ t \in States
  <2>1. k \in 1 .. Len(code) + 1 /\ k + 1 \in 1 .. Len(code) + 1
    BY <1>2
  <2>2. /\ f \in [1 .. Len(code) + 1 -> States]
        /\ \A i \in 1 .. Len(code) : Flow(code[i].line, f[i], f[i + 1])
    BY DEF Annotates
  <2>3. Flow(l, s, t)
    BY <1>1, <1>2, <2>2
  <2>. QED  BY <1>1, <2>1, <2>2, <2>3
<1>4. ASSUME NEW operand \in M!Reads PROVE M!ValueOf(operand)[1] = "int"
  <2>1. Number_(operand, s) \/ operand[1] \in {"number", "_var_"}
    <3>1. CASE l.op \in {"add", "sub", "imul", "cmp"}
      BY <1>2, <1>3, <3>1, FlowOps DEF M!Reads
    <3>2. CASE l.op = "neg"
      BY <1>2, <1>3, <3>2, FlowOps DEF M!Reads
    <3>3. CASE l.op = "cqo"
      BY <1>2, <1>3, <3>3, FlowOps DEF M!Reads, Number_
    <3>4. CASE l.op = "idiv"
      BY <1>2, <1>3, <3>4, FlowOps DEF M!Reads, Number_
    <3>5. CASE l.op = "mov" /\ l.dst[1] = "_var_"
      BY <1>2, <1>3, <3>5, FlowOps DEF M!Reads
    <3>6. CASE l.op = "call" /\ l.dst[2] = "print_integer"
      BY <1>2, <1>3, <3>6, FlowOps DEF M!Reads, Number_
    <3>. QED  BY <1>2, <3>1, <3>2, <3>3, <3>4, <3>5, <3>6, Zenon DEF M!Reads
  <2>. QED  BY <1>2, <2>1, KnownValues
<1>5. M!Now.op = "call" /\ M!Now.dst[2] = "print_string" => reg[cc.arg][1] = "static"
  BY <1>2, <1>3, FlowOps DEF Holds
<1>6. M!Defined
  BY <1>4, <1>5, Zenon DEF M!Defined, M!Running
<1>7. M!Running({"label", "call", "ret", "jmp", "je", "jne", "jl", "jle", "jg", "jge"}) => pushed = <<>> /\ Len(pushed) = 0
  <2>1. HAVE M!Running({"label", "call", "ret", "jmp", "je", "jne", "jl", "jle", "jg", "jge"})
  <2>2. l.op \in {"label", "call", "ret"} \cup JUMPS
    BY <1>2, <2>1 DEF M!Running, JUMPS
  <2>3. s.depth = 0
    BY <1>3, <2>2, FlowOps DEF Nothing, Knows
  <2>. QED  BY <1>2, <2>3, EmptySeq DEF Holds
<1>8. M!Running({"call"}) => M!Running({"label", "call", "ret", "jmp", "je", "jne", "jl", "jle", "jg", "jge"})
  BY DEF M!Running
<1>9. CallsAligned
  BY <1>7, <1>8, ConventionRegisters DEF CallsAligned
<1>. QED  BY <1>6, <1>7, <1>9 DEF StackRight, StackBalanced

\* What is known of the lines depends on the text and the convention only.
LEMMA FlowStays ==
  ASSUME UNCHANGED <<tokens, text, cc>>
  PROVE  /\ \A l, s, t : Flow(l, s, t)' <=> Flow(l, s, t)
         /\ \A l : Named(l)' <=> Named(l)
<1>1. F!VariablePlaces' = F!VariablePlaces
  BY DEF F!VariablePlaces, F!IdentsAfter, F!Places
<1>2. Arg' = Arg
  BY DEF Arg, Reg
<1>3. \A l, s, t : Flow(l, s, t)' <=> Flow(l, s, t)
  BY <1>2 DEF Flow
<1>4. \A l : Named(l)' <=> Named(l)
  BY <1>1 DEF Named
<1>. QED  BY <1>3, <1>4

LEMMA AnnotatesStays ==
  ASSUME NEW f, Annotates(f, code, Nothing, Nothing), UNCHANGED <<tokens, text, cc, code>>
  PROVE  Annotates(f, code, Nothing, Nothing)'
<1>1. \A l, s, t : Flow(l, s, t)' <=> Flow(l, s, t)
  BY FlowStays
<1>2. \A l : Named(l)' <=> Named(l)
  BY FlowStays
<1>3. f \in [1 .. Len(code) + 1 -> States] /\ f[1] = Nothing /\ f[Len(code) + 1] = Nothing
  BY DEF Annotates
<1>. QED  BY <1>1, <1>2, <1>3 DEF Annotates

LEMMA FoundJumps ==
  ASSUME NEW f, Annotates(f, code, Nothing, Nothing), Assembles
  PROVE  JumpsFound
<1>. SUFFICES ASSUME NEW i \in 1 .. Len(code), code[i].line.op \in JUMPS
     PROVE  \E l \in 1 .. Len(code) : code[l].line.op = "label" /\ code[l].line.dst = code[i].line.dst
  BY DEF JumpsFound
<1>1. PICK dst : dst = code[i].line.dst
  OBVIOUS
<1>2. Flow(code[i].line, f[i], f[i + 1])
  BY DEF Annotates
<1>3. dst[1] \in {".LAB", ".ILAB"}
  BY <1>1, <1>2, FlowOps
<1>4. Found(dst)
  BY <1>1 DEF Assembles
<1>5. PICK L : L = {l \in 1 .. Len(code) : code[l].line.op = "label" /\ code[l].line.dst = dst}
  OBVIOUS
<1>6. Cardinality(L) = 1
  BY <1>3, <1>4, <1>5 DEF Found
<1>7. L # {}
  <2>. SUFFICES ASSUME L = {} PROVE FALSE
    OBVIOUS
  <2>1. Cardinality(L) = 0
    BY FS_EmptySet, Zenon
  <2>. QED  BY <1>6, <2>1
<1>. QED  BY <1>1, <1>5, <1>7

-----------------------------------------------------------------------------
(***************************************************************************)
(* The invariant: that of the front end, and that the code is what leads   *)
(* from nothing to nothing, with the machine in a state that is known at   *)
(* the line it is at.                                                      *)
(***************************************************************************)
FrontInv == FP!FInv /\ FP!MInv /\ FP!DerivedInv

\* The code of a whole program.
Complete == Sound(code) /\ Len(code) \in Nat /\ Len(code) >= 1 /\ code[Len(code)].line.op = "ret"

MachineInv ==
  /\ cc \in CONVENTIONS
  /\ stage # "done" => status = "compiling"
  /\ status \in {"compiling", "rejected"} => code = <<>>
  /\ status \in {"compiling", "emitted"} => pushed = <<>> /\ DOMAIN reg = M!Registers
  /\ status \notin {"compiling", "rejected"} => Complete
  /\ status = "running" => JumpsFound /\ \E f : Annotates(f, code, Nothing, Nothing) /\ Ready(f)

LEMMA CompleteStays == Complete /\ UNCHANGED <<frontendVars, cc, code>> => Complete'
<1>. SUFFICES ASSUME Complete, UNCHANGED <<frontendVars, cc, code>> PROVE Complete'
  OBVIOUS
<1>1. UNCHANGED <<tokens, text, cc, code>>
  BY DEF frontendVars
<1>2. PICK f : IsSeq(code) /\ Annotates(f, code, Nothing, Nothing)
  BY DEF Complete, Sound, Leads
<1>3. Annotates(f, code, Nothing, Nothing)'
  BY <1>1, <1>2, AnnotatesStays
<1>4. IsSeq(code)'
  BY <1>1, <1>2 DEF IsSeq
<1>. QED  BY <1>1, <1>3, <1>4, Zenon DEF Complete, Sound, Leads

LEMMA InitFrontInv == Init => FrontInv
BY FrontendInit, Zenon DEF Init, FrontInv

LEMMA StepFrontInv == FrontInv /\ [Next]_vars => FrontInv'
<1>1. Compile => F!Next
  BY DEF Compile
<1>2. Reject \/ Emit \/ Assemble \/ Run \/ Stopped \/ UNCHANGED vars => UNCHANGED frontendVars
  BY Zenon DEF Reject, Emit, Assemble, Run, Stopped, vars
<1>. QED  BY <1>1, <1>2, FrontendStep, FrontendStays, Zenon DEF Next, FrontInv

LEMMA InitMachineInv == Init => MachineInv
BY DEF Init, MachineInv, M!Blank, M!AllJunk, F!Init

LEMMA StepMachineInv == FrontInv /\ MachineInv /\ [Next]_vars => MachineInv'
<1>. SUFFICES ASSUME FrontInv, MachineInv, [Next]_vars PROVE MachineInv'
  OBVIOUS
<1>1. CASE Compile
  <2>1. status = "compiling" /\ UNCHANGED <<machineVars, cc>>
    BY <1>1 DEF Compile, MachineInv
  <2>. QED  BY <2>1 DEF machineVars, MachineInv
<1>2. CASE Reject
  <2>1. /\ stage' = "done" /\ status = "compiling" /\ status' = "rejected" /\ cc' \in CONVENTIONS
        /\ code' = <<>>
    BY <1>2 DEF Reject, MachineInv, frontendVars
  <2>. QED  BY <2>1 DEF MachineInv
<1>3. CASE Emit
  <2>1. /\ stage = "done" /\ stage' = "done" /\ status = "compiling" /\ status' = "emitted"
        /\ errors = <<>> /\ semantic = <<>> /\ code' = MainLines
        /\ UNCHANGED <<frontendVars, pushed, reg, cc>>
    BY <1>3 DEF Emit, frontendVars
  <2>2. PICK q : FP!Accepts(q)
    BY <2>1, FrontendReady DEF FrontInv
  <2>3. Fit(q) /\ cc \in CONVENTIONS
    BY <2>2, AcceptsFit DEF MachineInv
  <2>4. PICK lines : lines = MainLines
    OBVIOUS
  <2>5. Sound(lines) /\ Len(lines) \in Nat /\ Len(lines) >= 1 /\ lines[Len(lines)].line.op = "ret"
    BY <2>3, <2>4, MainSound
  <2>6. Complete'
    <3>1. PICK f : IsSeq(lines) /\ Annotates(f, lines, Nothing, Nothing)
      BY <2>5 DEF Sound, Leads
    <3>2. UNCHANGED <<tokens, text, cc>> /\ code' = lines
      BY <2>1, <2>4 DEF frontendVars
    <3>3. \A l, s, t : Flow(l, s, t)' <=> Flow(l, s, t)
      BY <3>2, FlowStays
    <3>4. \A l : Named(l)' <=> Named(l)
      BY <3>2, FlowStays
    <3>5. Annotates(f, code, Nothing, Nothing)'
      BY <3>1, <3>2, <3>3, <3>4 DEF Annotates
    <3>6. IsSeq(code)'
      BY <3>1, <3>2 DEF IsSeq
    <3>. QED  BY <2>5, <3>2, <3>5, <3>6, Zenon DEF Complete, Sound, Leads
  <2>. QED  BY <2>1, <2>6 DEF MachineInv
<1>4. CASE Assemble
  <2>1. /\ status = "emitted" /\ UNCHANGED <<frontendVars, code, cc, reg, pushed>> /\ status' \in {"running", "unlinked"}
        /\ pushed = <<>> /\ DOMAIN reg = M!Registers /\ Complete
    BY <1>4 DEF Assemble, M!Load, MachineInv
  <2>2. Complete'
    BY <2>1, CompleteStays
  <2>3. cc' \in CONVENTIONS /\ stage' = "done"
    BY <2>1 DEF MachineInv, frontendVars
  <2>4. ASSUME status' = "running" PROVE JumpsFound' /\ \E f : Annotates(f, code, Nothing, Nothing)' /\ Ready(f)'
    <3>1. Assembles /\ pc' = 1
      BY <1>4, <2>4 DEF Assemble, M!Load
    <3>2. PICK f : Annotates(f, code, Nothing, Nothing)
      BY <2>1 DEF Complete, Sound, Leads
    <3>3. JumpsFound
      BY <3>1, <3>2, FoundJumps
    <3>4. JumpsFound'
      BY <2>1, <3>3 DEF JumpsFound
    <3>5. Annotates(f, code, Nothing, Nothing)'
      BY <2>1, <3>2, AnnotatesStays DEF frontendVars
    <3>6. f[1] = Nothing
      BY <3>2 DEF Annotates
    <3>7. Holds(f[pc])'
      <4>1. pushed' = <<>> /\ pushed' \in Seq({}) /\ Len(pushed') = 0 /\ f[pc'] = Nothing
        BY <2>1, <3>1, <3>6
      <4>. QED  BY <4>1 DEF Holds, Numbers, Nothing, Knows
    <3>8. Ready(f)'
      BY <2>1, <3>1, <3>7 DEF Ready, Complete
    <3>. QED  BY <3>4, <3>5, <3>8
  <2>. QED  BY <2>1, <2>2, <2>3, <2>4 DEF MachineInv
<1>5. CASE Run
  <2>1. M!Execute /\ UNCHANGED <<frontendVars, cc>>
    BY <1>5 DEF Run
  <2>2. status = "running"
    BY <2>1 DEF M!Execute, M!Move, M!Push, M!Pop, M!Arithmetic, M!Divide, M!Trap, M!Compare, M!Jumps,
                M!PassLabel, M!PrintInteger, M!PrintString, M!InputInteger, M!Calls, M!End, M!Running
  <2>3. PICK f : Annotates(f, code, Nothing, Nothing) /\ Ready(f)
    BY <2>2 DEF MachineInv
  <2>4. JumpsFound /\ cc \in CONVENTIONS /\ Complete /\ stage = "done"
    BY <2>2 DEF MachineInv
  <2>5. UNCHANGED code /\ status' \in {"running", "ended", "trapped"} /\ (status' = "running" => Ready(f)')
    BY <2>1, <2>2, <2>3, <2>4, Executes DEF Complete
  <2>6. Complete'
    BY <2>1, <2>4, <2>5, CompleteStays
  <2>7. Annotates(f, code, Nothing, Nothing)'
    BY <2>1, <2>3, <2>5, AnnotatesStays DEF frontendVars
  <2>8. JumpsFound'
    BY <2>4, <2>5 DEF JumpsFound
  <2>9. cc' \in CONVENTIONS /\ stage' = "done"
    BY <2>1, <2>4 DEF frontendVars
  <2>. QED  BY <2>5, <2>6, <2>7, <2>8, <2>9 DEF MachineInv
<1>6. CASE Stopped \/ UNCHANGED vars
  <2>1. UNCHANGED vars
    BY <1>6 DEF Stopped
  <2>2. UNCHANGED <<frontendVars, cc, code, strings, pc, reg, pushed, status, stage, tokens, text>>
    BY <2>1 DEF vars, machineVars, frontendVars
  <2>3. Complete => Complete'
    BY <2>2, CompleteStays
  <2>4. \A f : Annotates(f, code, Nothing, Nothing) => Annotates(f, code, Nothing, Nothing)'
    BY <2>2, AnnotatesStays
  <2>5. JumpsFound => JumpsFound'
    BY <2>2 DEF JumpsFound
  <2>6. \A f : Ready(f) => Ready(f)'
    BY <2>2 DEF Ready, Holds, Numbers
  <2>. QED  BY <2>2, <2>3, <2>4, <2>5, <2>6, Zenon DEF MachineInv
<1>. QED  BY <1>1, <1>2, <1>3, <1>4, <1>5, <1>6 DEF Next

LEMMA CInvAlways == Spec => [](FrontInv /\ MachineInv)
<1>1. Init => FrontInv /\ MachineInv
  BY InitFrontInv, InitMachineInv
<1>2. (FrontInv /\ MachineInv) /\ [Next]_vars => (FrontInv /\ MachineInv)'
  BY StepFrontInv, StepMachineInv
<1>. QED  BY <1>1, <1>2, PTL DEF Spec

\* No accepted program fails one of the assertions of the emitter
\* (emitter-x86.c:462-526).
THEOREM AssertionsNeverFail == Spec => []AssertionsHold
<1>1. MachineInv => AssertionsHold
  <2>. SUFFICES ASSUME MachineInv, NEW i \in 1 .. Len(code) PROVE code[i].line.op # "assertion"
    BY DEF AssertionsHold
  <2>1. code # <<>>
    OBVIOUS
  <2>2. PICK f : Annotates(f, code, Nothing, Nothing)
    BY <2>1 DEF MachineInv, Complete, Sound, Leads
  <2>3. Flow(code[i].line, f[i], f[i + 1])
    BY <2>2 DEF Annotates
  <2>4. "assertion" \notin JUMPS
    BY DEF JUMPS
  <2>. QED  BY <2>3, <2>4, FlowOps
<1>. QED  BY <1>1, CInvAlways, PTL

\* A compiled program computes with numbers that it has computed itself, never
\* with what a call has left in a register (emitter-x86.c:300-420).
THEOREM JunkIsNeverRead == Spec => []NoJunkRead
<1>1. MachineInv => NoJunkRead
  BY NothingJunk DEF MachineInv, NoJunkRead, Complete
<1>. QED  BY <1>1, CInvAlways, PTL

\* Pushes and pops balance on every path, and calls find the stack aligned
\* (emitter-x86.c:324-345 and 497-530).
THEOREM StackIsRight == Spec => []StackRight
<1>1. MachineInv => StackRight
  <2>1. CASE status = "running"
    BY <2>1, NothingJunk DEF MachineInv, Complete
  <2>2. CASE status # "running"
    BY <2>2 DEF StackRight, StackBalanced, CallsAligned, M!Running
  <2>. QED  BY <2>1, <2>2
<1>. QED  BY <1>1, CInvAlways, PTL

-----------------------------------------------------------------------------
(***************************************************************************)
(* The labels of a piece of code, and what it jumps to.                    *)
(***************************************************************************)
LabelOn(lines, i, label) == lines[i].line.op = "label" /\ lines[i].line.dst = label
Has(lines, label) == \E i \in 1 .. Len(lines) : LabelOn(lines, i, label)
JumpsTo(lines, label) == \E i \in 1 .. Len(lines) : lines[i].line.op \in JUMPS /\ lines[i].line.dst = label
Once(lines) ==
  \A label : \A i, j \in 1 .. Len(lines) :
    LabelOn(lines, i, label) /\ LabelOn(lines, j, label) => i = j

LEMMA LabelsOn ==
  ASSUME NEW x, NEW y, IsSeq(x), IsSeq(y)
  PROVE  /\ IsSeq(x \o y)
         /\ \A o : Has(x \o y, o) <=> Has(x, o) \/ Has(y, o)
         /\ \A o : JumpsTo(x \o y, o) <=> JumpsTo(x, o) \/ JumpsTo(y, o)
         /\ Once(x) /\ Once(y) /\ (\A o : ~ (Has(x, o) /\ Has(y, o))) => Once(x \o y)
<1>1. PICK z, m, n : z = x \o y /\ m = Len(x) /\ n = Len(y)
  OBVIOUS
<1>2. /\ m \in Nat /\ n \in Nat /\ Len(z) = m + n /\ IsSeq(z)
      /\ \A i \in 1 .. m : z[i] = x[i]
      /\ \A i \in 1 .. n : z[m + i] = y[i]
  BY <1>1, IsSeqFacts
<1>3. \A i \in 1 .. m : i \in 1 .. m + n
  BY <1>2
<1>4. \A i \in 1 .. n : m + i \in 1 .. m + n
  BY <1>2
<1>5. \A i \in 1 .. m + n : i \in 1 .. m \/ (i - m \in 1 .. n /\ m + (i - m) = i)
  BY <1>2
<1>6. ASSUME NEW i \in 1 .. m + n
      PROVE  \/ i \in 1 .. m /\ z[i] = x[i]
             \/ \E j \in 1 .. n : i = m + j /\ z[i] = y[j]
  <2>1. CASE i \in 1 .. m
    BY <1>2, <2>1
  <2>2. CASE i \notin 1 .. m
    <3>1. PICK j : j = i - m
      OBVIOUS
    <3>2. j \in 1 .. n /\ i = m + j
      BY <1>5, <2>2, <3>1
    <3>. QED  BY <1>2, <3>2
  <2>. QED  BY <2>1, <2>2
<1>7. \A o : Has(z, o) <=> Has(x, o) \/ Has(y, o)
  <2>. TAKE o
  <2>1. Has(x, o) => Has(z, o)
    BY <1>1, <1>2, <1>3 DEF Has, LabelOn
  <2>2. Has(y, o) => Has(z, o)
    BY <1>1, <1>2, <1>4 DEF Has, LabelOn
  <2>3. Has(z, o) => Has(x, o) \/ Has(y, o)
    BY <1>1, <1>2, <1>6 DEF Has, LabelOn
  <2>. QED  BY <2>1, <2>2, <2>3
<1>8. \A o : JumpsTo(z, o) <=> JumpsTo(x, o) \/ JumpsTo(y, o)
  <2>. TAKE o
  <2>1. JumpsTo(x, o) => JumpsTo(z, o)
    BY <1>1, <1>2, <1>3 DEF JumpsTo
  <2>2. JumpsTo(y, o) => JumpsTo(z, o)
    BY <1>1, <1>2, <1>4 DEF JumpsTo
  <2>3. JumpsTo(z, o) => JumpsTo(x, o) \/ JumpsTo(y, o)
    BY <1>1, <1>2, <1>6 DEF JumpsTo
  <2>. QED  BY <2>1, <2>2, <2>3
<1>9. ASSUME Once(x), Once(y), \A o : ~ (Has(x, o) /\ Has(y, o)) PROVE Once(z)
  <2>. SUFFICES ASSUME NEW i \in 1 .. m + n, NEW j \in 1 .. m + n, NEW o, LabelOn(z, i, o), LabelOn(z, j, o)
       PROVE  i = j
    BY <1>2 DEF Once
  <2>1. \A k \in 1 .. m + n : LabelOn(z, k, o) =>
          \/ k \in 1 .. m /\ LabelOn(x, k, o) /\ Has(x, o)
          \/ \E l \in 1 .. n : k = m + l /\ LabelOn(y, l, o) /\ Has(y, o)
    BY <1>1, <1>6 DEF LabelOn, Has
  <2>2. CASE Has(x, o)
    <3>1. i \in 1 .. m /\ LabelOn(x, i, o) /\ j \in 1 .. m /\ LabelOn(x, j, o)
      BY <1>9, <2>1, <2>2
    <3>. QED  BY <1>1, <1>9, <3>1 DEF Once
  <2>3. CASE ~ Has(x, o)
    <3>1. PICK k \in 1 .. n : i = m + k /\ LabelOn(y, k, o)
      BY <2>1, <2>3
    <3>2. PICK l \in 1 .. n : j = m + l /\ LabelOn(y, l, o)
      BY <2>1, <2>3
    <3>3. k = l
      BY <1>1, <1>9, <3>1, <3>2 DEF Once
    <3>. QED  BY <3>1, <3>2, <3>3
  <2>. QED  BY <2>2, <2>3
<1>. QED  BY <1>1, <1>2, <1>7, <1>8, <1>9

LEMMA LabelsNone ==
  ASSUME NEW x, IsSeq(x), Straight(x), NEW place, NEW c, c = At(place, x)
  PROVE  IsSeq(c) /\ Once(c) /\ \A o : ~ Has(c, o) /\ ~ JumpsTo(c, o)
<1>1. /\ IsSeq(c) /\ Len(c) = Len(x)
      /\ \A i \in 1 .. Len(x) : c[i] = [line |-> x[i], place |-> place]
  BY AtFacts, Zenon
<1>2. ASSUME NEW i \in 1 .. Len(c) PROVE c[i].line.op \notin JUMPS \cup {"label"}
  <2>1. PICK e, l : l = x[i] /\ e = [line |-> l, place |-> place]
    OBVIOUS
  <2>2. c[i] = e
    BY <1>1, <2>1
  <2>3. e.line = l /\ l.op \notin JUMPS \cup {"label"}
    BY <1>1, <2>1 DEF Straight
  <2>. QED  BY <2>2, <2>3
<1>. QED  BY <1>1, <1>2 DEF Once, Has, JumpsTo, LabelOn

LEMMA LabelsOne ==
  ASSUME NEW l, NEW x, x = <<l>>, NEW place, NEW c, c = At(place, x)
  PROVE  /\ IsSeq(c) /\ Once(c)
         /\ \A o : Has(c, o) <=> l.op = "label" /\ o = l.dst
         /\ \A o : JumpsTo(c, o) <=> l.op \in JUMPS /\ o = l.dst
<1>1. x \in Seq({l}) /\ Len(x) = 1 /\ x[1] = l
  OBVIOUS
<1>2. IsSeq(x)
  BY <1>1 DEF IsSeq
<1>3. IsSeq(c) /\ Len(c) = 1 /\ c[1].line = l
  <2>1. /\ IsSeq(c) /\ Len(c) = Len(x)
        /\ \A i \in 1 .. Len(x) : c[i] = [line |-> x[i], place |-> place]
    BY <1>2, AtFacts, Zenon
  <2>2. PICK e : e = [line |-> l, place |-> place]
    OBVIOUS
  <2>3. c[1] = e
    BY <1>1, <2>1, <2>2
  <2>. QED  BY <1>1, <2>1, <2>2, <2>3
<1>. QED  BY <1>3 DEF Once, Has, JumpsTo, LabelOn

LEMMA LabelsNowhere == ASSUME NEW c, c = <<>> PROVE IsSeq(c) /\ Once(c) /\ \A o : ~ Has(c, o) /\ ~ JumpsTo(c, o)
<1>1. c \in Seq({}) /\ Len(c) = 0
  OBVIOUS
<1>. QED  BY <1>1 DEF IsSeq, Once, Has, JumpsTo

\* The comparison and the jump of an IF or a WHILE.
LEMMA LabelsOfHead ==
  ASSUME NEW q, Fit(q), cc \in CONVENTIONS, NEW n, Gram(n, "COMPARISON"), NEW label, NEW place,
         NEW c, c = At(place, JumpUnlessHolds(n, label))
  PROVE  IsSeq(c) /\ Once(c) /\ \A o : ~ Has(c, o) /\ (JumpsTo(c, o) <=> o = label)
<1>1. PICK op, l : op = JumpUnless[TokenAt(Second(n))] /\ l = Jump(op, label)
  OBVIOUS
<1>2. PICK x, y : x = Comparison(n) /\ y = <<l>>
  OBVIOUS
<1>3. IsSeq(x) /\ Straight(x)
  BY <1>2, ComparisonWhole
<1>4. IsSeq(y)
  <2>1. y \in Seq({l})
    BY <1>2
  <2>. QED  BY <2>1 DEF IsSeq
<1>5. PICK a, b : a = At(place, x) /\ b = At(place, y)
  OBVIOUS
<1>6. c = a \o b
  <2>1. JumpUnlessHolds(n, label) = x \o y
    BY <1>1, <1>2 DEF JumpUnlessHolds
  <2>2. At(place, x \o y) = At(place, x) \o At(place, y)
    BY <1>3, <1>4, AtConcat, Zenon
  <2>. QED  BY <1>5, <2>1, <2>2, Zenon
<1>7. op \in JUMPS /\ "label" \notin JUMPS
  <2>1. Tok(Second(n), COMPARISONS)
    <3>1. n \in Nodes
      BY Kinds
    <3>. QED  BY <3>1 DEF Fit, ExpressionFit
  <2>. QED  BY <1>1, <2>1, JumpsKnown DEF Tok, JUMPS
<1>8. l.op = op /\ l.dst = label
  BY <1>1, LabelsAndJumps
<1>9. IsSeq(a) /\ Once(a) /\ \A o : ~ Has(a, o) /\ ~ JumpsTo(a, o)
  BY <1>3, <1>5, LabelsNone
<1>10. IsSeq(b) /\ Once(b) /\ \A o : ~ Has(b, o) /\ (JumpsTo(b, o) <=> o = label)
  BY <1>2, <1>5, <1>7, <1>8, LabelsOne
<1>. QED  BY <1>6, <1>9, <1>10, LabelsOn

-----------------------------------------------------------------------------
(***************************************************************************)
(* The pieces of the text that the nodes stand for.                        *)
(***************************************************************************)
Right(q, m) == q[ast[q[m].up].last_child].to

Spans(q) ==
  \A m \in Nodes \ {Head_} :
    /\ q[m].from \in Nat /\ q[m].to \in Nat /\ Right(q, m) \in Nat
    /\ q[m].from <= q[m].to /\ q[m].to <= Right(q, m)
    /\ IsToken(ast, m) => q[m].from = ast[m].value /\ q[m].to = ast[m].value
    /\ ~ IsToken(ast, m) => q[First(m)].from = q[m].from /\ Right(q, First(m)) = q[m].to
    /\ After(m) # 0 => q[After(m)].from = q[m].to + 1 /\ Right(q, After(m)) = Right(q, m)

\* Labels k with low <= k < high, and the names of LABELs from one place to another.
IsILab(o, low, high) == \E k \in Nat : low <= k /\ k < high /\ o = ILab(k)
IsLab(o, from, to) == \E p \in F!IdentsAfter("LABEL") : from <= p /\ p <= to /\ o = Lab(text[p])
IsTarget(o) == \E p \in F!IdentsAfter("GOTO") : o = Lab(text[p])

Labelled(lines, low, high, from, to) ==
  /\ IsSeq(lines) /\ Once(lines)
  /\ \A o : Has(lines, o) => IsILab(o, low, high) \/ IsLab(o, from, to)
  /\ \A o : JumpsTo(lines, o) => Has(lines, o) \/ IsTarget(o)

LEMMA PlacesAreNumbers == \A keyword : F!IdentsAfter(keyword) \subseteq Nat
BY DEF F!IdentsAfter, F!Places

LEMMA LabelsDiffer ==
  /\ \A j, k : ILab(j) = ILab(k) => j = k
  /\ \A a, b : Lab(a) = Lab(b) => a = b
  /\ \A k, a : ILab(k) # Lab(a)
BY LabelLines

LEMMA Wider ==
  ASSUME NEW o, NEW l \in Nat, NEW h \in Nat, NEW l2 \in Nat, NEW h2 \in Nat, l2 <= l, h <= h2
  PROVE  /\ IsILab(o, l, h) => IsILab(o, l2, h2)
         /\ IsLab(o, l, h) => IsLab(o, l2, h2)
BY PlacesAreNumbers DEF IsILab, IsLab

LEMMA LabelledNowhere ==
  ASSUME NEW c, c = <<>>, NEW l, NEW h, NEW a, NEW b
  PROVE  Labelled(c, l, h, a, b)
BY LabelsNowhere DEF Labelled

\* Code after code with earlier labels.
LEMMA LabelledOn ==
  ASSUME F!UniqueLabels, NEW x, NEW y,
         NEW l \in Nat, NEW h \in Nat, NEW l2 \in Nat, NEW h2 \in Nat,
         NEW a \in Nat, NEW b \in Nat, NEW a2 \in Nat, NEW b2 \in Nat,
         Labelled(x, l, h, a, b), Labelled(y, l2, h2, a2, b2),
         l <= h, h <= l2, l2 <= h2, a <= b, b < a2, a2 <= b2
  PROVE  Labelled(x \o y, l, h2, a, b2)
<1>1. IsSeq(x) /\ IsSeq(y) /\ Once(x) /\ Once(y)
  BY DEF Labelled
<1>2. \A o : ~ (Has(x, o) /\ Has(y, o))
  <2>. SUFFICES ASSUME NEW o, Has(x, o), Has(y, o) PROVE FALSE
    OBVIOUS
  <2>1. IsILab(o, l, h) \/ IsLab(o, a, b)
    BY DEF Labelled
  <2>2. IsILab(o, l2, h2) \/ IsLab(o, a2, b2)
    BY DEF Labelled
  <2>3. ~ (IsILab(o, l, h) /\ IsILab(o, l2, h2))
    BY LabelsDiffer DEF IsILab
  <2>4. ~ (IsILab(o, l, h) /\ IsLab(o, a2, b2)) /\ ~ (IsLab(o, a, b) /\ IsILab(o, l2, h2))
    BY LabelsDiffer DEF IsILab, IsLab
  <2>5. ASSUME IsLab(o, a, b), IsLab(o, a2, b2) PROVE FALSE
    <3>1. PICK p \in F!IdentsAfter("LABEL") : p <= b /\ o = Lab(text[p])
      BY <2>5 DEF IsLab
    <3>2. PICK r \in F!IdentsAfter("LABEL") : a2 <= r /\ o = Lab(text[r])
      BY <2>5 DEF IsLab
    <3>3. text[p] = text[r]
      BY <3>1, <3>2, LabelsDiffer
    <3>4. p = r
      BY <3>3 DEF F!UniqueLabels
    <3>. QED  BY <3>1, <3>2, <3>4, PlacesAreNumbers
  <2>. QED  BY <2>1, <2>2, <2>3, <2>4, <2>5
<1>3. /\ IsSeq(x \o y) /\ Once(x \o y)
      /\ \A o : Has(x \o y, o) <=> Has(x, o) \/ Has(y, o)
      /\ \A o : JumpsTo(x \o y, o) <=> JumpsTo(x, o) \/ JumpsTo(y, o)
  BY <1>1, <1>2, LabelsOn
<1>4. ASSUME NEW o, Has(x \o y, o) PROVE IsILab(o, l, h2) \/ IsLab(o, a, b2)
  <2>1. CASE Has(x, o)
    <3>1. IsILab(o, l, h) \/ IsLab(o, a, b)
      BY <2>1 DEF Labelled
    <3>2. l <= l /\ h <= h2 /\ a <= a /\ b <= b2
      OBVIOUS
    <3>. QED  BY <3>1, <3>2, Wider
  <2>2. CASE Has(y, o)
    <3>1. IsILab(o, l2, h2) \/ IsLab(o, a2, b2)
      BY <2>2 DEF Labelled
    <3>2. l <= l2 /\ h2 <= h2 /\ a <= a2 /\ b2 <= b2
      OBVIOUS
    <3>. QED  BY <3>1, <3>2, Wider
  <2>. QED  BY <1>3, <1>4, <2>1, <2>2
<1>5. ASSUME NEW o, JumpsTo(x \o y, o) PROVE Has(x \o y, o) \/ IsTarget(o)
  BY <1>3, <1>5 DEF Labelled
<1>. QED  BY <1>3, <1>4, <1>5 DEF Labelled

LEMMA IfLabelled ==
  ASSUME NEW q, Fit(q), cc \in CONVENTIONS, NEW n, Gram(n, "STATEMENT"), q[n].kw = "IF",
         NEW l \in Nat, NEW h \in Nat, NEW a \in Nat, NEW b \in Nat, l + 1 <= h,
         NEW block, Labelled(block, l + 1, h, a, b)
  PROVE  Labelled(StatementLines(n, l, block), l, h, a, b)
<1>1. PICK c, t : c = IfHead(n, l) /\ t = IfEnd(n, l)
  OBVIOUS
<1>2. IsSeq(block) /\ Once(block)
  BY DEF Labelled
<1>3. StatementLines(n, l, block) = (c \o block) \o t
  BY <1>1, <1>2, IfLinesAre
<1>4. IsSeq(c) /\ Once(c) /\ \A o : ~ Has(c, o) /\ (JumpsTo(c, o) <=> o = ILab(l))
  <2>1. Gram(Second(n), "COMPARISON")
    BY HoldersFacts
  <2>. QED  BY <1>1, <2>1, LabelsOfHead DEF IfHead
<1>5. IsSeq(t) /\ Once(t) /\ \A o : (Has(t, o) <=> o = ILab(l)) /\ ~ JumpsTo(t, o)
  <2>1. PICK line, x : line = Label(ILab(l)) /\ x = <<line>>
    OBVIOUS
  <2>2. line.op = "label" /\ line.dst = ILab(l) /\ "label" \notin JUMPS
    BY <2>1, LabelsAndJumps DEF JUMPS
  <2>. QED  BY <1>1, <2>1, <2>2, LabelsOne DEF IfEnd
<1>6. PICK d : d = c \o block
  OBVIOUS
<1>7. /\ IsSeq(d) /\ Once(d) /\ \A o : Has(d, o) <=> Has(block, o)
      /\ \A o : JumpsTo(d, o) <=> o = ILab(l) \/ JumpsTo(block, o)
  BY <1>2, <1>4, <1>6, LabelsOn
<1>8. ~ Has(block, ILab(l))
  <2>1. ~ IsILab(ILab(l), l + 1, h) /\ ~ IsLab(ILab(l), a, b)
    BY LabelsDiffer DEF IsILab, IsLab
  <2>. QED  BY <2>1 DEF Labelled
<1>9. PICK z : z = d \o t
  OBVIOUS
<1>10. /\ IsSeq(z) /\ Once(z) /\ \A o : Has(z, o) <=> Has(block, o) \/ o = ILab(l)
       /\ \A o : JumpsTo(z, o) <=> o = ILab(l) \/ JumpsTo(block, o)
  <2>1. \A o : ~ (Has(d, o) /\ Has(t, o))
    BY <1>5, <1>7, <1>8
  <2>. QED  BY <1>5, <1>7, <1>9, <2>1, LabelsOn
<1>11. IsILab(ILab(l), l, h)
  BY DEF IsILab
<1>12. ASSUME NEW o, Has(block, o) PROVE IsILab(o, l, h) \/ IsLab(o, a, b)
  <2>1. IsILab(o, l + 1, h) \/ IsLab(o, a, b)
    BY <1>12 DEF Labelled
  <2>2. l + 1 \in Nat /\ l <= l + 1 /\ h <= h
    OBVIOUS
  <2>. QED  BY <2>1, <2>2, Wider
<1>13. ASSUME NEW o, JumpsTo(z, o) PROVE Has(z, o) \/ IsTarget(o)
  BY <1>10, <1>13 DEF Labelled
<1>. QED  BY <1>3, <1>6, <1>9, <1>10, <1>11, <1>12, <1>13 DEF Labelled

LEMMA WhileLabelled ==
  ASSUME NEW q, Fit(q), cc \in CONVENTIONS, NEW n, Gram(n, "STATEMENT"), q[n].kw = "WHILE",
         NEW l \in Nat, NEW h \in Nat, NEW a \in Nat, NEW b \in Nat, l + 2 <= h,
         NEW block, Labelled(block, l + 2, h, a, b)
  PROVE  Labelled(StatementLines(n, l, block), l, h, a, b)
<1>1. PICK c, s, t : c = WhileHead(n, l) /\ s = WhileBack(n, l) /\ t = WhileEnd(n, l)
  OBVIOUS
<1>2. IsSeq(block) /\ Once(block)
  BY DEF Labelled
<1>3. StatementLines(n, l, block) = ((c \o block) \o s) \o t
  BY <1>1, <1>2, WhileLinesAre
<1>4. "label" \notin JUMPS /\ "jmp" \in JUMPS
  BY DEF JUMPS
<1>5. PICK i, j : i = ILab(l) /\ j = ILab(l + 1)
  OBVIOUS
<1>6. i # j
  <2>1. l # l + 1
    OBVIOUS
  <2>. QED  BY <1>5, <2>1, LabelsDiffer
<1>7. IsSeq(c) /\ Once(c) /\ \A o : (Has(c, o) <=> o = i) /\ (JumpsTo(c, o) <=> o = j)
  <2>1. PICK line, x, y, p : line = Label(i) /\ x = <<line>> /\ y = JumpUnlessHolds(Second(n), j) /\ p = Place(First(n))
    OBVIOUS
  <2>2. line.op = "label" /\ line.dst = i
    BY <2>1, LabelsAndJumps
  <2>3. Gram(Second(n), "COMPARISON")
    BY HoldersFacts
  <2>4. IsSeq(x) /\ IsSeq(y)
    <3>1. x \in Seq({line})
      BY <2>1
    <3>2. j[1] \in {".LAB", ".ILAB"}
      BY <1>5, LabelLines
    <3>3. Whole(y)
      BY <2>1, <2>3, <3>2, JumpUnlessWhole
    <3>. QED  BY <3>1, <3>3 DEF IsSeq, Whole, Follows
  <2>5. PICK u, v : u = At(p, x) /\ v = At(p, y)
    OBVIOUS
  <2>6. c = u \o v
    <3>1. c = At(p, x \o y)
      BY <1>1, <1>5, <2>1 DEF WhileHead
    <3>2. At(p, x \o y) = At(p, x) \o At(p, y)
      BY <2>4, AtConcat, Zenon
    <3>. QED  BY <2>5, <3>1, <3>2, Zenon
  <2>7. IsSeq(u) /\ Once(u) /\ \A o : (Has(u, o) <=> o = i) /\ ~ JumpsTo(u, o)
    BY <1>4, <2>1, <2>2, <2>5, LabelsOne
  <2>8. IsSeq(v) /\ Once(v) /\ \A o : ~ Has(v, o) /\ (JumpsTo(v, o) <=> o = j)
    BY <2>1, <2>3, <2>5, LabelsOfHead
  <2>. QED  BY <2>6, <2>7, <2>8, LabelsOn
<1>8. IsSeq(s) /\ Once(s) /\ \A o : ~ Has(s, o) /\ (JumpsTo(s, o) <=> o = i)
  <2>1. PICK line, x : line = Jump("jmp", i) /\ x = <<line>>
    OBVIOUS
  <2>2. line.op = "jmp" /\ line.dst = i
    BY <2>1, LabelsAndJumps
  <2>. QED  BY <1>1, <1>4, <1>5, <2>1, <2>2, LabelsOne DEF WhileBack
<1>9. IsSeq(t) /\ Once(t) /\ \A o : (Has(t, o) <=> o = j) /\ ~ JumpsTo(t, o)
  <2>1. PICK line, x : line = Label(j) /\ x = <<line>>
    OBVIOUS
  <2>2. line.op = "label" /\ line.dst = j
    BY <2>1, LabelsAndJumps
  <2>. QED  BY <1>1, <1>4, <1>5, <2>1, <2>2, LabelsOne DEF WhileEnd
<1>10. ~ Has(block, i) /\ ~ Has(block, j)
  <2>1. ~ IsILab(i, l + 2, h) /\ ~ IsLab(i, a, b) /\ ~ IsILab(j, l + 2, h) /\ ~ IsLab(j, a, b)
    BY <1>5, LabelsDiffer DEF IsILab, IsLab
  <2>. QED  BY <2>1 DEF Labelled
<1>11. PICK d : d = c \o block
  OBVIOUS
<1>12. /\ IsSeq(d) /\ Once(d) /\ \A o : Has(d, o) <=> o = i \/ Has(block, o)
       /\ \A o : JumpsTo(d, o) <=> o = j \/ JumpsTo(block, o)
  BY <1>2, <1>7, <1>10, <1>11, LabelsOn
<1>13. PICK e : e = d \o s
  OBVIOUS
<1>14. /\ IsSeq(e) /\ Once(e) /\ \A o : Has(e, o) <=> o = i \/ Has(block, o)
       /\ \A o : JumpsTo(e, o) <=> o = i \/ o = j \/ JumpsTo(block, o)
  BY <1>8, <1>12, <1>13, LabelsOn
<1>15. PICK z : z = e \o t
  OBVIOUS
<1>16. /\ IsSeq(z) /\ Once(z) /\ \A o : Has(z, o) <=> o = i \/ o = j \/ Has(block, o)
       /\ \A o : JumpsTo(z, o) <=> o = i \/ o = j \/ JumpsTo(block, o)
  <2>1. \A o : ~ (Has(e, o) /\ Has(t, o))
    BY <1>6, <1>9, <1>10, <1>14
  <2>. QED  BY <1>9, <1>14, <1>15, <2>1, LabelsOn
<1>17. IsILab(i, l, h) /\ IsILab(j, l, h)
  <2>1. l \in Nat /\ l + 1 \in Nat /\ l <= l + 1 /\ l < h /\ l + 1 < h
    OBVIOUS
  <2>. QED  BY <1>5, <2>1 DEF IsILab
<1>18. ASSUME NEW o, Has(block, o) PROVE IsILab(o, l, h) \/ IsLab(o, a, b)
  <2>1. IsILab(o, l + 2, h) \/ IsLab(o, a, b)
    BY <1>18 DEF Labelled
  <2>2. l + 2 \in Nat /\ l <= l + 2 /\ h <= h
    OBVIOUS
  <2>. QED  BY <2>1, <2>2, Wider
<1>19. ASSUME NEW o, JumpsTo(z, o) PROVE Has(z, o) \/ IsTarget(o)
  BY <1>16, <1>19 DEF Labelled
<1>. QED  BY <1>3, <1>11, <1>13, <1>15, <1>16, <1>17, <1>18, <1>19 DEF Labelled

-----------------------------------------------------------------------------
(***************************************************************************)
(* What else is known of the tree: which pieces of the text its nodes      *)
(* stand for, whose children they are, that every token has a node, and    *)
(* what comes before a statement.                                          *)
(***************************************************************************)
Placed(q) ==
  /\ Spans(q)
  /\ \A n \in Nodes : /\ First(n) # 0 => q[First(n)].up = n
                      /\ After(n) # 0 => q[After(n)].up = q[n].up
                      /\ Tok(n, KEYWORDS) => Gram(q[n].up, "STATEMENT") /\ First(q[n].up) = n
  /\ \A p \in F!Places : \E n \in Nodes : IsToken(ast, n) /\ ast[n].value = p
  /\ \A m \in Nodes : Gram(m, "STATEMENT") =>
       \/ m = First(Head_)
       \/ \E n \in Nodes : /\ Gram(n, "STATEMENT")
                           /\ m = After(n) \/ (q[n].kw \in {"IF", "WHILE"} /\ m = Fourth(n))

LEMMA StatementPlaced ==
  ASSUME NEW q, Fit(q), Placed(q), NEW n, Gram(n, "STATEMENT")
  PROVE  /\ n \in Nodes \ {Head_} /\ First(n) \in Nodes \ {Head_}
         /\ q[n].from \in Nat /\ q[n].to \in Nat /\ Right(q, n) \in Nat
         /\ q[n].from <= q[n].to /\ q[n].to <= Right(q, n)
         /\ After(n) # 0 => After(n) \in Nodes \ {Head_}
                            /\ q[After(n)].from = q[n].to + 1 /\ Right(q, After(n)) = Right(q, n)
         /\ q[First(n)].from = q[n].from /\ Right(q, First(n)) = q[n].to
<1>1. n \in Nodes /\ StatementFit(q, n) /\ ~ IsToken(ast, n)
  BY StatementFacts, Kinds
<1>2. Tok(First(n), {q[n].kw})
  BY <1>1 DEF StatementFit
<1>3. n # Head_
  <2>1. ~ (First(n) = 0 \/ Gram(First(n), "STATEMENT"))
    <3>1. IsToken(ast, First(n))
      BY <1>2 DEF Tok
    <3>. QED  BY <3>1, Kinds
  <2>. QED  BY <2>1 DEF Fit
<1>4. First(n) \in Nodes /\ First(n) # Head_ /\ (After(n) # 0 => After(n) \in Nodes /\ After(n) # Head_)
  <2>1. Len(ast) \in Nat /\ n \in 1 .. Len(ast) /\ Head_ = 1 /\ First(n) # 0
    BY <1>1, <1>2, Kinds DEF Fit, Forward, Nodes
  <2>2. First(n) \in {0} \cup (n + 1 .. Len(ast)) /\ After(n) \in {0} \cup (n + 1 .. Len(ast))
    BY <1>1 DEF Fit, Forward
  <2>. QED  BY <2>1, <2>2 DEF Nodes
<1>. QED  BY <1>1, <1>3, <1>4 DEF Placed, Spans

\* A piece that comes after another one, in the same piece.
LEMMA NextPiece ==
  ASSUME NEW q, Forward, Spans(q), NEW m \in Nodes \ {Head_}, After(m) # 0
  PROVE  /\ After(m) \in Nodes \ {Head_} /\ Right(q, After(m)) = Right(q, m)
         /\ q[m].from \in Nat /\ q[After(m)].from \in Nat /\ q[m].from <= q[After(m)].from
         /\ q[After(m)].to <= Right(q, m) /\ q[After(m)].from <= Right(q, m) /\ Right(q, m) \in Nat
<1>1. Len(ast) \in Nat /\ m \in 1 .. Len(ast) /\ Head_ = 1
  BY Kinds DEF Forward, Nodes
<1>2. After(m) \in Nodes \ {Head_}
  <2>1. After(m) \in {0} \cup (m + 1 .. Len(ast))
    BY DEF Forward
  <2>. QED  BY <1>1, <2>1 DEF Nodes
<1>3. /\ q[m].from \in Nat /\ q[m].to \in Nat /\ Right(q, m) \in Nat /\ q[m].from <= q[m].to
      /\ q[After(m)].from = q[m].to + 1 /\ Right(q, After(m)) = Right(q, m)
  BY DEF Spans
<1>4. /\ q[After(m)].from \in Nat /\ q[After(m)].to \in Nat
      /\ q[After(m)].from <= q[After(m)].to /\ q[After(m)].to <= Right(q, After(m))
  BY <1>2 DEF Spans
<1>. QED  BY <1>2, <1>3, <1>4

LEMMA FourthPiece ==
  ASSUME NEW q, Fit(q), Placed(q), NEW n, Gram(n, "STATEMENT"), Fourth(n) # 0
  PROVE  /\ Fourth(n) \in Nodes \ {Head_} /\ q[Fourth(n)].from \in Nat /\ Right(q, Fourth(n)) = q[n].to
         /\ q[n].from <= q[Fourth(n)].from /\ q[Fourth(n)].from <= q[n].to
         /\ q[Fourth(n)].up = n
<1>1. PICK a, b, c, d : a = First(n) /\ b = After(a) /\ c = After(b) /\ d = After(c)
  OBVIOUS
<1>2. d = Fourth(n)
  BY <1>1 DEF Fourth, Third, Second, First, After
<1>3. After(0) = 0
  BY Kinds
<1>4. a # 0 /\ b # 0 /\ c # 0 /\ d # 0
  BY <1>1, <1>2, <1>3
<1>5. a \in Nodes \ {Head_} /\ q[a].from = q[n].from /\ Right(q, a) = q[n].to /\ n \in Nodes
  BY <1>1, StatementPlaced
<1>6. Forward /\ Spans(q)
  BY DEF Fit, Placed
<1>7. /\ b \in Nodes \ {Head_} /\ Right(q, b) = q[n].to /\ q[a].from \in Nat /\ q[b].from \in Nat
      /\ q[a].from <= q[b].from
  BY <1>1, <1>4, <1>5, <1>6, NextPiece
<1>8. /\ c \in Nodes \ {Head_} /\ Right(q, c) = q[n].to /\ q[c].from \in Nat /\ q[b].from <= q[c].from
  BY <1>1, <1>4, <1>6, <1>7, NextPiece
<1>9. /\ d \in Nodes \ {Head_} /\ Right(q, d) = q[n].to /\ q[d].from \in Nat /\ q[c].from <= q[d].from
      /\ q[d].from <= q[n].to
  BY <1>1, <1>4, <1>6, <1>8, NextPiece
<1>10. q[n].from <= q[d].from
  BY <1>5, <1>7, <1>8, <1>9
<1>11. q[d].up = n
  <2>1. q[a].up = n /\ q[b].up = q[a].up /\ q[c].up = q[b].up /\ q[d].up = q[c].up
    BY <1>1, <1>4, <1>5, <1>7, <1>8 DEF Placed
  <2>. QED  BY <2>1
<1>. QED  BY <1>2, <1>9, <1>10, <1>11

\* The identifier after LET, INPUT, LABEL and GOTO.
LEMMA NamedPlace ==
  ASSUME NEW q, Fit(q), NEW n, Gram(n, "STATEMENT"), q[n].kw \in {"LET", "INPUT", "LABEL", "GOTO"}
  PROVE  /\ IsToken(ast, First(n)) /\ IsToken(ast, Second(n)) /\ Second(n) # 0
         /\ ast[Second(n)].value \in F!IdentsAfter(q[n].kw)
         /\ ast[First(n)].value \in Nat /\ ast[Second(n)].value = ast[First(n)].value + 1
         /\ TextAt(Second(n)) = text[ast[Second(n)].value]
<1>1. PICK k, c, p, v : k = First(n) /\ c = Second(n) /\ p = ast[c].value /\ v = ast[k].value
  OBVIOUS
<1>2. n \in Nodes /\ StatementFit(q, n)
  BY StatementFacts
<1>3. /\ IsToken(ast, k) /\ tokens[v] = q[n].kw
      /\ IsToken(ast, c) /\ tokens[p] = "IDENT" /\ p = v + 1
  BY <1>1, <1>2 DEF StatementFit, Tok, TokenAt
<1>4. k \in Nodes /\ c \in Nodes /\ c # 0
  BY <1>3, Kinds
<1>5. v \in F!Places /\ p \in F!Places
  BY <1>1, <1>3, <1>4 DEF Fit
<1>6. v \in Nat /\ v >= 1
  BY <1>5 DEF F!Places
<1>7. p > 1 /\ p - 1 = v
  BY <1>3, <1>6
<1>8. p \in F!IdentsAfter(q[n].kw)
  BY <1>3, <1>5, <1>7 DEF F!IdentsAfter
<1>. QED  BY <1>1, <1>3, <1>4, <1>6, <1>8 DEF TextAt

LEMMA SimpleLabelled ==
  ASSUME NEW q, Fit(q), Placed(q), cc \in CONVENTIONS, NEW n, Gram(n, "STATEMENT"), q[n].kw \notin {"IF", "WHILE"},
         NEW l \in Nat, NEW block
  PROVE  Labelled(StatementLines(n, l, block), l, l, q[n].from, q[n].to)
<1>1. PICK x, place, c : x = SimpleLines(n) /\ place = Place(First(n)) /\ c = At(place, x)
  OBVIOUS
<1>2. StatementLines(n, l, block) = c
  BY <1>1, SimpleLinesAre
<1>3. CASE q[n].kw \notin {"LABEL", "GOTO"}
  <2>1. Whole(x) /\ Straight(x)
    BY <1>1, <1>3, SimpleWhole
  <2>2. IsSeq(x)
    BY <2>1 DEF Whole, Follows
  <2>. QED  BY <1>1, <1>2, <2>1, <2>2, LabelsNone DEF Labelled
<1>4. CASE q[n].kw \in {"LABEL", "GOTO"}
  <2>1. PICK p : p = ast[Second(n)].value
    OBVIOUS
  <2>2. /\ IsToken(ast, First(n)) /\ IsToken(ast, Second(n)) /\ Second(n) # 0
        /\ p \in F!IdentsAfter(q[n].kw) /\ ast[First(n)].value \in Nat /\ p = ast[First(n)].value + 1
        /\ TextAt(Second(n)) = text[p]
    BY <1>4, <2>1, NamedPlace
  <2>3. CASE q[n].kw = "GOTO"
    <3>1. PICK line : line = Jump("jmp", Lab(text[p]))
      OBVIOUS
    <3>2. line.op = "jmp" /\ line.dst = Lab(text[p]) /\ "jmp" \in JUMPS
      BY <3>1, LabelsAndJumps DEF JUMPS
    <3>3. x = <<line>>
      BY <1>1, <2>2, <2>3, <3>1, SimpleWhole
    <3>4. IsSeq(c) /\ Once(c) /\ \A o : ~ Has(c, o) /\ (JumpsTo(c, o) <=> o = Lab(text[p]))
      BY <1>1, <3>2, <3>3, LabelsOne
    <3>. QED  BY <1>2, <2>2, <2>3, <3>4 DEF Labelled, IsTarget
  <2>4. CASE q[n].kw = "LABEL"
    <3>1. PICK line : line = Label(Lab(text[p]))
      OBVIOUS
    <3>2. line.op = "label" /\ line.dst = Lab(text[p]) /\ "label" \notin JUMPS
      BY <3>1, LabelsAndJumps DEF JUMPS
    <3>3. x = <<line>>
      BY <1>1, <2>2, <2>4, <3>1, SimpleWhole
    <3>4. IsSeq(c) /\ Once(c) /\ \A o : (Has(c, o) <=> o = Lab(text[p])) /\ ~ JumpsTo(c, o)
      BY <1>1, <3>2, <3>3, LabelsOne
    <3>5. q[n].from <= p /\ p <= q[n].to
      <4>1. /\ First(n) \in Nodes \ {Head_} /\ q[First(n)].from = q[n].from /\ Right(q, First(n)) = q[n].to
            /\ q[n].from \in Nat /\ q[n].to \in Nat
        BY StatementPlaced
      <4>2. Second(n) = After(First(n))
        BY DEF Second, First, After
      <4>3. Forward /\ Spans(q)
        BY DEF Fit, Placed
      <4>4. Second(n) \in Nodes \ {Head_} /\ q[Second(n)].to <= q[n].to
        BY <2>2, <4>1, <4>2, <4>3, NextPiece
      <4>5. q[Second(n)].to = p /\ q[First(n)].from = ast[First(n)].value
        BY <2>1, <2>2, <4>1, <4>3, <4>4 DEF Spans
      <4>. QED  BY <2>2, <4>1, <4>4, <4>5
    <3>. QED  BY <1>2, <2>2, <2>4, <3>4, <3>5 DEF Labelled, IsLab
  <2>. QED  BY <1>4, <2>3, <2>4
<1>. QED  BY <1>3, <1>4

LEMMA LabelledIn ==
  ASSUME NEW x, NEW l \in Nat, NEW h \in Nat, NEW a \in Nat, NEW b \in Nat, NEW a2 \in Nat, NEW b2 \in Nat,
         Labelled(x, l, h, a, b), a2 <= a, b <= b2
  PROVE  Labelled(x, l, h, a2, b2)
<1>1. \A o : IsLab(o, a, b) => IsLab(o, a2, b2)
  BY Wider
<1>. QED  BY <1>1 DEF Labelled

\* The labels of a statement, from those of its block.
LEMMA StatementLabelled ==
  ASSUME F!UniqueLabels, NEW q, Fit(q), Placed(q), cc \in CONVENTIONS, NEW n, Gram(n, "STATEMENT"),
         NEW l \in Nat, NEW h, NEW i, i = l + LabelsOf(n), h = LabelAfter[Fourth(n)][i],
         NEW block, block = Block[Fourth(n)][i],
         Gram(Fourth(n), "STATEMENT") =>
           i <= h /\ Labelled(block, i, h, q[Fourth(n)].from, Right(q, Fourth(n)))
  PROVE  h \in Nat /\ l <= h /\ Labelled(StatementLines(n, l, block), l, h, q[n].from, q[n].to)
<1>1. n \in Nodes /\ Forward /\ Keyword(n) = q[n].kw
  BY StatementFacts DEF Fit
<1>2. i \in Nat /\ h \in Nat /\ Fourth(n) \in Nat
  BY <1>1, Inside
<1>3. q[n].from \in Nat /\ q[n].to \in Nat /\ q[n].from <= q[n].to
  BY StatementPlaced
<1>4. ~ Gram(Fourth(n), "STATEMENT") => block = <<>> /\ h = i
  <2>1. ~ Gram(Fourth(n), "STATEMENT") => ~ IsStatementNode(Fourth(n))
    BY StatementNodes
  <2>. QED  BY <1>1, <1>2, <2>1, BlockFacts, LabelAfterFacts DEF BlockFrom, LabelFrom
<1>5. i <= h /\ Labelled(block, i, h, q[n].from, q[n].to)
  <2>1. CASE Gram(Fourth(n), "STATEMENT")
    <3>1. Fourth(n) # 0
      BY <2>1, Kinds
    <3>2. /\ q[Fourth(n)].from \in Nat /\ Right(q, Fourth(n)) = q[n].to
          /\ q[n].from <= q[Fourth(n)].from /\ q[n].to <= q[n].to
      BY <1>3, <3>1, FourthPiece
    <3>. QED  BY <1>2, <1>3, <2>1, <3>2, LabelledIn
  <2>2. CASE ~ Gram(Fourth(n), "STATEMENT")
    BY <1>2, <1>4, <2>2, LabelledNowhere
  <2>. QED  BY <2>1, <2>2
<1>6. CASE q[n].kw = "IF"
  <2>1. i = l + 1
    BY <1>1, <1>6 DEF LabelsOf
  <2>2. l + 1 <= h /\ Labelled(block, l + 1, h, q[n].from, q[n].to)
    BY <1>5, <2>1
  <2>3. l <= h
    BY <1>2, <2>2
  <2>. QED  BY <1>2, <1>3, <1>6, <2>2, <2>3, IfLabelled
<1>7. CASE q[n].kw = "WHILE"
  <2>1. i = l + 2
    BY <1>1, <1>7 DEF LabelsOf
  <2>2. l + 2 <= h /\ Labelled(block, l + 2, h, q[n].from, q[n].to)
    BY <1>5, <2>1
  <2>3. l <= h
    BY <1>2, <2>2
  <2>. QED  BY <1>2, <1>3, <1>7, <2>2, <2>3, WhileLabelled
<1>8. CASE q[n].kw \notin {"IF", "WHILE"}
  <2>1. i = l
    BY <1>1, <1>8 DEF LabelsOf
  <2>2. ~ Gram(Fourth(n), "STATEMENT")
    <3>. SUFFICES ASSUME Gram(Fourth(n), "STATEMENT") PROVE FALSE
      OBVIOUS
    <3>1. Fourth(n) # 0 /\ n # Head_
      BY Kinds, StatementPlaced
    <3>2. q[Fourth(n)].up = n
      BY <3>1, FourthPiece
    <3>3. StatementFit(q, Fourth(n))
      BY StatementFacts
    <3>. QED  BY <1>8, <3>1, <3>2, <3>3 DEF StatementFit
  <2>3. h = l
    BY <1>4, <2>1, <2>2
  <2>. QED  BY <1>8, <2>3, SimpleLabelled
<1>. QED  BY <1>6, <1>7, <1>8

LEMMA BlockLabelled ==
  ASSUME F!UniqueLabels, NEW q, Fit(q), Placed(q), cc \in CONVENTIONS
  PROVE  \A n \in Nodes, l \in Nat : Gram(n, "STATEMENT") =>
           /\ LabelAfter[n][l] \in Nat /\ l <= LabelAfter[n][l]
           /\ Labelled(Block[n][l], l, LabelAfter[n][l], q[n].from, Right(q, n))
<1>1. PICK N : N = Len(ast) /\ N \in Nat /\ Nodes = 1 .. N /\ Forward
  BY DEF Fit, Forward, Nodes
<1>2. \A n, l \in Nat : /\ Block[n][l] = BlockFrom(Block, n, l)
                        /\ LabelAfter[n][l] \in Nat /\ LabelAfter[n][l] = LabelFrom(LabelAfter, n, l)
  BY <1>1, BlockFacts, LabelAfterFacts
<1>. DEFINE Good(n, l) == l <= LabelAfter[n][l] /\ Labelled(Block[n][l], l, LabelAfter[n][l], q[n].from, Right(q, n))
            S == {k \in Nat : \A n \in Nodes, l \in Nat : k <= n /\ Gram(n, "STATEMENT") => Good(n, l)}
<1>3. N + 1 \in S
  <2>. HIDE DEF Good
  <2>. QED  BY <1>1
<1>4. ASSUME NEW k \in 1 .. N, k + 1 \in S PROVE k \in S
  <2>1. \A n \in Nodes, l \in Nat : k + 1 <= n /\ Gram(n, "STATEMENT") => Good(n, l)
    <3>. HIDE DEF Good
    <3>. QED  BY <1>4
  <2>2. ASSUME NEW l \in Nat, Gram(k, "STATEMENT") PROVE Good(k, l)
    <3>1. k \in Nat /\ k \in Nodes
      BY <1>1
    <3>2. IsStatementNode(k)
      BY <2>2, StatementNodes
    <3>3. PICK i, h, c, d : i = l + LabelsOf(k) /\ c = Fourth(k) /\ d = After(k) /\ h = LabelAfter[c][i]
      OBVIOUS
    <3>4. PICK m, x, y, block : m = LabelAfter[d][h] /\ block = Block[c][i] /\ x = StatementLines(k, l, block) /\ y = Block[d][h]
      OBVIOUS
    <3>5. Block[k][l] = x \o y /\ LabelAfter[k][l] = m
      BY <1>2, <3>1, <3>2, <3>3, <3>4 DEF BlockFrom, LabelFrom
    <3>6. /\ i \in Nat /\ h \in Nat
          /\ c \in Nat /\ (c = 0 \/ (c \in Nodes /\ c > k))
          /\ d \in Nat /\ (d = 0 \/ (d \in Nodes /\ d > k))
      BY <1>1, <3>1, <3>3, Inside
    <3>7. m \in Nat
      BY <1>2, <3>4, <3>6
    <3>8. Gram(c, "STATEMENT") => i <= h /\ Labelled(block, i, h, q[c].from, Right(q, c))
      <4>. SUFFICES ASSUME Gram(c, "STATEMENT") PROVE Good(c, i)
        BY <3>3, <3>4
      <4>1. c \in Nodes /\ k + 1 <= c
        BY <1>1, <3>1, <3>6, Kinds
      <4>. HIDE DEF Good
      <4>. QED  BY <2>1, <3>6, <4>1
    <3>9. l <= h /\ Labelled(x, l, h, q[k].from, q[k].to)
      BY <2>2, <3>3, <3>4, <3>8, StatementLabelled
    <3>10. /\ q[k].from \in Nat /\ q[k].to \in Nat /\ Right(q, k) \in Nat
           /\ q[k].from <= q[k].to /\ q[k].to <= Right(q, k)
           /\ d # 0 => d \in Nodes \ {Head_} /\ q[d].from = q[k].to + 1 /\ Right(q, d) = Right(q, k)
      BY <2>2, <3>3, StatementPlaced
    <3>11. CASE Gram(d, "STATEMENT")
      <4>1. d \in Nodes /\ k + 1 <= d /\ d # 0
        BY <1>1, <3>1, <3>6, <3>11, Kinds
      <4>2. Good(d, h)
        <5>. HIDE DEF Good
        <5>. QED  BY <2>1, <3>6, <3>11, <4>1
      <4>3. h <= m /\ Labelled(y, h, m, q[d].from, Right(q, k))
        BY <3>4, <3>10, <4>1, <4>2
      <4>4. q[d].from \in Nat /\ q[k].to < q[d].from /\ q[d].from <= Right(q, k)
        <5>1. q[d].from <= q[d].to /\ q[d].to <= Right(q, d) /\ q[d].from \in Nat /\ q[d].to \in Nat
          BY <3>11, StatementPlaced
        <5>. QED  BY <3>10, <4>1, <5>1
      <4>5. Labelled(x \o y, l, m, q[k].from, Right(q, k))
        <5>1. PICK a, b, a2, b2 : a = q[k].from /\ b = q[k].to /\ a2 = q[d].from /\ b2 = Right(q, k)
          OBVIOUS
        <5>2. /\ a \in Nat /\ b \in Nat /\ a2 \in Nat /\ b2 \in Nat
              /\ a <= b /\ b < a2 /\ a2 <= b2 /\ l <= h /\ h <= h /\ h <= m
          BY <3>6, <3>9, <3>10, <4>3, <4>4, <5>1
        <5>3. Labelled(x, l, h, a, b) /\ Labelled(y, h, m, a2, b2)
          BY <3>9, <4>3, <5>1
        <5>4. Labelled(x \o y, l, m, a, b2)
          BY <3>6, <3>7, <5>2, <5>3, LabelledOn
        <5>. QED  BY <5>1, <5>4
      <4>6. l <= m
        BY <3>6, <3>7, <3>9, <4>3
      <4>. QED  BY <3>5, <4>5, <4>6
    <3>12. CASE ~ Gram(d, "STATEMENT")
      <4>1. ~ IsStatementNode(d)
        BY <3>12, StatementNodes
      <4>2. y = <<>> /\ m = h
        BY <1>2, <3>4, <3>6, <4>1 DEF BlockFrom, LabelFrom
      <4>3. x \o y = x
        <5>1. IsSeq(x)
          BY <3>9 DEF Labelled
        <5>. QED  BY <4>2, <5>1, NothingAdded
      <4>4. Labelled(x, l, h, q[k].from, Right(q, k))
        <5>1. q[k].from <= q[k].from
          BY <3>10
        <5>. QED  BY <3>6, <3>9, <3>10, <5>1, LabelledIn
      <4>. QED  BY <3>5, <3>9, <4>2, <4>3, <4>4
    <3>. QED  BY <3>11, <3>12
  <2>3. ASSUME NEW n \in Nodes, NEW l \in Nat, k <= n, Gram(n, "STATEMENT") PROVE Good(n, l)
    <3>1. n = k \/ k + 1 <= n
      BY <1>1, <2>3
    <3>. HIDE DEF Good
    <3>. QED  BY <2>1, <2>2, <2>3, <3>1
  <2>4. k \in Nat
    OBVIOUS
  <2>. HIDE DEF Good
  <2>. QED  BY <2>3, <2>4
<1>5. \A k \in 1 .. N + 1 : k \in S
  <2>. HIDE DEF S
  <2>. QED  BY <1>1, <1>3, <1>4, Backwards
<1>6. 1 \in S
  <2>1. 1 \in 1 .. N + 1
    BY <1>1
  <2>. HIDE DEF S
  <2>. QED  BY <1>5, <2>1
<1>7. \A n \in Nodes, l \in Nat : Gram(n, "STATEMENT") => Good(n, l)
  <2>1. \A n \in Nodes : 1 <= n
    BY <1>1
  <2>. HIDE DEF Good
  <2>. QED  BY <1>6, <2>1
<1>8. \A n \in Nodes : n \in Nat
  BY <1>1
<1>. QED  BY <1>2, <1>7, <1>8

-----------------------------------------------------------------------------
(***************************************************************************)
(* The labels of main.                                                     *)
(***************************************************************************)
LEMMA MainEnds ==
  ASSUME NEW q, Fit(q), cc \in CONVENTIONS
  PROVE  /\ IsSeq(MainLines) /\ First(Head_) \in Nat
         /\ \A o : Has(MainLines, o) <=> Has(Block[First(Head_)][0], o)
         /\ \A o : JumpsTo(MainLines, o) <=> JumpsTo(Block[First(Head_)][0], o)
         /\ Once(Block[First(Head_)][0]) => Once(MainLines)
<1>1. PICK l, p, x : l = Line("ret", None, None) /\ p = Len(tokens) + 1 /\ x = <<l>>
  OBVIOUS
<1>2. PICK b, t : b = Block[First(Head_)][0] /\ t = At(p, x)
  OBVIOUS
<1>3. MainLines = b \o t
  BY <1>1, <1>2 DEF MainLines, First
<1>4. First(Head_) \in Nat
  <2>1. First(Head_) = 0 \/ First(Head_) \in Nodes
    BY Kinds DEF Fit
  <2>. QED  BY <2>1 DEF Fit, Forward, Nodes
<1>5. IsSeq(b)
  <2>1. 0 \in Nat
    OBVIOUS
  <2>2. Sound(b)
    BY <1>2, <1>4, <2>1, BlockSound
  <2>. QED  BY <2>2 DEF Sound, Leads
<1>6. IsSeq(t) /\ Once(t) /\ \A o : ~ Has(t, o) /\ ~ JumpsTo(t, o)
  <2>1. l.op = "ret"
    BY <1>1, LineFacts
  <2>2. l.op # "label" /\ l.op \notin JUMPS
    BY <2>1 DEF JUMPS
  <2>. QED  BY <1>1, <1>2, <2>2, LabelsOne
<1>7. PICK m : m = b \o t
  OBVIOUS
<1>8. /\ IsSeq(m) /\ \A o : Has(m, o) <=> Has(b, o)
      /\ \A o : JumpsTo(m, o) <=> JumpsTo(b, o)
      /\ Once(b) => Once(m)
  BY <1>5, <1>6, <1>7, LabelsOn
<1>. QED  BY <1>2, <1>3, <1>4, <1>7, <1>8

\* The labels of a block are among those of its statement.
LEMMA HolderHas ==
  ASSUME NEW q, Fit(q), cc \in CONVENTIONS, NEW n, Gram(n, "STATEMENT"), q[n].kw \in {"IF", "WHILE"},
         NEW l, NEW block, IsSeq(block)
  PROVE  \A o : Has(block, o) => Has(StatementLines(n, l, block), o)
<1>1. CASE q[n].kw = "IF"
  <2>1. PICK h, t : h = IfHead(n, l) /\ t = IfEnd(n, l)
    OBVIOUS
  <2>2. StatementLines(n, l, block) = (h \o block) \o t /\ IsSeq(h) /\ IsSeq(t)
    BY <1>1, <2>1, IfLinesAre DEF Sound, Leads
  <2>3. PICK d, e : d = h \o block /\ e = d \o t
    OBVIOUS
  <2>4. IsSeq(d) /\ \A o : Has(block, o) => Has(d, o)
    BY <2>2, <2>3, LabelsOn
  <2>5. \A o : Has(d, o) => Has(e, o)
    BY <2>2, <2>3, <2>4, LabelsOn
  <2>. QED  BY <2>2, <2>3, <2>4, <2>5
<1>2. CASE q[n].kw = "WHILE"
  <2>1. PICK h, b, t : h = WhileHead(n, l) /\ b = WhileBack(n, l) /\ t = WhileEnd(n, l)
    OBVIOUS
  <2>2. StatementLines(n, l, block) = ((h \o block) \o b) \o t /\ IsSeq(h) /\ IsSeq(b) /\ IsSeq(t)
    BY <1>2, <2>1, WhileLinesAre DEF Sound, Leads
  <2>3. PICK d, e, f : d = h \o block /\ e = d \o b /\ f = e \o t
    OBVIOUS
  <2>4. IsSeq(d) /\ \A o : Has(block, o) => Has(d, o)
    BY <2>2, <2>3, LabelsOn
  <2>5. IsSeq(e) /\ \A o : Has(d, o) => Has(e, o)
    BY <2>2, <2>3, <2>4, LabelsOn
  <2>6. \A o : Has(e, o) => Has(f, o)
    BY <2>2, <2>3, <2>5, LabelsOn
  <2>. QED  BY <2>2, <2>3, <2>4, <2>5, <2>6
<1>. QED  BY <1>1, <1>2

\* What a block is made of.
LEMMA BlockParts ==
  ASSUME NEW q, Fit(q), cc \in CONVENTIONS, NEW n, Gram(n, "STATEMENT"), NEW l \in Nat
  PROVE  \E i \in Nat, h \in Nat :
           /\ IsSeq(Block[Fourth(n)][i])
           /\ \A o : Has(StatementLines(n, l, Block[Fourth(n)][i]), o) => Has(Block[n][l], o)
           /\ \A o : Has(Block[After(n)][h], o) => Has(Block[n][l], o)
<1>1. n \in Nodes /\ Forward /\ n \in Nat
  <2>1. n \in Nodes /\ Forward
    BY Kinds DEF Fit
  <2>. QED  BY <2>1 DEF Forward, Nodes
<1>2. PICK i, h, x, y : /\ i = l + LabelsOf(n) /\ h = LabelAfter[Fourth(n)][i]
                        /\ x = StatementLines(n, l, Block[Fourth(n)][i]) /\ y = Block[After(n)][h]
  OBVIOUS
<1>3. i \in Nat /\ h \in Nat /\ Fourth(n) \in Nat /\ After(n) \in Nat
  BY <1>1, <1>2, Inside
<1>4. Block[n][l] = x \o y
  <2>1. IsStatementNode(n)
    BY StatementNodes
  <2>. QED  BY <1>1, <1>2, <2>1, BlockFacts DEF BlockFrom
<1>5. Sound(Block[Fourth(n)][i]) /\ Sound(y)
  BY <1>2, <1>3, BlockSound
<1>6. Sound(x)
  BY <1>2, <1>5, StatementSound
<1>7. IsSeq(x) /\ IsSeq(y) /\ IsSeq(Block[Fourth(n)][i])
  BY <1>5, <1>6 DEF Sound, Leads
<1>8. \A o : (Has(x, o) => Has(x \o y, o)) /\ (Has(y, o) => Has(x \o y, o))
  BY <1>7, LabelsOn
<1>. QED  BY <1>2, <1>3, <1>4, <1>7, <1>8

\* Every statement is emitted.
LEMMA Reached ==
  ASSUME NEW q, Fit(q), Placed(q), cc \in CONVENTIONS
  PROVE  \A u \in Nodes : Gram(u, "STATEMENT") => \E l \in Nat : \A o : Has(Block[u][l], o) => Has(MainLines, o)
<1>. DEFINE Goes(u) == \E l \in Nat : \A o : Has(Block[u][l], o) => Has(MainLines, o)
            T == {u \in Nodes : Gram(u, "STATEMENT") /\ ~ Goes(u)}
<1>1. Len(ast) \in Nat /\ Nodes = 1 .. Len(ast) /\ Forward
  BY DEF Fit, Forward, Nodes
<1>2. SUFFICES ASSUME T # {} PROVE FALSE
  <2>. HIDE DEF Goes
  <2>1. T = {} => \A u \in Nodes : Gram(u, "STATEMENT") => Goes(u)
    OBVIOUS
  <2>. QED  BY <1>2, <2>1 DEF Goes
<1>3. PICK u \in T : \A v \in T : u <= v
  <2>1. T \subseteq Nat
    <3>. HIDE DEF Goes
    <3>. QED  BY <1>1
  <2>. HIDE DEF T
  <2>. QED  BY <1>2, <2>1, Least
<1>4. u \in Nodes /\ Gram(u, "STATEMENT") /\ ~ Goes(u)
  <2>. HIDE DEF Goes
  <2>. QED  OBVIOUS
<1>5. CASE u = First(Head_)
  <2>1. 0 \in Nat /\ \A o : Has(Block[u][0], o) => Has(MainLines, o)
    BY <1>5, MainEnds
  <2>. QED  BY <1>4, <2>1
<1>6. CASE u # First(Head_)
  <2>1. PICK n \in Nodes : /\ Gram(n, "STATEMENT")
                           /\ u = After(n) \/ (q[n].kw \in {"IF", "WHILE"} /\ u = Fourth(n))
    BY <1>4, <1>6 DEF Placed
  <2>2. n < u
    <3>1. /\ Fourth(n) = 0 \/ (Fourth(n) \in Nodes /\ Fourth(n) > n)
          /\ After(n) = 0 \/ (After(n) \in Nodes /\ After(n) > n)
      BY <1>1, Ahead
    <3>2. u # 0
      BY <1>1, <1>4
    <3>. QED  BY <2>1, <3>1, <3>2
  <2>3. Goes(n)
    <3>1. n \notin T
      <4>1. ~ (u <= n)
        BY <1>1, <1>4, <2>2
      <4>. HIDE DEF T
      <4>. QED  BY <1>3, <4>1
    <3>. HIDE DEF Goes
    <3>. QED  BY <2>1, <3>1
  <2>4. PICK l \in Nat : \A o : Has(Block[n][l], o) => Has(MainLines, o)
    BY <2>3
  <2>5. PICK i \in Nat, h \in Nat :
           /\ IsSeq(Block[Fourth(n)][i])
           /\ \A o : Has(StatementLines(n, l, Block[Fourth(n)][i]), o) => Has(Block[n][l], o)
           /\ \A o : Has(Block[After(n)][h], o) => Has(Block[n][l], o)
    BY <2>1, BlockParts
  <2>6. CASE u = After(n)
    <3>1. \A o : Has(Block[u][h], o) => Has(MainLines, o)
      BY <2>4, <2>5, <2>6
    <3>. QED  BY <1>4, <3>1
  <2>7. CASE q[n].kw \in {"IF", "WHILE"} /\ u = Fourth(n)
    <3>1. \A o : Has(Block[Fourth(n)][i], o) => Has(StatementLines(n, l, Block[Fourth(n)][i]), o)
      BY <2>1, <2>5, <2>7, HolderHas
    <3>2. \A o : Has(Block[u][i], o) => Has(MainLines, o)
      BY <2>4, <2>5, <2>7, <3>1
    <3>. QED  BY <1>4, <3>2
  <2>. QED  BY <2>1, <2>6, <2>7
<1>. QED  BY <1>5, <1>6

LEMMA LabelThere ==
  ASSUME NEW q, Fit(q), Placed(q), cc \in CONVENTIONS, NEW p \in F!IdentsAfter("LABEL")
  PROVE  Has(MainLines, Lab(text[p]))
<1>1. PICK v : v = p - 1
  OBVIOUS
<1>2. v \in F!Places /\ p = v + 1 /\ tokens[v] = "LABEL" /\ v \in Nat
  BY <1>1 DEF F!IdentsAfter, F!Places
<1>3. PICK n \in Nodes : IsToken(ast, n) /\ ast[n].value = v
  BY <1>2 DEF Placed
<1>4. TokenAt(n) = "LABEL"
  BY <1>2, <1>3 DEF TokenAt
<1>5. PICK u : u = q[n].up
  OBVIOUS
<1>6. Gram(u, "STATEMENT") /\ First(u) = n
  BY <1>3, <1>4, <1>5 DEF Placed, Tok, KEYWORDS
<1>7. q[u].kw = "LABEL" /\ u \in Nodes
  BY <1>4, <1>6, StatementFacts DEF StatementFit, Tok
<1>8. ast[Second(u)].value = p /\ TextAt(Second(u)) = text[p]
  BY <1>2, <1>3, <1>6, <1>7, NamedPlace
<1>9. PICK l \in Nat : \A o : Has(Block[u][l], o) => Has(MainLines, o)
  BY <1>6, <1>7, Reached
<1>10. PICK i \in Nat : \A o : Has(StatementLines(u, l, Block[Fourth(u)][i]), o) => Has(Block[u][l], o)
  BY <1>6, BlockParts
<1>11. PICK c, place, line, x : /\ c = StatementLines(u, l, Block[Fourth(u)][i]) /\ place = Place(First(u))
                                /\ line = Label(Lab(text[p])) /\ x = <<line>>
  OBVIOUS
<1>12. SimpleLines(u) = x
  BY <1>6, <1>7, <1>8, <1>11, SimpleWhole
<1>13. c = At(place, x)
  BY <1>6, <1>7, <1>11, <1>12, SimpleLinesAre
<1>14. line.op = "label" /\ line.dst = Lab(text[p])
  BY <1>11, LabelsAndJumps
<1>15. Has(c, Lab(text[p]))
  BY <1>11, <1>13, <1>14, LabelsOne
<1>. QED  BY <1>9, <1>10, <1>11, <1>15

\* Every label of main is on one line, and every jump has its label.
LEMMA MainLabels ==
  ASSUME NEW q, Fit(q), Placed(q), cc \in CONVENTIONS, F!Meaningful
  PROVE  /\ IsSeq(MainLines) /\ Once(MainLines)
         /\ \A o : JumpsTo(MainLines, o) => Has(MainLines, o)
<1>1. F!UniqueLabels /\ F!JumpsLand
  BY DEF F!Meaningful
<1>2. PICK b : b = Block[First(Head_)][0]
  OBVIOUS
<1>3. /\ IsSeq(MainLines) /\ First(Head_) \in Nat
      /\ \A o : Has(MainLines, o) <=> Has(b, o)
      /\ \A o : JumpsTo(MainLines, o) <=> JumpsTo(b, o)
      /\ Once(b) => Once(MainLines)
  BY <1>2, MainEnds
<1>4. 0 \in Nat
  OBVIOUS
<1>5. Once(b) /\ \A o : JumpsTo(b, o) => Has(b, o) \/ IsTarget(o)
  <2>1. CASE Gram(First(Head_), "STATEMENT")
    <3>1. First(Head_) \in Nodes
      BY <2>1, Kinds
    <3>2. Labelled(b, 0, LabelAfter[First(Head_)][0], q[First(Head_)].from, Right(q, First(Head_)))
      BY <1>1, <1>2, <1>4, <2>1, <3>1, BlockLabelled
    <3>. QED  BY <3>2 DEF Labelled
  <2>2. CASE ~ Gram(First(Head_), "STATEMENT")
    <3>1. ~ IsStatementNode(First(Head_))
      BY <2>2, StatementNodes
    <3>2. b = <<>>
      <4>1. Forward
        BY DEF Fit
      <4>. QED  BY <1>2, <1>3, <1>4, <3>1, <4>1, BlockFacts DEF BlockFrom
    <3>. QED  BY <3>2, LabelsNowhere
  <2>. QED  BY <2>1, <2>2
<1>6. ASSUME NEW o, IsTarget(o) PROVE Has(MainLines, o)
  <2>1. PICK p \in F!IdentsAfter("GOTO") : o = Lab(text[p])
    BY <1>6 DEF IsTarget
  <2>2. PICK r \in F!IdentsAfter("LABEL") : text[p] = text[r]
    BY <1>1 DEF F!JumpsLand, F!Labels
  <2>3. Has(MainLines, Lab(text[r]))
    BY LabelThere
  <2>. QED  BY <2>1, <2>2, <2>3
<1>. QED  BY <1>3, <1>5, <1>6

LEMMA AcceptsPlaced == ASSUME NEW q, FP!Accepts(q) PROVE Placed(q)
<1>1. /\ \A n : FP!PP!FirstChild(ast, n) = First(n)
      /\ \A n : FP!PP!NextSibling(ast, n) = After(n)
      /\ \A n, rule : FP!PP!Gram(ast, n, rule) <=> Gram(n, rule)
      /\ \A n, types : FP!PP!Tok(ast, tokens, n, types) <=> Tok(n, types)
      /\ \A n : FP!PP!IsToken(ast, n) <=> IsToken(ast, n)
      /\ \A m : FP!PP!RightEnd(ast, q, m) = Right(q, m)
      /\ FP!PP!Ids(ast) = Nodes /\ FP!PP!Head_ = Head_
  BY Zenon DEF FP!PP!FirstChild, FP!PP!NextSibling, FP!PP!Gram, FP!PP!Tok, FP!PP!IsGrammar, FP!PP!IsToken,
     FP!PP!NO_NODE, FP!PP!Head_, FP!PP!Ids, FP!PP!RightEnd, First, After, FirstChild, NextSibling, Gram, Tok,
     IsGrammar, IsToken, TokenAt, NO_NODE, Head_, Nodes, Right
<1>2. FP!PP!Built(ast, q, tokens) /\ FP!PP!Spaced(ast, q) /\ FP!PP!Preceded(ast, q)
  BY DEF FP!Accepts
<1>3. Spans(q)
  <2>. SUFFICES ASSUME NEW m \in Nodes \ {Head_}
       PROVE  /\ q[m].from \in Nat /\ q[m].to \in Nat /\ Right(q, m) \in Nat
              /\ q[m].from <= q[m].to /\ q[m].to <= Right(q, m)
              /\ IsToken(ast, m) => q[m].from = ast[m].value /\ q[m].to = ast[m].value
              /\ ~ IsToken(ast, m) => q[First(m)].from = q[m].from /\ Right(q, First(m)) = q[m].to
              /\ After(m) # 0 => q[After(m)].from = q[m].to + 1 /\ Right(q, After(m)) = Right(q, m)
    BY DEF Spans
  <2>1. m \in FP!PP!Ids(ast) \ {FP!PP!Head_}
    BY <1>1
  <2>. QED  BY <1>1, <1>2, <2>1, Zenon DEF FP!PP!Spaced
<1>4. ASSUME NEW n \in Nodes
      PROVE  /\ First(n) # 0 => q[First(n)].up = n
             /\ After(n) # 0 => q[After(n)].up = q[n].up
             /\ Tok(n, KEYWORDS) => Gram(q[n].up, "STATEMENT") /\ First(q[n].up) = n
  <2>1. n \in FP!PP!Ids(ast)
    BY <1>1
  <2>2. FP!PP!STATEMENT_START_KEYWORDS = KEYWORDS
    BY DEF FP!PP!STATEMENT_START_KEYWORDS, KEYWORDS
  <2>. QED  BY <1>1, <1>2, <2>1, <2>2, Zenon DEF FP!PP!Built
<1>5. \A p \in F!Places : \E n \in Nodes : IsToken(ast, n) /\ ast[n].value = p
  BY DEF FP!Accepts, FP!Nodes, Nodes, FP!IsToken, IsToken, FP!Places, F!Places
<1>6. ASSUME NEW m \in Nodes, Gram(m, "STATEMENT")
      PROVE  \/ m = First(Head_)
             \/ \E n \in Nodes : /\ Gram(n, "STATEMENT")
                                 /\ m = After(n) \/ (q[n].kw \in {"IF", "WHILE"} /\ m = Fourth(n))
  <2>1. \A n : Fourth(n) = After(After(After(First(n))))
    BY DEF Second, Third, Fourth, First, After
  <2>2. m \in FP!PP!Ids(ast) /\ FP!PP!Gram(ast, m, "STATEMENT")
    BY <1>1, <1>6
  <2>3. \/ m = FP!PP!FirstChild(ast, FP!PP!Head_)
        \/ \E n \in FP!PP!Ids(ast) :
             /\ FP!PP!Gram(ast, n, "STATEMENT")
             /\ \/ m = FP!PP!NextSibling(ast, n)
                \/ /\ q[n].kw \in {"IF", "WHILE"}
                   /\ m = FP!PP!NextSibling(ast, FP!PP!NextSibling(ast,
                             FP!PP!NextSibling(ast, FP!PP!FirstChild(ast, n))))
    BY <1>2, <2>2, Zenon DEF FP!PP!Preceded
  <2>. QED  BY <1>1, <2>1, <2>3
<1>. QED  BY <1>3, <1>4, <1>5, <1>6 DEF Placed

\* What the front end hands on of the names.
LEMMA AcceptsNames ==
  ASSUME NEW q, FP!Accepts(q)
  PROVE  /\ DOMAIN variable_table = {text[p] : p \in F!IdentsAfter("LET")}
         /\ F!OneKind => F!Meaningful
<1>1. \A keyword : FP!IdentsAfter(keyword) = F!IdentsAfter(keyword)
  BY Zenon DEF FP!IdentsAfter, F!IdentsAfter, FP!Places, F!Places
<1>2. FP!OneKind <=> F!OneKind
  BY Zenon DEF FP!OneKind, F!OneKind, FP!VariablePlaces, F!VariablePlaces, FP!Labels, F!Labels,
     FP!IdentsAfter, F!IdentsAfter, FP!Places, F!Places
<1>3. FP!Meaningful <=> F!Meaningful
  BY Zenon DEF FP!Meaningful, F!Meaningful, FP!UniqueLabels, F!UniqueLabels, FP!JumpsLand, F!JumpsLand,
     FP!DeclaredBefore, F!DeclaredBefore, FP!StatementStart, F!StatementStart,
     FP!P!STATEMENT_START_KEYWORDS, F!P!STATEMENT_START_KEYWORDS, FP!VariablePlaces, F!VariablePlaces,
     FP!Labels, F!Labels, FP!IdentsAfter, F!IdentsAfter, FP!Places, F!Places
<1>4. DOMAIN variable_table = {text[p] : p \in FP!IdentsAfter("LET")} /\ (FP!OneKind => FP!Meaningful)
  BY DEF FP!Accepts
<1>. QED  BY <1>1, <1>2, <1>3, <1>4

-----------------------------------------------------------------------------
\* That lines assemble, whether or not they are the code yet.
FoundIn(lines, operand) ==
  /\ operand[1] = "_var_" => operand[2] \in DOMAIN variable_table
  /\ operand[1] \in {".LAB", ".ILAB"} =>
       Cardinality({i \in 1 .. Len(lines) : LabelOn(lines, i, operand)}) = 1
AllFound(lines) ==
  \A i \in 1 .. Len(lines) : FoundIn(lines, lines[i].line.dst) /\ FoundIn(lines, lines[i].line.src)

LEMMA AssemblesIs == AllFound(code) => Assembles
<1>1. \A operand : FoundIn(code, operand) => Found(operand)
  BY DEF FoundIn, Found, LabelOn
<1>. QED  BY <1>1 DEF AllFound, Assembles

LEMMA OneLine ==
  ASSUME NEW lines, Once(lines), NEW o, Has(lines, o)
  PROVE  Cardinality({i \in 1 .. Len(lines) : LabelOn(lines, i, o)}) = 1
<1>1. PICK i \in 1 .. Len(lines) : LabelOn(lines, i, o)
  BY DEF Has
<1>2. {j \in 1 .. Len(lines) : LabelOn(lines, j, o)} = {i}
  BY <1>1 DEF Once
<1>. QED  BY <1>2, FS_Singleton

\* A program that keeps labels and variables apart assembles.
LEMMA MainFound ==
  ASSUME NEW q, Fit(q), Placed(q), cc \in CONVENTIONS, F!Meaningful,
         DOMAIN variable_table = {text[p] : p \in F!IdentsAfter("LET")}
  PROVE  AllFound(MainLines)
<1>1. PICK m : m = MainLines
  OBVIOUS
<1>2. PICK f : Annotates(f, m, Nothing, Nothing)
  BY <1>1, MainSound DEF Sound, Leads
<1>3. Once(m) /\ \A o : JumpsTo(m, o) => Has(m, o)
  BY <1>1, MainLabels
<1>4. ASSUME NEW i \in 1 .. Len(m), NEW operand \in {m[i].line.dst, m[i].line.src}
      PROVE  FoundIn(m, operand)
  <2>1. /\ operand[1] = "_var_" => operand[2] \in {text[p] : p \in F!VariablePlaces}
        /\ operand[1] \in {".LAB", ".ILAB"} => m[i].line.op \in JUMPS \cup {"label"} /\ operand = m[i].line.dst
    BY <1>2, <1>4 DEF Annotates, Named
  <2>2. ASSUME operand[1] = "_var_" PROVE operand[2] \in DOMAIN variable_table
    <3>1. PICK p \in F!VariablePlaces : operand[2] = text[p]
      BY <2>1, <2>2
    <3>2. PICK d \in F!IdentsAfter("LET") : text[d] = text[p]
      <4>1. F!DeclaredBefore(p)
        BY DEF F!Meaningful
      <4>. QED  BY <4>1, Zenon DEF F!DeclaredBefore
    <3>. QED  BY <3>1, <3>2
  <2>3. ASSUME operand[1] \in {".LAB", ".ILAB"}
        PROVE  Cardinality({j \in 1 .. Len(m) : LabelOn(m, j, operand)}) = 1
    <3>1. m[i].line.op \in JUMPS \cup {"label"} /\ operand = m[i].line.dst
      BY <2>1, <2>3
    <3>2. Has(m, operand)
      BY <1>3, <3>1 DEF Has, JumpsTo, LabelOn
    <3>. QED  BY <1>3, <3>2, OneLine
  <2>. QED  BY <2>2, <2>3 DEF FoundIn
<1>. QED  BY <1>1, <1>4 DEF AllFound

-----------------------------------------------------------------------------
\* What is emitted from a program that keeps labels and variables apart
\* assembles.
LinkInv ==
  /\ status = "emitted" => (F!OneKind => AllFound(code))
  /\ status = "unlinked" => ~ F!OneKind

LEMMA OneKindStays == UNCHANGED <<tokens, text>> => (F!OneKind' <=> F!OneKind)
BY DEF F!OneKind, F!VariablePlaces, F!Labels, F!IdentsAfter, F!Places

LEMMA AllFoundStays ==
  ASSUME NEW lines, UNCHANGED variable_table, code' = lines, AllFound(lines)
  PROVE  AllFound(code)'
BY DEF AllFound, FoundIn, LabelOn

LEMMA InitLinkInv == Init => LinkInv
BY DEF Init, M!Blank, LinkInv

LEMMA StepLinkInv == FrontInv /\ MachineInv /\ LinkInv /\ [Next]_vars => LinkInv'
<1>. SUFFICES ASSUME FrontInv, MachineInv, LinkInv, [Next]_vars PROVE LinkInv'
  OBVIOUS
<1>1. CASE Compile
  <2>1. status = "compiling" /\ status' = status
    BY <1>1 DEF Compile, MachineInv, machineVars
  <2>. QED  BY <2>1 DEF LinkInv
<1>2. CASE Reject
  BY <1>2 DEF Reject, LinkInv
<1>3. CASE Emit
  <2>1. /\ stage = "done" /\ status' = "emitted" /\ errors = <<>> /\ semantic = <<>>
        /\ code' = MainLines /\ UNCHANGED <<tokens, text, variable_table>>
    BY <1>3 DEF Emit, frontendVars, tableVars
  <2>2. PICK q : FP!Accepts(q)
    BY <2>1, FrontendReady DEF FrontInv
  <2>3. Fit(q) /\ Placed(q) /\ cc \in CONVENTIONS
    BY <2>2, AcceptsFit, AcceptsPlaced DEF MachineInv
  <2>4. DOMAIN variable_table = {text[p] : p \in F!IdentsAfter("LET")} /\ (F!OneKind => F!Meaningful)
    BY <2>2, AcceptsNames
  <2>5. PICK lines : lines = MainLines
    OBVIOUS
  <2>6. F!OneKind => AllFound(lines)
    BY <2>3, <2>4, <2>5, MainFound
  <2>7. F!OneKind' => AllFound(code)'
    BY <2>1, <2>5, <2>6, OneKindStays, AllFoundStays
  <2>. QED  BY <2>1, <2>7 DEF LinkInv
<1>4. CASE Assemble
  <2>1. status = "emitted" /\ UNCHANGED <<tokens, text>> /\ status' \in {"running", "unlinked"}
    BY <1>4 DEF Assemble, frontendVars, M!Load
  <2>2. status' = "unlinked" => ~ Assembles
    BY <1>4 DEF Assemble, M!Load
  <2>3. status' = "unlinked" => ~ F!OneKind
    BY <2>1, <2>2, AssemblesIs DEF LinkInv
  <2>. QED  BY <2>1, <2>3, OneKindStays DEF LinkInv
<1>5. CASE Run
  <2>1. status' \in {"running", "ended", "trapped"}
    BY <1>5 DEF Run, M!Execute, M!Move, M!Push, M!Pop, M!Arithmetic, M!Divide, M!Trap, M!Compare, M!Jumps,
                M!PassLabel, M!PrintInteger, M!PrintString, M!InputInteger, M!Calls, M!End, M!Running
  <2>. QED  BY <2>1 DEF LinkInv
<1>6. CASE Stopped \/ UNCHANGED vars
  <2>1. UNCHANGED <<tokens, text, variable_table, code, status>>
    BY <1>6 DEF Stopped, vars, frontendVars, machineVars, tableVars
  <2>2. AllFound(code) => AllFound(code)'
    BY <2>1, AllFoundStays
  <2>. QED  BY <2>1, <2>2, OneKindStays DEF LinkInv
<1>. QED  BY <1>1, <1>2, <1>3, <1>4, <1>5, <1>6 DEF Next

\* A program that the front end accepts assembles and links if it keeps labels
\* and variables apart: its labels are all on one line each, and its jumps and
\* variables all have a line that declares them (core/compiler.c:173-250,
\* emitter-x86.c:435-530).
THEOREM AcceptedProgramsAssemble == Spec => []AcceptedAssembles
<1>1. Init => LinkInv
  BY InitLinkInv
<1>2. FrontInv /\ MachineInv /\ LinkInv /\ [Next]_vars => LinkInv'
  BY StepLinkInv
<1>3. LinkInv => AcceptedAssembles
  BY DEF LinkInv, AcceptedAssembles
<1>. QED  BY <1>1, <1>2, <1>3, CInvAlways, PTL DEF Spec
=============================================================================
