----------------------------- MODULE ParserProofs -----------------------------
(***************************************************************************)
(* For every input: the parser keeps its types, what it builds is a tree,  *)
(* every token it has read is in the tree once and in order or was passed  *)
(* by recovery, and it only goes forward; without an error the tree is a   *)
(* derivation of the input, and errors are reported exactly where the      *)
(* input leaves the grammar.                                               *)
(*                                                                         *)
(* The inductive invariant PInv joins the first of these with the call     *)
(* stack: every frame is a frame of some function, on a grammar node of    *)
(* the tree.                                                               *)
(* RInv adds what recovery passes.  OInv adds that the frames are on the   *)
(* last branch of the tree, which is where nodes are added, so that the    *)
(* nodes are numbered as a traversal visits them; what stands next to a    *)
(* token that a name should follow; and which statement around a name is   *)
(* the innermost.                                                          *)
(* ShapeInv says of each node which place of which rule it is at and which *)
(* piece of the input it stands for; ReadingInv says of the call stack     *)
(* which form of the grammar is left to read when each function returns.   *)
(***************************************************************************)
EXTENDS Grammar, GrammarProofs

Values == Nat \cup GRAMMAR_TYPE

Tokens(a) == {n \in Ids(a) : a[n].type = "TOKEN"}

\* The values of the nodes, for an input of N tokens.
ValuesOK(a, N) ==
  \A n \in Ids(a) :
    \/ a[n].type = "TOKEN" /\ a[n].value \in 1 .. N
    \/ a[n].type = "GRAMMAR" /\ a[n].value \in GRAMMAR_TYPE

\* ConsumedOnce of a tree, a position and the places skipped.
Consumed(a, pos, sk) ==
  /\ \A n \in Tokens(a) : a[n].value \in (1 .. pos - 1) \ sk
  /\ \A v \in (1 .. pos - 1) \ sk : \E n \in Tokens(a) : a[n].value = v
  /\ \A m, n \in Tokens(a) : m < n => a[m].value < a[n].value

TreeInv(a, pos, sk, N) ==
  /\ a \in Seq(NodesOver(Values))
  /\ Len(a) > 0
  /\ IsTree(a)
  /\ ValuesOK(a, N)
  /\ Consumed(a, pos, sk)

FrameSet ==
  [fn : GRAMMAR_TYPE \cup {"STAR", "BLOCK"}, node : Nat, at : Nat \ {0},
   kw : STATEMENT_START_KEYWORDS \cup {"none"}]

StackOK(st, a) ==
  /\ st \in Seq(FrameSet)
  /\ \A d \in 1 .. Len(st) : IsGrammar(a, st[d].node)

PInv ==
  /\ tokens \in Seq(TOKEN)
  /\ position \in 1 .. Len(tokens) + 1
  /\ TreeInv(ast, position, skipped, Len(tokens))
  /\ StackOK(stack, ast)
  /\ ret \in {"none", "true", "false"}
  /\ errors \in Seq({FILE_START} \cup 1 .. Len(tokens))
  /\ skipped \subseteq 1 .. position - 1

-----------------------------------------------------------------------------
(***************************************************************************)
(* The tree grows by one node.                                             *)
(***************************************************************************)
LEMMA FreshNodes ==
  /\ \A t \in Nat : TokenNode(t) \in NodesOver(Values) /\ Fresh(TokenNode(t))
                    /\ TokenNode(t).type = "TOKEN" /\ TokenNode(t).value = t
  /\ \A g \in GRAMMAR_TYPE :
       GrammarNode(g) \in NodesOver(Values) /\ Fresh(GrammarNode(g))
       /\ GrammarNode(g).type = "GRAMMAR" /\ GrammarNode(g).value = g
BY DEF TokenNode, GrammarNode, NodesOver, Values, Fresh, NO_NODE

\* The token at the position becomes a node, and the position goes past it.
LEMMA GrowToken ==
  ASSUME NEW a, NEW N \in Nat, NEW pos \in 1 .. N, NEW sk, sk \subseteq 1 .. pos - 1,
         TreeInv(a, pos, sk, N), NEW p, IsGrammar(a, p)
  PROVE  /\ TreeInv(AddToken(a, p, pos), pos + 1, sk, N)
         /\ Extends(AddToken(a, p, pos), a)
<1>. DEFINE node == TokenNode(pos)
            b == AddChild(a, p, node)
            n == Len(a) + 1
<1>1. node \in NodesOver(Values) /\ Fresh(node) /\ node.type = "TOKEN" /\ node.value = pos
  BY FreshNodes
<1>. HIDE DEF node
<1>2. b \in Seq(NodesOver(Values)) /\ Len(b) = n /\ b[n] = node /\ IsTree(b) /\ Extends(b, a)
  BY <1>1, AddChildTree DEF TreeInv
<1>. HIDE DEF b
<1>3. /\ Len(a) \in Nat
      /\ Ids(b) = Ids(a) \cup {n}
      /\ n \notin Ids(a)
      /\ \A i \in Ids(a) : i < n
  BY <1>2 DEF TreeInv, Ids
<1>4. \A i \in Ids(a) : b[i].type = a[i].type /\ b[i].value = a[i].value
  BY <1>2 DEF Extends
<1>5. ValuesOK(b, N)
  BY <1>1, <1>2, <1>3, <1>4 DEF ValuesOK, TreeInv
<1>6. Tokens(b) = Tokens(a) \cup {n}
  BY <1>1, <1>2, <1>3, <1>4 DEF Tokens
<1>7. \A i \in Tokens(a) : i \in Ids(a) /\ a[i].value \in (1 .. pos - 1) \ sk
  BY DEF Tokens, TreeInv, Consumed
<1>8. Consumed(b, pos + 1, sk)
  <2>1. \A i \in Tokens(b) : b[i].value \in (1 .. pos + 1 - 1) \ sk
    BY <1>1, <1>2, <1>4, <1>6, <1>7
  <2>2. \A v \in (1 .. pos + 1 - 1) \ sk : \E i \in Tokens(b) : b[i].value = v
    <3>. SUFFICES ASSUME NEW v \in (1 .. pos + 1 - 1) \ sk
         PROVE  \E i \in Tokens(b) : b[i].value = v
      OBVIOUS
    <3>1. CASE v = pos
      BY <3>1, <1>1, <1>2, <1>6
    <3>2. CASE v # pos
      <4>1. v \in (1 .. pos - 1) \ sk
        BY <3>2
      <4>2. PICK i \in Tokens(a) : a[i].value = v
        BY <4>1 DEF TreeInv, Consumed
      <4>. QED  BY <4>2, <1>4, <1>6, <1>7
    <3>. QED  BY <3>1, <3>2
  <2>3. \A i, j \in Tokens(b) : i < j => b[i].value < b[j].value
    <3>. SUFFICES ASSUME NEW i \in Tokens(b), NEW j \in Tokens(b), i < j
         PROVE  b[i].value < b[j].value
      OBVIOUS
    <3>0. i # n
      <4>. SUFFICES ASSUME i = n PROVE FALSE
        OBVIOUS
      <4>1. j \in Ids(a) \/ j = n
        BY <1>6, <1>7
      <4>. QED  BY <4>1, <1>3 DEF Ids
    <3>1. CASE j = n
      <4>1. i \in Tokens(a) /\ b[i].value = a[i].value
        BY <3>0, <1>4, <1>6, <1>7
      <4>2. a[i].value < pos
        BY <4>1, <1>7
      <4>. QED  BY <3>1, <4>1, <4>2, <1>1, <1>2
    <3>2. CASE j # n
      <4>1. i \in Tokens(a) /\ j \in Tokens(a)
        BY <3>0, <3>2, <1>6
      <4>2. a[i].value < a[j].value
        BY <4>1 DEF TreeInv, Consumed
      <4>. QED  BY <4>1, <4>2, <1>4, <1>7
    <3>. QED  BY <3>1, <3>2
  <2>. QED  BY <2>1, <2>2, <2>3 DEF Consumed
<1>. QED  BY <1>2, <1>3, <1>5, <1>8 DEF TreeInv, AddToken, b, node

\* A grammar node is added, and no token is consumed.
LEMMA GrowGrammar ==
  ASSUME NEW a, NEW N \in Nat, NEW pos, NEW sk, TreeInv(a, pos, sk, N),
         NEW p, IsGrammar(a, p), NEW g \in GRAMMAR_TYPE
  PROVE  /\ TreeInv(AddGrammar(a, p, g), pos, sk, N)
         /\ Extends(AddGrammar(a, p, g), a)
         /\ IsGrammar(AddGrammar(a, p, g), Len(a) + 1)
<1>. DEFINE node == GrammarNode(g)
            b == AddChild(a, p, node)
            n == Len(a) + 1
<1>1. node \in NodesOver(Values) /\ Fresh(node) /\ node.type = "GRAMMAR" /\ node.value = g
  BY FreshNodes
<1>. HIDE DEF node
<1>2. b \in Seq(NodesOver(Values)) /\ Len(b) = n /\ b[n] = node /\ IsTree(b) /\ Extends(b, a)
  BY <1>1, AddChildTree DEF TreeInv
<1>. HIDE DEF b
<1>3. Len(a) \in Nat /\ n \in 1 .. Len(b) /\ Ids(b) = Ids(a) \cup {n} /\ n \notin Ids(a)
  BY <1>2 DEF TreeInv, Ids
<1>4. \A i \in Ids(a) : b[i].type = a[i].type /\ b[i].value = a[i].value
  BY <1>2 DEF Extends
<1>5. ValuesOK(b, N)
  BY <1>1, <1>2, <1>3, <1>4 DEF ValuesOK, TreeInv
<1>6. Tokens(b) = Tokens(a) /\ Tokens(a) \subseteq Ids(a)
  BY <1>1, <1>2, <1>3, <1>4 DEF Tokens
<1>7. Consumed(b, pos, sk)
  BY <1>4, <1>6 DEF TreeInv, Consumed
<1>8. IsGrammar(b, n)
  BY <1>1, <1>2, <1>3 DEF IsGrammar
<1>. QED  BY <1>2, <1>3, <1>5, <1>7, <1>8 DEF TreeInv, AddGrammar, b, node

\* Recovery goes past some tokens.
LEMMA SkipTokens ==
  ASSUME NEW a, NEW N, NEW pos \in Nat \ {0}, NEW q \in Nat, pos <= q, NEW sk,
         sk \subseteq 1 .. pos - 1, TreeInv(a, pos, sk, N)
  PROVE  TreeInv(a, q, sk \cup (pos .. q - 1), N)
<1>1. (1 .. q - 1) \ (sk \cup (pos .. q - 1)) = (1 .. pos - 1) \ sk
  OBVIOUS
<1>. QED  BY <1>1 DEF TreeInv, Consumed

LEMMA ExtendsReflexive == ASSUME NEW a, NEW V, a \in Seq(V) PROVE Extends(a, a)
BY DEF Extends

LEMMA ExtendsTransitive ==
  ASSUME NEW a, NEW b, NEW c, NEW V, a \in Seq(V), b \in Seq(V), c \in Seq(V),
         Extends(b, a), Extends(c, b)
  PROVE  Extends(c, a)
BY DEF Extends, Ids

\* Recovery stops at the first token that starts a statement, if any is left.
LEMMA RecoveredFirst ==
  ASSUME tokens \in Seq(TOKEN), position \in 1 .. Len(tokens) + 1
  PROVE  /\ Recovered \in position .. Len(tokens) + 1
         /\ \A p \in position .. Recovered - 1 : tokens[p] \notin STATEMENT_START_KEYWORDS
<1>. DEFINE starts == {q \in position .. Len(tokens) : tokens[q] \in STATEMENT_START_KEYWORDS}
            S == starts \cup {Len(tokens) + 1}
<1>1. Len(tokens) \in Nat /\ S \subseteq Nat /\ S # {} /\ S \subseteq position .. Len(tokens) + 1
  OBVIOUS
<1>2. \E q \in S : \A r \in S : q <= r
  <2>. HIDE DEF S
  <2>1. PICK q \in S : \A r \in S : ~ (<<r, q>> \in OpToRel(<, Nat))
    BY <1>1, NatLessThanWellFounded, WFMin
  <2>2. \A r \in S : ~ (r < q)
    BY <1>1, <2>1 DEF OpToRel
  <2>. QED  BY <1>1, <2>2
<1>3. Recovered \in S /\ \A r \in S : Recovered <= r
  BY <1>2 DEF Recovered
<1>4. \A p \in position .. Recovered - 1 : p \notin S /\ p \in position .. Len(tokens)
  BY <1>1, <1>3
<1>. QED  BY <1>1, <1>3, <1>4

-----------------------------------------------------------------------------
(***************************************************************************)
(* The call stack.                                                         *)
(***************************************************************************)
LEMMA FrameInSet ==
  ASSUME NEW fn \in GRAMMAR_TYPE \cup {"STAR", "BLOCK"}, NEW node \in Nat,
         NEW kw \in STATEMENT_START_KEYWORDS \cup {"none"}
  PROVE  Frame(fn, node, kw) \in FrameSet /\ Frame(fn, node, kw).node = node
BY DEF Frame, FrameSet

LEMMA TopFrame ==
  ASSUME StackOK(stack, ast), Running
  PROVE  /\ Len(stack) \in Nat \ {0}
         /\ Top \in FrameSet
         /\ IsGrammar(ast, Top.node)
BY DEF StackOK, Running, Top

LEMMA StackBelow ==
  ASSUME StackOK(stack, ast), Running
  PROVE  StackOK(Below, ast) /\ Len(Below) = Len(stack) - 1
<1>1. Len(stack) \in Nat \ {0} /\ stack \in Seq(FrameSet)
  BY TopFrame DEF StackOK
<1>2. /\ Below \in Seq(FrameSet) /\ Len(Below) = Len(stack) - 1
      /\ \A d \in 1 .. Len(stack) - 1 : Below[d] = stack[d]
  <2>. DEFINE m == Len(stack) - 1
  <2>1. m \in Nat /\ 1 \in Int /\ m \in Int /\ \A d \in 1 .. m : stack[d] \in FrameSet
    BY <1>1
  <2>. HIDE DEF m
  <2>2. /\ SubSeq(stack, 1, m) \in Seq(FrameSet)
        /\ Len(SubSeq(stack, 1, m)) = IF 1 <= m THEN m - 1 + 1 ELSE 0
        /\ \A d \in 1 .. m - 1 + 1 : SubSeq(stack, 1, m)[d] = stack[1 + d - 1]
    BY <2>1, SubSeqProperties
  <2>3. Len(SubSeq(stack, 1, m)) = m
    BY <2>1, <2>2
  <2>4. \A d \in 1 .. m : SubSeq(stack, 1, m)[d] = stack[d]
    BY <2>1, <2>2
  <2>. QED  BY <2>2, <2>3, <2>4 DEF Below, m
<1>. QED  BY <1>1, <1>2 DEF StackOK

LEMMA StackPush ==
  ASSUME NEW st, NEW a, StackOK(st, a), NEW f \in FrameSet, IsGrammar(a, f.node)
  PROVE  StackOK(Append(st, f), a)
<1>1. /\ st \in Seq(FrameSet) /\ Len(st) \in Nat
      /\ Append(st, f) \in Seq(FrameSet)
      /\ Len(Append(st, f)) = Len(st) + 1
      /\ Append(st, f)[Len(st) + 1] = f
      /\ \A d \in 1 .. Len(st) : Append(st, f)[d] = st[d]
  BY DEF StackOK
<1>. QED  BY <1>1 DEF StackOK

LEMMA StackGrow ==
  ASSUME NEW st, NEW a, StackOK(st, a), NEW b, Extends(b, a), Len(a) \in Nat, Len(b) \in Nat
  PROVE  StackOK(st, b)
BY DEF StackOK, Extends, IsGrammar, Ids

LEMMA StackResume ==
  ASSUME StackOK(stack, ast), Running, NEW place \in Nat \ {0}
  PROVE  StackOK(Resume(place), ast)
<1>. DEFINE f == [Top EXCEPT !.at = place]
<1>1. Top \in FrameSet /\ IsGrammar(ast, Top.node)
  BY TopFrame
<1>2. f \in FrameSet /\ f.node = Top.node
  BY <1>1 DEF FrameSet
<1>. HIDE DEF f
<1>. QED  BY <1>1, <1>2, StackBelow, StackPush DEF Resume, f

-----------------------------------------------------------------------------
(***************************************************************************)
(* The invariant holds, whatever the parser does next.                     *)
(***************************************************************************)
LEMMA TreeLen ==
  ASSUME NEW a, NEW pos, NEW sk, NEW N, TreeInv(a, pos, sk, N)
  PROVE  Len(a) \in Nat \ {0}
BY DEF TreeInv

LEMMA InitPInv == Init => PInv
<1>. SUFFICES ASSUME Init PROVE PInv
  OBVIOUS
<1>. DEFINE root == GrammarNode("PROGRAM")
<1>1. root \in NodesOver(Values) /\ Fresh(root) /\ root.type = "GRAMMAR" /\ root.value = "PROGRAM"
  BY FreshNodes DEF GRAMMAR_TYPE
<1>. HIDE DEF root
<1>2. ast = <<root>> /\ Len(ast) = 1 /\ ast[1] = root /\ Ids(ast) = {1}
  BY DEF Init, Start, root, Ids
<1>3. ast \in Seq(NodesOver(Values)) /\ IsTree(ast)
  BY <1>1, <1>2, RootTree
<1>4. ValuesOK(ast, Len(tokens))
  BY <1>1, <1>2 DEF ValuesOK, GRAMMAR_TYPE
<1>5. Tokens(ast) = {}
  BY <1>1, <1>2 DEF Tokens
<1>6. Consumed(ast, 1, {})
  BY <1>5 DEF Consumed
<1>7. TreeInv(ast, position, skipped, Len(tokens))
  BY <1>2, <1>3, <1>4, <1>6 DEF TreeInv, Init, Start
<1>8. StackOK(stack, ast)
  <2>. DEFINE f == Frame("STAR", Head_, "none")
  <2>1. f \in FrameSet /\ f.node = 1
    BY FrameInSet DEF Head_
  <2>2. IsGrammar(ast, 1)
    BY <1>1, <1>2 DEF IsGrammar
  <2>3. stack = <<f>>
    BY DEF Init, Start
  <2>. HIDE DEF f
  <2>. QED  BY <2>1, <2>2, <2>3 DEF StackOK
<1>9. tokens \in Seq(TOKEN)
  BY ParserAssumption DEF Init
<1>. QED  BY <1>7, <1>8, <1>9 DEF Init, Start, PInv

\* A step that leaves the input alone, and what it must show of the rest.
Keeps ==
  /\ position' \in 1 .. Len(tokens) + 1
  /\ position' >= position
  /\ TreeInv(ast', position', skipped', Len(tokens))
  /\ Extends(ast', ast)
  /\ StackOK(stack', ast')
  /\ ret' \in {"none", "true", "false"}
  /\ skipped \subseteq skipped'
  /\ skipped' \subseteq 1 .. position' - 1
  /\ tokens' = tokens

\* A step that adds the current token to the tree.
LEMMA TokenStep ==
  ASSUME PInv, Running, ~ Done
  PROVE  /\ position + 1 \in 1 .. Len(tokens) + 1
         /\ TreeInv(WithToken, position + 1, skipped, Len(tokens))
         /\ Extends(WithToken, ast)
         /\ IsGrammar(WithToken, Top.node)
         /\ \A place \in Nat \ {0} : StackOK(Resume(place), WithToken)
         /\ StackOK(Below, WithToken)
<1>1. IsGrammar(ast, Top.node)
  BY TopFrame DEF PInv
<1>2. position \in 1 .. Len(tokens) /\ Len(tokens) \in Nat
  BY DEF PInv, Done
<1>3. TreeInv(WithToken, position + 1, skipped, Len(tokens)) /\ Extends(WithToken, ast)
  BY <1>1, <1>2, GrowToken DEF PInv, WithToken
<1>4. Len(ast) \in Nat /\ Len(WithToken) \in Nat
  BY <1>3, TreeLen DEF PInv
<1>5. IsGrammar(WithToken, Top.node)
  BY <1>1, <1>3, <1>4 DEF Extends, IsGrammar, Ids
<1>6. \A place \in Nat \ {0} : StackOK(Resume(place), WithToken)
  BY <1>3, <1>4, StackResume, StackGrow DEF PInv
<1>7. StackOK(Below, WithToken)
  BY <1>3, <1>4, StackBelow, StackGrow DEF PInv
<1>. QED  BY <1>2, <1>3, <1>5, <1>6, <1>7

\* A call, with the tree as it is or with the token just added.
LEMMA CallKeeps ==
  ASSUME PInv, Running, NEW fn \in GRAMMAR_TYPE, NEW place \in Nat \ {0}, NEW tree, NEW pos,
         pos \in position .. Len(tokens) + 1,
         TreeInv(tree, pos, skipped, Len(tokens)), Extends(tree, ast),
         IsGrammar(tree, Top.node), StackOK(Resume(place), tree),
         Call(fn, place, tree, pos), UNCHANGED <<tokens, errors, skipped>>
  PROVE  Keeps
<1>1. Len(tokens) \in Nat /\ position \in Nat /\ skipped \subseteq 1 .. pos - 1
  BY DEF PInv
<1>2. CASE pos > Len(tokens)
  BY <1>1, <1>2 DEF Call, Keeps, PInv
<1>3. CASE ~ (pos > Len(tokens))
  <2>. DEFINE grown == AddGrammar(tree, Top.node, fn)
              f == Frame(fn, Len(tree) + 1, "none")
  <2>1. /\ position' = pos /\ ast' = grown
        /\ stack' = Append(Resume(place), f) /\ ret' = "none"
    BY <1>3 DEF Call
  <2>2. /\ TreeInv(grown, pos, skipped, Len(tokens))
        /\ Extends(grown, tree)
        /\ IsGrammar(grown, Len(tree) + 1)
    BY <1>1, GrowGrammar
  <2>. HIDE DEF grown
  <2>3. Len(ast) \in Nat /\ Len(tree) \in Nat /\ Len(grown) \in Nat
    BY <2>2, TreeLen DEF PInv
  <2>4. Extends(grown, ast)
    <3>1. ast \in Seq(NodesOver(Values)) /\ tree \in Seq(NodesOver(Values))
          /\ grown \in Seq(NodesOver(Values))
      BY <2>2 DEF PInv, TreeInv
    <3>. QED  BY <2>2, <3>1, ExtendsTransitive
  <2>5. f \in FrameSet /\ f.node = Len(tree) + 1
    BY <2>3, FrameInSet
  <2>. HIDE DEF f
  <2>6. StackOK(Resume(place), grown)
    BY <2>2, <2>3, StackGrow
  <2>7. StackOK(Append(Resume(place), f), grown)
    BY <2>2, <2>5, <2>6, StackPush
  <2>. QED  BY <1>1, <2>1, <2>2, <2>4, <2>7 DEF Keeps, PInv
<1>. QED  BY <1>2, <1>3

LEMMA CallPlain ==
  ASSUME PInv, Running, NEW fn \in GRAMMAR_TYPE, NEW place \in Nat \ {0},
         Call(fn, place, ast, position), UNCHANGED <<tokens, errors, skipped>>
  PROVE  Keeps
<1>1. Extends(ast, ast)
  BY ExtendsReflexive DEF PInv, TreeInv
<1>2. IsGrammar(ast, Top.node) /\ StackOK(Resume(place), ast)
  BY TopFrame, StackResume DEF PInv
<1>3. position \in position .. Len(tokens) + 1
  BY DEF PInv
<1>. QED  BY <1>1, <1>2, <1>3, CallKeeps DEF PInv

LEMMA CallAfterToken ==
  ASSUME PInv, Running, ~ Done, NEW fn \in GRAMMAR_TYPE, NEW place \in Nat \ {0},
         Call(fn, place, WithToken, position + 1), UNCHANGED <<tokens, errors, skipped>>
  PROVE  Keeps
<1>1. position + 1 \in position .. Len(tokens) + 1
  BY TokenStep DEF PInv
<1>. QED  BY <1>1, TokenStep, CallKeeps

\* A return, or another step that adds nothing.
LEMMA StackOnly ==
  ASSUME PInv, StackOK(stack', ast), ret' \in {"none", "true", "false"},
         UNCHANGED <<tokens, position, ast, skipped>>
  PROVE  Keeps
<1>1. Extends(ast, ast)
  BY ExtendsReflexive DEF PInv, TreeInv
<1>. QED  BY <1>1 DEF Keeps, PInv

LEMMA ReturnKeeps ==
  ASSUME PInv, Running, NEW result \in {"none", "true", "false"}, Return(result),
         UNCHANGED <<tokens, position, ast, skipped>>
  PROVE  Keeps
BY StackBelow, StackOnly DEF PInv, Return

LEMMA PrimaryKeeps == ASSUME PInv, ParsePrimary PROVE Keeps
<1>1. Running /\ UNCHANGED <<tokens, errors, skipped>>
  BY DEF ParsePrimary, At, In
<1>2. CASE Expect({"NUMBER", "IDENT"}) /\ ast' = WithToken /\ position' = position + 1
           /\ Return("true")
  <2>1. ~ Done
    BY <1>2 DEF Expect
  <2>. QED  BY <1>1, <1>2, <2>1, TokenStep DEF Keeps, Return, PInv
<1>3. CASE UNCHANGED <<ast, position>> /\ Return("false")
  BY <1>1, <1>3, ReturnKeeps
<1>. QED  BY <1>2, <1>3 DEF ParsePrimary

LEMMA UnaryKeeps == ASSUME PInv, ParseUnary PROVE Keeps
<1>1. Running /\ UNCHANGED <<tokens, errors, skipped>>
  BY DEF ParseUnary, At, In
<1>2. CASE Expect(SIGNS) /\ Call("PRIMARY", 2, WithToken, position + 1)
  BY <1>1, <1>2, CallAfterToken DEF Expect, GRAMMAR_TYPE
<1>3. CASE Call("PRIMARY", 2, ast, position)
  BY <1>1, <1>3, CallPlain DEF GRAMMAR_TYPE
<1>4. CASE Return(ret) /\ UNCHANGED <<position, ast>>
  BY <1>1, <1>4, ReturnKeeps DEF PInv
<1>. QED  BY <1>2, <1>3, <1>4 DEF ParseUnary

LEMMA ChainKeeps ==
  ASSUME PInv, NEW fn, NEW operand \in GRAMMAR_TYPE, NEW operators,
         ParseChain(fn, operand, operators)
  PROVE  Keeps
<1>1. Running /\ UNCHANGED <<tokens, errors, skipped>>
  BY DEF ParseChain, At, In
<1>2. CASE Expect(operators) /\ Call(operand, 2, WithToken, position + 1)
  BY <1>1, <1>2, CallAfterToken DEF Expect
<1>3. CASE Call(operand, 2, ast, position)
  BY <1>1, <1>3, CallPlain
<1>4. CASE Return(ret) /\ UNCHANGED <<position, ast>>
  BY <1>1, <1>4, ReturnKeeps DEF PInv
<1>. QED  BY <1>2, <1>3, <1>4 DEF ParseChain

LEMMA ComparisonKeeps == ASSUME PInv, ParseComparison PROVE Keeps
<1>1. Running /\ UNCHANGED <<tokens, errors, skipped>>
  BY DEF ParseComparison, At, In
<1>2. CASE Expect(COMPARISON_OPS) /\ Call("EXPRESSION", 3, WithToken, position + 1)
  BY <1>1, <1>2, CallAfterToken DEF Expect, GRAMMAR_TYPE
<1>3. CASE Call("EXPRESSION", 2, ast, position)
  BY <1>1, <1>3, CallPlain DEF GRAMMAR_TYPE
<1>4. CASE Return("false") /\ UNCHANGED <<position, ast>>
  BY <1>1, <1>4, ReturnKeeps
<1>5. CASE Return(ret) /\ UNCHANGED <<position, ast>>
  BY <1>1, <1>5, ReturnKeeps DEF PInv
<1>. QED  BY <1>2, <1>3, <1>4, <1>5 DEF ParseComparison

LEMMA StatementTokenKeeps == ASSUME PInv, StatementToken PROVE Keeps
<1>1. Running /\ ~ Done /\ Top.at + 1 \in Nat \ {0}
  BY TopFrame DEF StatementToken, InForm, In, Expect, PInv, FrameSet
<1>. QED  BY <1>1, TokenStep DEF StatementToken, Keeps, PInv

LEMMA StatementCallKeeps == ASSUME PInv, StatementCall PROVE Keeps
<1>1. Running /\ Top.at \in Nat \ {0} /\ Item.call \in GRAMMAR_TYPE
  BY TopFrame DEF StatementCall, InForm, In, PInv, FrameSet, GRAMMAR_TYPE
<1>. QED  BY <1>1, CallPlain DEF StatementCall

LEMMA StatementBlockKeeps == ASSUME PInv, StatementBlock PROVE Keeps
<1>. DEFINE f == Frame("BLOCK", Top.node, "none")
<1>1. Running /\ IsGrammar(ast, Top.node) /\ Top.node \in Nat
  BY TopFrame DEF StatementBlock, InForm, In, PInv, FrameSet
<1>2. f \in FrameSet /\ f.node = Top.node
  BY <1>1, FrameInSet
<1>3. stack' = Append(stack, f)
  BY DEF StatementBlock
<1>. HIDE DEF f
<1>4. StackOK(stack', ast)
  BY <1>1, <1>2, <1>3, StackPush DEF PInv
<1>. QED  BY <1>4, StackOnly DEF StatementBlock, PInv

LEMMA StatementOtherKeeps ==
  ASSUME PInv, StatementResume \/ StatementFail \/ StatementEnd
  PROVE  Keeps
<1>1. CASE StatementResume
  <2>1. Running /\ Top.at + 1 \in Nat \ {0}
    BY <1>1, TopFrame DEF StatementResume, InForm, In, PInv, FrameSet
  <2>2. StackOK(stack', ast)
    BY <1>1, <2>1, StackResume DEF StatementResume, PInv
  <2>. QED  BY <1>1, <2>2, StackOnly DEF StatementResume
<1>2. CASE StatementFail
  BY <1>2, ReturnKeeps DEF StatementFail, InForm, In
<1>3. CASE StatementEnd
  BY <1>3, ReturnKeeps DEF StatementEnd, In
<1>. QED  BY <1>1, <1>2, <1>3

LEMMA RecoverKeeps ==
  ASSUME PInv, Recover, ret' = "none", UNCHANGED <<tokens, ast, stack>>
  PROVE  Keeps
<1>1. Recovered \in position .. Len(tokens) + 1
  BY RecoveredFirst DEF PInv
<1>2. position \in Nat \ {0} /\ Recovered \in Nat /\ position <= Recovered /\ Len(tokens) \in Nat
  BY <1>1 DEF PInv
<1>3. TreeInv(ast, Recovered, skipped \cup (position .. Recovered - 1), Len(tokens))
  BY <1>2, SkipTokens DEF PInv
<1>4. Extends(ast, ast)
  BY ExtendsReflexive DEF PInv, TreeInv
<1>5. skipped \cup (position .. Recovered - 1) \subseteq 1 .. Recovered - 1
  BY <1>2 DEF PInv
<1>. QED  BY <1>1, <1>2, <1>3, <1>4, <1>5 DEF Keeps, Recover, PInv

LEMMA StarStatementKeeps == ASSUME PInv, StarStatement PROVE Keeps
<1>. DEFINE grown == AddGrammar(ast, Top.node, "STATEMENT")
            f == Frame("STATEMENT", Len(ast) + 1, tokens[position])
<1>1. Running /\ IsGrammar(ast, Top.node)
  BY TopFrame DEF StarStatement, AtLoop, InLoop, In, PInv
<1>2. tokens[position] \in STATEMENT_START_KEYWORDS
  BY DEF StarStatement, Expect
<1>3. /\ TreeInv(grown, position, skipped, Len(tokens))
      /\ Extends(grown, ast)
      /\ IsGrammar(grown, Len(ast) + 1)
  BY <1>1, GrowGrammar DEF PInv, GRAMMAR_TYPE
<1>. HIDE DEF grown
<1>4. Len(ast) \in Nat /\ Len(grown) \in Nat
  BY <1>3, TreeLen DEF PInv
<1>5. f \in FrameSet /\ f.node = Len(ast) + 1
  BY <1>2, <1>4, FrameInSet DEF GRAMMAR_TYPE
<1>. HIDE DEF f
<1>6. StackOK(Append(stack, f), grown)
  BY <1>3, <1>4, <1>5, StackGrow, StackPush DEF PInv
<1>7. ast' = grown /\ stack' = Append(stack, f)
  BY DEF StarStatement, grown, f
<1>. QED  BY <1>3, <1>6, <1>7 DEF StarStatement, Keeps, PInv

LEMMA StarKeeps ==
  ASSUME PInv, StarReturn \/ StarUnknown \/ StarStatement \/ StarRecover
  PROVE  Keeps
<1>1. CASE StarReturn
  BY <1>1, ReturnKeeps DEF StarReturn, AtLoop, InLoop, In
<1>2. CASE StarUnknown
  BY <1>2, RecoverKeeps DEF StarUnknown
<1>3. CASE StarRecover
  BY <1>3, RecoverKeeps DEF StarRecover
<1>. QED  BY <1>1, <1>2, <1>3, StarStatementKeeps

LEMMA NextKeeps == ASSUME PInv, Next, ~ Finished PROVE Keeps
BY PrimaryKeeps, UnaryKeeps, ChainKeeps, ComparisonKeeps, StatementTokenKeeps,
   StatementCallKeeps, StatementBlockKeeps, StatementOtherKeeps, StarKeeps
   DEF Next, ParseTerm, ParseExpression, GRAMMAR_TYPE

\* Errors are only added, and name a place of the input.
ErrorsGrow ==
  /\ errors' \in Seq({FILE_START} \cup 1 .. Len(tokens))
  /\ \A e \in 1 .. Len(errors) : e <= Len(errors') /\ errors'[e] = errors[e]

LEMMA NextErrors == ASSUME PInv, Next PROVE ErrorsGrow
<1>1. Here \in {FILE_START} \cup 1 .. Len(tokens)
  BY DEF PInv, Here, Done
<1>2. CASE errors' = Append(errors, Here)
  BY <1>1, <1>2 DEF ErrorsGrow, PInv
<1>3. CASE errors' = errors
  BY <1>3 DEF ErrorsGrow, PInv
<1>4. errors' = errors \/ errors' = Append(errors, Here)
  BY DEF Next, ParsePrimary, ParseUnary, ParseTerm, ParseExpression, ParseChain,
         ParseComparison, StatementToken, StatementCall, StatementBlock, StatementResume,
         StatementFail, StatementEnd, StarReturn, StarUnknown, StarStatement, StarRecover,
         Finished, vars
<1>. QED  BY <1>2, <1>3, <1>4

LEMMA StepPInv == PInv /\ [Next]_vars => PInv'
<1>. SUFFICES ASSUME PInv, [Next]_vars PROVE PInv'
  OBVIOUS
<1>1. CASE Next /\ ~ Finished
  BY <1>1, NextKeeps, NextErrors DEF Keeps, ErrorsGrow, PInv
<1>2. CASE UNCHANGED vars
  <2>1. /\ tokens' = tokens /\ position' = position /\ ast' = ast /\ stack' = stack
        /\ ret' = ret /\ errors' = errors /\ skipped' = skipped
    BY <1>2 DEF vars
  <2>. QED  BY <2>1 DEF PInv
<1>. QED  BY <1>1, <1>2 DEF Finished

LEMMA AlwaysPInv == Spec => []PInv
BY InitPInv, StepPInv, PTL DEF Spec

-----------------------------------------------------------------------------
\* The position stays within one past the input, and every function that is
\* running adds to a grammar node of the tree.
THEOREM ParserTypeCorrect == Spec => []TypeOK
<1>1. PInv => TypeOK
  <2>. SUFFICES ASSUME PInv PROVE TypeOK
    OBVIOUS
  <2>1. \A n \in Ids(ast) : NodeOK(ast[n])
    <3>. SUFFICES ASSUME NEW n \in Ids(ast) PROVE NodeOK(ast[n])
      OBVIOUS
    <3>1. Len(ast) \in Nat /\ n \in 1 .. Len(ast)
      BY TreeLen DEF PInv, Ids
    <3>2. {ast[n].first_child, ast[n].last_child, ast[n].next_sibling} \subseteq 0 .. Len(ast)
      BY <3>1 DEF PInv, TreeInv, IsTree, LinksForward, NO_NODE
    <3>. QED  BY <3>2 DEF PInv, TreeInv, ValuesOK, NodeOK
  <2>. QED  BY <2>1 DEF PInv, StackOK, TypeOK
<1>. QED  BY <1>1, AlwaysPInv, PTL

\* What the parser builds is a tree, at every moment of any input.
THEOREM ParserTreeSafety == Spec => []TreeWellFormed
<1>1. PInv => TreeWellFormed
  BY DEF PInv, TreeInv, TreeWellFormed
<1>. QED  BY <1>1, AlwaysPInv, PTL

\* Every token before the position is in the tree once, in order, or was
\* passed by recovery, and never both.
THEOREM EveryTokenOnce == Spec => []ConsumedOnce
<1>1. PInv => ConsumedOnce
  BY DEF PInv, TreeInv, Consumed, Tokens, TokenNodes, ConsumedOnce
<1>. QED  BY <1>1, AlwaysPInv, PTL

\* The parser never reads a token again, changes what it has built or
\* withdraws an error.
THEOREM ForwardOnly == Spec => OnlyForward
<1>. DEFINE Forward ==
       /\ position' >= position
       /\ Extends(ast', ast)
       /\ skipped \subseteq skipped'
       /\ \A e \in 1 .. Len(errors) : e <= Len(errors') /\ errors'[e] = errors[e]
<1>1. PInv /\ [Next]_vars => [Forward]_vars
  <2>. SUFFICES ASSUME PInv, Next, ~ UNCHANGED vars PROVE Forward
    BY DEF vars
  <2>. QED  BY NextKeeps, NextErrors DEF Keeps, ErrorsGrow, Finished
<1>. QED  BY <1>1, AlwaysPInv, PTL DEF Spec, OnlyForward

-----------------------------------------------------------------------------
(***************************************************************************)
(* Recovery, for every input: it passes no token that starts a statement,  *)
(* every STATEMENT node begins with its keyword, and every run of passed   *)
(* tokens begins at a reported error.                                      *)
(*                                                                         *)
(* Three facts about the call stack make this inductive.  A part of an     *)
(* expression is never called by a statement loop (Nested), so a loop      *)
(* learns of a failure from a statement only, which has just reported the  *)
(* current token (Blamed).  And a STATEMENT node without its keyword is    *)
(* that of a statement just entered, whose next step takes the keyword     *)
(* (Entered).                                                              *)
(***************************************************************************)
LOOPS == {"STAR", "BLOCK"}

\* Only a loop or a statement is called by a loop.
Nested(st) ==
  \A d \in 2 .. Len(st) :
    st[d].fn \in LOOPS \cup {"STATEMENT"} \/ st[d - 1].fn \notin LOOPS

\* A loop that is told of a failure has the current token reported.
Blamed ==
  InLoop /\ ret = "false" => Done \/ \E e \in 1 .. Len(errors) : errors[e] = position

IsStatement(a, n) == a[n].type = "GRAMMAR" /\ a[n].value = "STATEMENT"

\* The node begins with the keyword of a statement.
Begun(a, n) ==
  /\ IsToken(a, n + 1)
  /\ a[n].first_child = n + 1
  /\ tokens[a[n + 1].value] \in STATEMENT_START_KEYWORDS

\* The statement of the node, the last one, is about to take its keyword.
Entered(n) ==
  /\ n = Len(ast)
  /\ InForm
  /\ Top.node = n /\ Top.at = 1 /\ Top.kw = tokens[position]
  /\ Expect(STATEMENT_START_KEYWORDS)
  /\ ret = "none"

StatementsInv ==
  \A n \in Ids(ast) : IsStatement(ast, n) => Begun(ast, n) \/ Entered(n)

SkipsInv ==
  /\ \A p \in skipped : tokens[p] \notin STATEMENT_START_KEYWORDS
  /\ SkipsReported

RInv == Nested(stack) /\ Blamed /\ StatementsInv /\ SkipsInv

-----------------------------------------------------------------------------
(***************************************************************************)
(* The call stack.                                                         *)
(***************************************************************************)
LEMMA NestedPush ==
  ASSUME NEW st \in Seq(FrameSet), Nested(st), NEW f \in FrameSet,
         f.fn \in LOOPS \cup {"STATEMENT"} \/ Len(st) = 0 \/ st[Len(st)].fn \notin LOOPS
  PROVE  Nested(Append(st, f))
<1>. DEFINE new == Append(st, f)
<1>1. /\ Len(st) \in Nat /\ Len(new) = Len(st) + 1 /\ new[Len(st) + 1] = f
      /\ \A d \in 1 .. Len(st) : new[d] = st[d]
  OBVIOUS
<1>. HIDE DEF new
<1>2. Nested(new)
  <2>. SUFFICES ASSUME NEW d \in 2 .. Len(new)
       PROVE  new[d].fn \in LOOPS \cup {"STATEMENT"} \/ new[d - 1].fn \notin LOOPS
    BY DEF Nested
  <2>1. CASE d = Len(new)
    BY <1>1, <2>1
  <2>2. CASE d # Len(new)
    <3>1. d \in 2 .. Len(st) /\ new[d] = st[d] /\ new[d - 1] = st[d - 1]
      BY <1>1, <2>2
    <3>. QED  BY <3>1 DEF Nested
  <2>. QED  BY <2>1, <2>2
<1>. QED  BY <1>2 DEF new

LEMMA BelowAt ==
  ASSUME PInv, Running
  PROVE  /\ Below \in Seq(FrameSet) /\ Len(stack) \in Nat \ {0}
         /\ Len(Below) = Len(stack) - 1
         /\ \A d \in 1 .. Len(stack) - 1 : Below[d] = stack[d]
<1>1. Below \in Seq(FrameSet) /\ Len(Below) = Len(stack) - 1 /\ Len(stack) \in Nat \ {0}
  BY StackBelow, TopFrame DEF PInv, StackOK
<1>. DEFINE m == Len(stack) - 1
<1>2. m \in Nat /\ 1 \in Int /\ m \in Int /\ \A d \in 1 .. m : stack[d] \in FrameSet
  BY <1>1 DEF PInv, StackOK
<1>. HIDE DEF m
<1>3. /\ Len(SubSeq(stack, 1, m)) = IF 1 <= m THEN m - 1 + 1 ELSE 0
      /\ \A d \in 1 .. m - 1 + 1 : SubSeq(stack, 1, m)[d] = stack[1 + d - 1]
  BY <1>2, SubSeqProperties
<1>4. \A d \in 1 .. m : SubSeq(stack, 1, m)[d] = stack[d]
  BY <1>2, <1>3
<1>. QED  BY <1>1, <1>4 DEF Below, m

\* What a running function returns to: for a part of an expression, never a
\* loop.
LEMMA NestedBelow ==
  ASSUME PInv, Running, Nested(stack)
  PROVE  /\ Nested(Below)
         /\ \/ Top.fn \in LOOPS \cup {"STATEMENT"}
            \/ Len(Below) = 0
            \/ Below[Len(Below)].fn \notin LOOPS
<1>1. Nested(Below)
  BY BelowAt DEF Nested
<1>2. CASE Len(stack) = 1
  BY <1>1, <1>2, BelowAt
<1>3. CASE Len(stack) # 1
  <2>1. Len(stack) \in 2 .. Len(stack) /\ Below[Len(Below)] = stack[Len(stack) - 1]
    BY <1>3, BelowAt
  <2>. QED  BY <1>1, <2>1 DEF Nested, Top
<1>. QED  BY <1>2, <1>3

LEMMA NestedResume ==
  ASSUME PInv, Running, Nested(stack), NEW place \in Nat \ {0}
  PROVE  /\ Nested(Resume(place)) /\ Resume(place) \in Seq(FrameSet)
         /\ Len(Resume(place)) = Len(stack)
         /\ Resume(place)[Len(stack)].fn = Top.fn
<1>. DEFINE f == [Top EXCEPT !.at = place]
<1>1. Top \in FrameSet
  BY TopFrame DEF PInv
<1>2. f \in FrameSet /\ f.fn = Top.fn
  BY <1>1 DEF FrameSet
<1>. HIDE DEF f
<1>3. Nested(Append(Below, f))
  BY <1>2, BelowAt, NestedBelow, NestedPush
<1>4. Append(Below, f) \in Seq(FrameSet) /\ Len(Append(Below, f)) = Len(stack)
      /\ Append(Below, f)[Len(stack)] = f
  BY <1>2, BelowAt
<1>. QED  BY <1>2, <1>3, <1>4 DEF Resume, f

-----------------------------------------------------------------------------
(***************************************************************************)
(* The calls and returns: who is told of a failure.                        *)
(***************************************************************************)
StackKept == Nested(stack') /\ Blamed'

LEMMA ReturnBlamed ==
  ASSUME PInv, Running, Nested(stack), NEW result, Return(result),
         \/ Top.fn \notin LOOPS \cup {"STATEMENT"}
         \/ result # "false"
         \/ /\ UNCHANGED <<tokens, position>>
            /\ Done \/ \E e \in 1 .. Len(errors') : errors'[e] = position
  PROVE  StackKept
<1>1. stack' = Below /\ ret' = result
  BY DEF Return
<1>2. Nested(stack')
  BY <1>1, NestedBelow
<1>3. CASE Top.fn \notin LOOPS \cup {"STATEMENT"}
  <2>1. Len(Below) = 0 \/ Below[Len(Below)].fn \notin LOOPS
    BY <1>3, NestedBelow
  <2>2. ~ InLoop'
    <3>1. CASE Len(Below) = 0
      BY <1>1, <3>1, BelowAt DEF InLoop, In, Running
    <3>2. CASE Below[Len(Below)].fn \notin LOOPS
      BY <1>1, <3>2 DEF InLoop, In, Top, LOOPS
    <3>. QED  BY <2>1, <3>1, <3>2
  <2>. QED  BY <1>2, <2>2 DEF StackKept, Blamed
<1>4. CASE result # "false"
  BY <1>1, <1>2, <1>4 DEF StackKept, Blamed
<1>5. CASE /\ UNCHANGED <<tokens, position>>
           /\ Done \/ \E e \in 1 .. Len(errors') : errors'[e] = position
  BY <1>2, <1>5 DEF StackKept, Blamed, Done
<1>. QED  BY <1>3, <1>4, <1>5

LEMMA CallBlamed ==
  ASSUME PInv, Running, Nested(stack), Top.fn \notin LOOPS,
         NEW fn \in GRAMMAR_TYPE, NEW place \in Nat \ {0}, NEW tree, NEW pos,
         Len(tree) \in Nat, Call(fn, place, tree, pos)
  PROVE  StackKept
<1>. DEFINE up == Resume(place)
            f == Frame(fn, Len(tree) + 1, "none")
<1>1. Nested(up) /\ up \in Seq(FrameSet) /\ Len(up) = Len(stack) /\ Len(stack) \in Nat \ {0}
      /\ up[Len(up)].fn \notin LOOPS
  BY NestedResume, BelowAt
<1>. HIDE DEF up
<1>2. CASE stack' = up
  <2>1. ~ InLoop'
    BY <1>1, <1>2 DEF InLoop, In, Top, LOOPS
  <2>. QED  BY <1>1, <1>2, <2>1 DEF StackKept, Blamed
<1>3. CASE stack' = Append(up, f) /\ ret' = "none"
  <2>1. f \in FrameSet
    BY FrameInSet
  <2>. HIDE DEF f
  <2>2. Nested(Append(up, f))
    BY <1>1, <2>1, NestedPush
  <2>. QED  BY <1>3, <2>2 DEF StackKept, Blamed
<1>. QED  BY <1>2, <1>3 DEF Call, up, f

LEMMA PushBlamed ==
  ASSUME PInv, Nested(stack), NEW fn \in {"BLOCK", "STATEMENT"}, NEW node \in Nat,
         NEW kw \in STATEMENT_START_KEYWORDS \cup {"none"},
         stack' = Append(stack, Frame(fn, node, kw)), ret' = "none"
  PROVE  StackKept
<1>. DEFINE f == Frame(fn, node, kw)
<1>1. f \in FrameSet /\ f.fn = fn
  BY FrameInSet DEF Frame, GRAMMAR_TYPE
<1>. HIDE DEF f
<1>2. Nested(Append(stack, f))
  BY <1>1, NestedPush DEF PInv, StackOK, LOOPS
<1>. QED  BY <1>2 DEF StackKept, Blamed, f

LEMMA ResumeKept ==
  ASSUME PInv, Running, Nested(stack), NEW place \in Nat \ {0}, stack' = Resume(place),
         Top.fn \notin LOOPS
  PROVE  StackKept
<1>1. Nested(stack') /\ Len(stack') = Len(stack) /\ stack'[Len(stack')].fn \notin LOOPS
  BY NestedResume
<1>. QED  BY <1>1 DEF StackKept, Blamed, InLoop, In, Top, LOOPS

LEMMA WithTokenLen ==
  ASSUME PInv, Running, ~ Done
  PROVE  Len(WithToken) \in Nat
BY TokenStep, TreeLen

LEMMA ExpressionKept ==
  ASSUME PInv, Nested(stack),
         ParsePrimary \/ ParseUnary \/ ParseTerm \/ ParseExpression \/ ParseComparison
  PROVE  StackKept
<1>1. Len(ast) \in Nat
  BY TreeLen DEF PInv
<1>2. CASE ParsePrimary
  <2>1. Running /\ Top.fn = "PRIMARY"
    BY <1>2 DEF ParsePrimary, At, In
  <2>2. Return("true") \/ Return("false")
    BY <1>2 DEF ParsePrimary
  <2>. QED  BY <2>1, <2>2, ReturnBlamed DEF LOOPS
<1>3. CASE ParseUnary
  <2>1. Running /\ Top.fn = "UNARY"
    BY <1>3 DEF ParseUnary, At, In
  <2>2. CASE Expect(SIGNS) /\ Call("PRIMARY", 2, WithToken, position + 1)
    BY <2>1, <2>2, WithTokenLen, CallBlamed DEF Expect, LOOPS, GRAMMAR_TYPE
  <2>3. CASE Call("PRIMARY", 2, ast, position)
    BY <1>1, <2>1, <2>3, CallBlamed DEF LOOPS, GRAMMAR_TYPE
  <2>4. CASE Return(ret)
    BY <2>1, <2>4, ReturnBlamed DEF LOOPS
  <2>. QED  BY <1>3, <2>2, <2>3, <2>4 DEF ParseUnary
<1>4. ASSUME NEW fn \in {"TERM", "EXPRESSION"}, NEW operand \in GRAMMAR_TYPE, NEW operators,
             ParseChain(fn, operand, operators)
      PROVE  StackKept
  <2>1. Running /\ Top.fn = fn
    BY <1>4 DEF ParseChain, At, In
  <2>2. CASE Expect(operators) /\ Call(operand, 2, WithToken, position + 1)
    BY <2>1, <2>2, WithTokenLen, CallBlamed DEF Expect, LOOPS
  <2>3. CASE Call(operand, 2, ast, position)
    BY <1>1, <2>1, <2>3, CallBlamed DEF LOOPS
  <2>4. CASE Return(ret)
    BY <2>1, <2>4, ReturnBlamed DEF LOOPS
  <2>. QED  BY <1>4, <2>2, <2>3, <2>4 DEF ParseChain
<1>5. CASE ParseComparison
  <2>1. Running /\ Top.fn = "COMPARISON"
    BY <1>5 DEF ParseComparison, At, In
  <2>2. CASE Expect(COMPARISON_OPS) /\ Call("EXPRESSION", 3, WithToken, position + 1)
    BY <2>1, <2>2, WithTokenLen, CallBlamed DEF Expect, LOOPS, GRAMMAR_TYPE
  <2>3. CASE Call("EXPRESSION", 2, ast, position)
    BY <1>1, <2>1, <2>3, CallBlamed DEF LOOPS, GRAMMAR_TYPE
  <2>4. CASE Return("false") \/ Return(ret)
    BY <2>1, <2>4, ReturnBlamed DEF LOOPS
  <2>. QED  BY <1>5, <2>2, <2>3, <2>4 DEF ParseComparison
<1>. QED  BY <1>2, <1>3, <1>4, <1>5 DEF ParseTerm, ParseExpression, GRAMMAR_TYPE

\* The failure of a statement is reported at the current token.
LEMMA FailKept ==
  ASSUME PInv, Nested(stack), StatementFail
  PROVE  StackKept
<1>1. Running /\ Return("false") /\ UNCHANGED <<tokens, position>>
      /\ errors' = Append(errors, Here)
  BY DEF StatementFail, InForm, In
<1>2. Len(errors') = Len(errors) + 1 /\ Len(errors) \in Nat /\ errors'[Len(errors) + 1] = Here
  BY <1>1 DEF PInv
<1>3. Done \/ \E e \in 1 .. Len(errors') : errors'[e] = position
  BY <1>2 DEF Here
<1>. QED  BY <1>1, <1>3, ReturnBlamed

LEMMA StatementKept ==
  ASSUME PInv, Nested(stack),
         \/ StatementToken \/ StatementCall \/ StatementBlock
         \/ StatementResume \/ StatementFail \/ StatementEnd
  PROVE  StackKept
<1>1. Len(ast) \in Nat /\ Running /\ Top.fn = "STATEMENT" /\ Top.at \in Nat \ {0} /\ Top.node \in Nat
  <2>1. Running /\ Top.fn = "STATEMENT"
    BY DEF StatementToken, StatementCall, StatementBlock, StatementResume, StatementFail,
           StatementEnd, InForm, In
  <2>. QED  BY <2>1, TopFrame, TreeLen DEF PInv, FrameSet
<1>2. CASE StatementToken \/ StatementResume
  <2>1. stack' = Resume(Top.at + 1) /\ Top.at + 1 \in Nat \ {0}
    BY <1>1, <1>2 DEF StatementToken, StatementResume
  <2>. QED  BY <1>1, <2>1, ResumeKept DEF LOOPS
<1>3. CASE StatementCall
  <2>1. Item.call \in GRAMMAR_TYPE /\ Call(Item.call, Top.at, ast, position)
    BY <1>3 DEF StatementCall, GRAMMAR_TYPE
  <2>. QED  BY <1>1, <2>1, CallBlamed DEF LOOPS
<1>4. CASE StatementBlock
  <2>1. ret' = "none"
    BY <1>4 DEF StatementBlock, PInv
  <2>. QED  BY <1>1, <1>4, <2>1, PushBlamed DEF StatementBlock
<1>5. CASE StatementEnd
  BY <1>1, <1>5, ReturnBlamed DEF StatementEnd
<1>. QED  BY <1>2, <1>3, <1>4, <1>5, FailKept

LEMMA StarKept ==
  ASSUME PInv, Nested(stack), StarReturn \/ StarUnknown \/ StarStatement \/ StarRecover
  PROVE  StackKept
<1>1. CASE StarReturn
  BY <1>1, ReturnBlamed DEF StarReturn, AtLoop, InLoop, In
<1>2. CASE StarUnknown \/ StarRecover
  BY <1>2 DEF StarUnknown, StarRecover, StackKept, Blamed
<1>3. CASE StarStatement
  <2>1. Len(ast) + 1 \in Nat /\ tokens[position] \in STATEMENT_START_KEYWORDS
    BY <1>3, TreeLen DEF StarStatement, Expect, PInv
  <2>. QED  BY <1>3, <2>1, PushBlamed DEF StarStatement
<1>. QED  BY <1>1, <1>2, <1>3

LEMMA NextKept == ASSUME PInv, Nested(stack), Next, ~ Finished PROVE StackKept
BY ExpressionKept, StatementKept, StarKept DEF Next

-----------------------------------------------------------------------------
(***************************************************************************)
(* What recovery passes.                                                   *)
(***************************************************************************)
\* Every action but the two that recover leaves alone what was passed.
LEMMA SkipsOnlyByLoop ==
  ASSUME Next, ~ StarUnknown, ~ StarRecover
  PROVE  skipped' = skipped
BY DEF Next, ParsePrimary, ParseUnary, ParseTerm, ParseExpression, ParseChain,
       ParseComparison, StatementToken, StatementCall, StatementBlock, StatementResume,
       StatementFail, StatementEnd, StarReturn, StarStatement, Finished, vars

LEMMA RecoverSkips ==
  ASSUME PInv, Blamed, SkipsInv, StarUnknown \/ StarRecover, ErrorsGrow
  PROVE  SkipsInv'
<1>1. /\ skipped' = skipped \cup (position .. Recovered - 1)
      /\ tokens' = tokens
      /\ position \in 1 .. Len(tokens) + 1 /\ Len(tokens) \in Nat
  BY DEF StarUnknown, StarRecover, Recover, PInv
<1>2. /\ Recovered \in position .. Len(tokens) + 1
      /\ \A p \in position .. Recovered - 1 : tokens[p] \notin STATEMENT_START_KEYWORDS
  BY RecoveredFirst DEF PInv
<1>3. Done \/ \E e \in 1 .. Len(errors') : errors'[e] = position
  <2>1. CASE StarUnknown
    <3>1. ~ Done /\ errors' = Append(errors, position)
      BY <2>1 DEF StarUnknown, Here
    <3>2. Len(errors') = Len(errors) + 1 /\ Len(errors) \in Nat
          /\ errors'[Len(errors) + 1] = position
      BY <1>1, <3>1 DEF PInv
    <3>. QED  BY <3>2
  <2>2. CASE StarRecover
    BY <2>2 DEF StarRecover, Blamed
  <2>. QED  BY <2>1, <2>2
<1>4. \A p \in skipped' : tokens'[p] \notin STATEMENT_START_KEYWORDS
  BY <1>1, <1>2 DEF SkipsInv
<1>5. \A p \in skipped' :
        p - 1 \in skipped' \/ \E e \in 1 .. Len(errors') : errors'[e] = p
  <2>. SUFFICES ASSUME NEW p \in skipped'
       PROVE  p - 1 \in skipped' \/ \E e \in 1 .. Len(errors') : errors'[e] = p
    OBVIOUS
  <2>1. CASE p \in skipped
    <3>1. CASE p - 1 \in skipped
      BY <1>1, <3>1
    <3>2. CASE \E e \in 1 .. Len(errors) : errors[e] = p
      <4>1. PICK e \in 1 .. Len(errors) : errors[e] = p
        BY <3>2
      <4>2. e \in 1 .. Len(errors') /\ errors'[e] = p
        BY <4>1 DEF ErrorsGrow
      <4>. QED  BY <4>2
    <3>. QED  BY <2>1, <3>1, <3>2 DEF SkipsInv, SkipsReported
  <2>2. CASE p \in position .. Recovered - 1
    <3>1. CASE p = position
      <4>1. ~ Done
        BY <1>1, <1>2, <2>2, <3>1 DEF Done
      <4>. QED  BY <1>3, <3>1, <4>1
    <3>2. CASE p # position
      BY <1>1, <1>2, <2>2, <3>2
    <3>. QED  BY <3>1, <3>2
  <2>. QED  BY <1>1, <2>1, <2>2
<1>. QED  BY <1>4, <1>5 DEF SkipsInv, SkipsReported

LEMMA NextSkips ==
  ASSUME PInv, Blamed, SkipsInv, Next, ErrorsGrow, tokens' = tokens
  PROVE  SkipsInv'
<1>1. CASE StarUnknown \/ StarRecover
  BY <1>1, RecoverSkips
<1>2. CASE ~ StarUnknown /\ ~ StarRecover
  <2>1. skipped' = skipped
    BY <1>2, SkipsOnlyByLoop
  <2>2. \A p \in skipped' : tokens'[p] \notin STATEMENT_START_KEYWORDS
    BY <2>1 DEF SkipsInv
  <2>3. \A p \in skipped' :
          p - 1 \in skipped' \/ \E e \in 1 .. Len(errors') : errors'[e] = p
    BY <2>1 DEF SkipsInv, SkipsReported, ErrorsGrow
  <2>. QED  BY <2>2, <2>3 DEF SkipsInv, SkipsReported
<1>. QED  BY <1>1, <1>2

-----------------------------------------------------------------------------
(***************************************************************************)
(* The STATEMENT nodes.                                                    *)
(***************************************************************************)
\* Every branch of _parse_statement starts with its own keyword.
LEMMA FormStarts ==
  ASSUME NEW kw \in STATEMENT_START_KEYWORDS
  PROVE  /\ Len(Form(kw)) >= 1
         /\ Form(kw)[1].expect = {kw}
         /\ Form(kw)[1].call = "none"
<1>1. CASE kw = "PRINT"
  <2>1. Form(kw) = <<Token({"PRINT"}), TokenOr({"STRING"}, "EXPRESSION")>>
    BY <1>1, Zenon DEF Form
  <2>. QED  BY <1>1, <2>1 DEF Token
<1>2. CASE kw = "IF"
  <2>1. Form(kw) = <<Token({"IF"}), Part("COMPARISON"), Token({"THEN"}),
                     Part("BLOCK"), Token({"ENDIF"})>>
    BY <1>2, Zenon DEF Form
  <2>. QED  BY <1>2, <2>1 DEF Token
<1>3. CASE kw = "WHILE"
  <2>1. Form(kw) = <<Token({"WHILE"}), Part("COMPARISON"), Token({"REPEAT"}),
                     Part("BLOCK"), Token({"ENDWHILE"})>>
    BY <1>3, Zenon DEF Form
  <2>. QED  BY <1>3, <2>1 DEF Token
<1>4. CASE kw = "LET"
  <2>1. Form(kw) = <<Token({"LET"}), Ident, Token({"EQ"}), Part("EXPRESSION")>>
    BY <1>4, Zenon DEF Form
  <2>. QED  BY <1>4, <2>1 DEF Token
<1>5. CASE kw \in {"LABEL", "GOTO", "INPUT"}
  <2>1. kw # "PRINT" /\ kw # "IF" /\ kw # "WHILE" /\ kw # "LET"
    BY <1>5
  <2>2. Form(kw) = <<Token({kw}), Ident>>
    BY <2>1, Zenon DEF Form
  <2>. QED  BY <2>2 DEF Token
<1>. QED  BY <1>1, <1>2, <1>3, <1>4, <1>5 DEF STATEMENT_START_KEYWORDS

\* A statement just entered takes its keyword next.
LEMMA EnteredTakes ==
  ASSUME PInv, NEW n, Entered(n), Next, ~ Finished
  PROVE  StatementToken
<1>1. /\ Running /\ Top.fn = "STATEMENT" /\ Top.at = 1 /\ ret = "none"
      /\ Top.kw \in STATEMENT_START_KEYWORDS
      /\ ~ Done /\ Top.kw = tokens[position]
  BY DEF Entered, InForm, In, Expect
<1>2. Item.expect = {Top.kw} /\ Item.call = "none" /\ 1 <= Len(Form(Top.kw))
  BY <1>1, FormStarts DEF Item
<1>3. Expect(Item.expect)
  BY <1>1, <1>2 DEF Expect
<1>4. ~ ParsePrimary /\ ~ ParseUnary /\ ~ ParseTerm /\ ~ ParseExpression /\ ~ ParseComparison
  BY <1>1 DEF ParsePrimary, ParseUnary, ParseTerm, ParseExpression, ParseChain,
              ParseComparison, At, In
<1>5. ~ StarReturn /\ ~ StarUnknown /\ ~ StarStatement /\ ~ StarRecover
  BY <1>1 DEF StarReturn, StarUnknown, StarStatement, StarRecover, AtLoop, InLoop, In
<1>6. ~ StatementCall /\ ~ StatementBlock /\ ~ StatementResume /\ ~ StatementFail
  BY <1>1, <1>2, <1>3 DEF StatementCall, StatementBlock, StatementResume, StatementFail
<1>7. ~ StatementEnd
  BY <1>1, <1>2 DEF StatementEnd
<1>. QED  BY <1>4, <1>5, <1>6, <1>7 DEF Next

LEMMA BegunStays ==
  ASSUME NEW a, NEW b, Len(a) \in Nat, Len(b) \in Nat, Extends(b, a),
         NEW n \in Ids(a), Begun(a, n)
  PROVE  Begun(b, n)
<1>1. n \in 1 .. Len(a) /\ n + 1 \in 1 .. Len(a) /\ n + 1 \in 1 .. Len(b)
      /\ b[n + 1].type = "TOKEN" /\ b[n + 1].value = a[n + 1].value
      /\ b[n].first_child = n + 1
  BY DEF Begun, IsToken, Ids, Extends, NO_NODE
<1>. QED  BY <1>1 DEF Begun, IsToken

\* The nodes that a step adds.
NewNodes == Ids(ast') \ Ids(ast)

\* No statement is entered but by the loop.
LEMMA StatementsStay ==
  ASSUME PInv, Keeps, StatementsInv, \A n \in Ids(ast) : ~ Entered(n),
         \A n \in NewNodes : ~ IsStatement(ast', n)
  PROVE  StatementsInv'
<1>1. Len(ast) \in Nat /\ Len(ast') \in Nat /\ Extends(ast', ast) /\ tokens' = tokens
  BY TreeLen DEF PInv, Keeps
<1>2. ASSUME NEW n \in Ids(ast'), IsStatement(ast', n)
      PROVE  Begun(ast', n)
  <2>1. n \in Ids(ast)
    BY <1>2 DEF NewNodes
  <2>2. IsStatement(ast, n)
    BY <1>1, <1>2, <2>1 DEF IsStatement, Extends
  <2>3. Begun(ast, n)
    BY <2>1, <2>2 DEF StatementsInv
  <2>. QED  BY <1>1, <2>1, <2>3, BegunStays
<1>3. ASSUME NEW n \in Ids(ast'), IsStatement(ast', n)
      PROVE  Begun(ast, n)'
  BY <1>1, <1>2, <1>3 DEF Begun, IsToken
<1>. QED  BY <1>3 DEF StatementsInv, IsStatement, Ids

\* The nodes at the end of a tree that has grown by one.
LEMMA AddedNode ==
  ASSUME NEW a \in Seq(NodesOver(Values)), IsTree(a), NEW p, IsGrammar(a, p),
         NEW node \in NodesOver(Values), NEW b, b = AddChild(a, p, node)
  PROVE  /\ Len(a) \in Nat /\ Len(b) = Len(a) + 1
         /\ b[Len(a) + 1] = node
         /\ p = Len(a) => b[p].first_child = Len(a) + 1
<1>. DEFINE last == a[p].last_child
<1>1. LinksForward(a) /\ Len(a) \in Nat
  BY DEF IsTree
<1>2. /\ Len(b) = Len(a) + 1
      /\ b[Len(a) + 1] = node
      /\ last \in {NO_NODE} \cup (p + 1 .. Len(a))
      /\ \A i \in 1 .. Len(a) :
           b[i].first_child =
             IF i = p /\ last = NO_NODE THEN Len(a) + 1 ELSE a[i].first_child
  <2>. HIDE DEF last
  <2>. QED  BY <1>1, AddChildAt DEF last
<1>. HIDE DEF last
<1>3. p \in 1 .. Len(a)
  BY DEF IsGrammar
<1>4. p = Len(a) => last = NO_NODE
  BY <1>1, <1>2, <1>3
<1>. QED  BY <1>1, <1>2, <1>3, <1>4

LEMMA TokenAdded ==
  ASSUME PInv, Running, ~ Done
  PROVE  /\ Len(ast) \in Nat /\ Len(WithToken) = Len(ast) + 1
         /\ WithToken[Len(ast) + 1].type = "TOKEN"
         /\ WithToken[Len(ast) + 1].value = position
         /\ Top.node = Len(ast) => WithToken[Len(ast)].first_child = Len(ast) + 1
<1>. DEFINE node == TokenNode(position)
<1>1. node \in NodesOver(Values) /\ node.type = "TOKEN" /\ node.value = position
  BY FreshNodes DEF PInv
<1>2. IsGrammar(ast, Top.node) /\ ast \in Seq(NodesOver(Values)) /\ IsTree(ast)
  BY TopFrame DEF PInv, TreeInv
<1>. HIDE DEF node
<1>3. WithToken = AddChild(ast, Top.node, node)
  BY DEF WithToken, AddToken, node
<1>. QED  BY <1>1, <1>2, <1>3, AddedNode

LEMMA GrammarAdded ==
  ASSUME NEW a, NEW pos, NEW sk, NEW N, TreeInv(a, pos, sk, N), NEW p, IsGrammar(a, p),
         NEW g \in GRAMMAR_TYPE
  PROVE  /\ Len(a) \in Nat /\ Len(AddGrammar(a, p, g)) = Len(a) + 1
         /\ AddGrammar(a, p, g)[Len(a) + 1].type = "GRAMMAR"
         /\ AddGrammar(a, p, g)[Len(a) + 1].value = g
<1>. DEFINE node == GrammarNode(g)
<1>1. node \in NodesOver(Values) /\ node.type = "GRAMMAR" /\ node.value = g
  BY FreshNodes
<1>. HIDE DEF node
<1>2. AddGrammar(a, p, g) = AddChild(a, p, node)
  BY DEF AddGrammar, node
<1>. QED  BY <1>1, <1>2, AddedNode DEF TreeInv

\* The nodes a call adds to a tree are none of a statement.
LEMMA CallAdds ==
  ASSUME PInv, Running, NEW fn \in GRAMMAR_TYPE \ {"STATEMENT"}, NEW place \in Nat \ {0},
         NEW tree, NEW pos, TreeInv(tree, pos, skipped, Len(tokens)),
         IsGrammar(tree, Top.node), Call(fn, place, tree, pos),
         \A n \in Ids(tree) \ Ids(ast) : ~ IsStatement(tree, n)
  PROVE  \A n \in NewNodes : ~ IsStatement(ast', n)
<1>1. Len(tree) \in Nat
  BY TreeLen
<1>2. CASE ast' = tree
  BY <1>2 DEF NewNodes
<1>3. CASE ast' = AddGrammar(tree, Top.node, fn)
  <2>1. /\ Len(ast') = Len(tree) + 1
        /\ ast'[Len(tree) + 1].value = fn
        /\ Extends(ast', tree)
    BY <1>3, GrammarAdded, GrowGrammar DEF PInv
  <2>2. ASSUME NEW n \in NewNodes PROVE ~ IsStatement(ast', n)
    <3>1. CASE n = Len(tree) + 1
      BY <2>1, <3>1 DEF IsStatement
    <3>2. CASE n # Len(tree) + 1
      <4>1. n \in Ids(tree) \ Ids(ast)
        BY <1>1, <2>1, <2>2, <3>2 DEF NewNodes, Ids
      <4>2. ast'[n].type = tree[n].type /\ ast'[n].value = tree[n].value
        BY <2>1, <4>1 DEF Extends
      <4>. QED  BY <4>1, <4>2 DEF IsStatement
    <3>. QED  BY <3>1, <3>2
  <2>. QED  BY <2>2
<1>. QED  BY <1>2, <1>3 DEF Call

NoStatementAdded == \A n \in NewNodes : ~ IsStatement(ast', n)

LEMMA CallPlainAdds ==
  ASSUME PInv, Running, NEW fn \in GRAMMAR_TYPE \ {"STATEMENT"}, NEW place \in Nat \ {0},
         Call(fn, place, ast, position)
  PROVE  NoStatementAdded
<1>1. IsGrammar(ast, Top.node) /\ TreeInv(ast, position, skipped, Len(tokens))
  BY TopFrame DEF PInv
<1>2. \A n \in Ids(ast) \ Ids(ast) : ~ IsStatement(ast, n)
  OBVIOUS
<1>. QED  BY <1>1, <1>2, CallAdds DEF NoStatementAdded

LEMMA TokenAddsNone ==
  ASSUME PInv, Running, ~ Done
  PROVE  \A n \in Ids(WithToken) \ Ids(ast) : ~ IsStatement(WithToken, n)
<1>1. \A n \in Ids(WithToken) \ Ids(ast) : n = Len(ast) + 1
  BY TokenAdded DEF Ids
<1>. QED  BY <1>1, TokenAdded DEF IsStatement

LEMMA CallAfterTokenAdds ==
  ASSUME PInv, Running, ~ Done, NEW fn \in GRAMMAR_TYPE \ {"STATEMENT"}, NEW place \in Nat \ {0},
         Call(fn, place, WithToken, position + 1)
  PROVE  NoStatementAdded
BY TokenStep, TokenAddsNone, CallAdds DEF NoStatementAdded

LEMMA ExpressionAdds ==
  ASSUME PInv, ParsePrimary \/ ParseUnary \/ ParseTerm \/ ParseExpression \/ ParseComparison
  PROVE  NoStatementAdded
<1>0. ast' = ast => NoStatementAdded
  BY DEF NoStatementAdded, NewNodes
<1>1. CASE ParsePrimary
  <2>1. CASE Expect({"NUMBER", "IDENT"}) /\ ast' = WithToken
    <3>1. Running /\ ~ Done
      BY <1>1, <2>1 DEF ParsePrimary, At, In, Expect
    <3>. QED  BY <2>1, <3>1, TokenAddsNone DEF NoStatementAdded, NewNodes
  <2>. QED  BY <1>0, <1>1, <2>1 DEF ParsePrimary
<1>2. CASE ParseUnary
  <2>1. Running
    BY <1>2 DEF ParseUnary, At, In
  <2>2. CASE Expect(SIGNS) /\ Call("PRIMARY", 2, WithToken, position + 1)
    BY <2>1, <2>2, CallAfterTokenAdds DEF Expect, GRAMMAR_TYPE
  <2>3. CASE Call("PRIMARY", 2, ast, position)
    BY <2>1, <2>3, CallPlainAdds DEF GRAMMAR_TYPE
  <2>. QED  BY <1>0, <1>2, <2>2, <2>3 DEF ParseUnary
<1>3. ASSUME NEW fn, NEW operand \in {"UNARY", "TERM"}, NEW operators,
             ParseChain(fn, operand, operators)
      PROVE  NoStatementAdded
  <2>1. Running /\ operand \in GRAMMAR_TYPE \ {"STATEMENT"}
    BY <1>3 DEF ParseChain, At, In, GRAMMAR_TYPE
  <2>2. CASE Expect(operators) /\ Call(operand, 2, WithToken, position + 1)
    BY <2>1, <2>2, CallAfterTokenAdds DEF Expect
  <2>3. CASE Call(operand, 2, ast, position)
    BY <2>1, <2>3, CallPlainAdds
  <2>. QED  BY <1>0, <1>3, <2>2, <2>3 DEF ParseChain
<1>4. CASE ParseComparison
  <2>1. Running
    BY <1>4 DEF ParseComparison, At, In
  <2>2. CASE Expect(COMPARISON_OPS) /\ Call("EXPRESSION", 3, WithToken, position + 1)
    BY <2>1, <2>2, CallAfterTokenAdds DEF Expect, GRAMMAR_TYPE
  <2>3. CASE Call("EXPRESSION", 2, ast, position)
    BY <2>1, <2>3, CallPlainAdds DEF GRAMMAR_TYPE
  <2>. QED  BY <1>0, <1>4, <2>2, <2>3 DEF ParseComparison
<1>. QED  BY <1>1, <1>2, <1>3, <1>4 DEF ParseTerm, ParseExpression

LEMMA OtherAdds ==
  ASSUME PInv,
         \/ StatementToken \/ StatementCall \/ StatementBlock
         \/ StatementResume \/ StatementFail \/ StatementEnd
         \/ StarReturn \/ StarUnknown \/ StarRecover
  PROVE  NoStatementAdded
<1>1. CASE StatementToken
  <2>1. Running /\ ~ Done /\ ast' = WithToken
    BY <1>1 DEF StatementToken, InForm, In, Expect
  <2>. QED  BY <2>1, TokenAddsNone DEF NoStatementAdded, NewNodes
<1>2. CASE StatementCall
  <2>1. Running /\ Top.at \in Nat \ {0}
    BY <1>2, TopFrame DEF StatementCall, InForm, In, PInv, FrameSet
  <2>2. Item.call \in GRAMMAR_TYPE \ {"STATEMENT"} /\ Call(Item.call, Top.at, ast, position)
    BY <1>2 DEF StatementCall, GRAMMAR_TYPE
  <2>. QED  BY <2>1, <2>2, CallPlainAdds
<1>3. CASE ast' = ast
  BY <1>3 DEF NoStatementAdded, NewNodes
<1>. QED
  BY <1>1, <1>2, <1>3 DEF StatementBlock, StatementResume, StatementFail, StatementEnd,
                          StarReturn, StarUnknown, StarRecover

\* The statement just entered gets its keyword.
LEMMA EnteredBegins ==
  ASSUME PInv, Keeps, StatementsInv, NEW n \in Ids(ast), Entered(n), StatementToken
  PROVE  StatementsInv'
<1>1. /\ Running /\ ~ Done /\ Top.node = n /\ n = Len(ast)
      /\ tokens[position] \in STATEMENT_START_KEYWORDS
      /\ ast' = WithToken /\ tokens' = tokens /\ Extends(ast', ast)
  BY DEF Entered, InForm, In, Expect, StatementToken, Keeps
<1>2. /\ Len(ast) \in Nat /\ Len(ast') = Len(ast) + 1
      /\ ast'[n + 1].type = "TOKEN" /\ ast'[n + 1].value = position
      /\ ast'[n].first_child = n + 1
  BY <1>1, TokenAdded
<1>3. Begun(ast', n)
  BY <1>1, <1>2 DEF Begun, IsToken, Ids
<1>4. ASSUME NEW m \in Ids(ast'), IsStatement(ast', m)
      PROVE  Begun(ast', m)
  <2>1. m \in Ids(ast)
    BY <1>1, <1>2, <1>4 DEF IsStatement, Ids
  <2>2. CASE m = n
    BY <1>3, <2>2
  <2>3. CASE m # n
    <3>1. IsStatement(ast, m) /\ ~ Entered(m)
      BY <1>1, <1>4, <2>1, <2>3 DEF IsStatement, Extends, Entered
    <3>2. Begun(ast, m)
      BY <2>1, <3>1 DEF StatementsInv
    <3>. QED  BY <1>1, <1>2, <2>1, <3>2, BegunStays
  <2>. QED  BY <2>2, <2>3
<1>5. ASSUME NEW m \in Ids(ast'), IsStatement(ast', m)
      PROVE  Begun(ast, m)'
  BY <1>1, <1>4, <1>5 DEF Begun, IsToken
<1>. QED  BY <1>5 DEF StatementsInv, IsStatement, Ids

\* The loop enters a statement at its keyword.
LEMMA StarEnters ==
  ASSUME PInv, Keeps, StatementsInv, \A n \in Ids(ast) : ~ Entered(n), StarStatement
  PROVE  StatementsInv'
<1>0. PICK last : last = Len(ast) + 1
  OBVIOUS
<1>. DEFINE f == Frame("STATEMENT", last, tokens[position])
<1>1. /\ Expect(STATEMENT_START_KEYWORDS) /\ InLoop
      /\ ast' = AddGrammar(ast, Top.node, "STATEMENT")
      /\ stack' = Append(stack, f) /\ ret' = "none"
      /\ tokens' = tokens /\ position' = position /\ Extends(ast', ast)
  BY <1>0 DEF StarStatement, AtLoop, Keeps
<1>2. tokens[position] \in STATEMENT_START_KEYWORDS /\ ~ Done
  BY <1>1 DEF Expect
<1>3. Len(ast) \in Nat /\ Len(ast') = last
  <2>1. IsGrammar(ast, Top.node)
    BY <1>1, TopFrame DEF InLoop, In, PInv
  <2>. QED  BY <1>0, <1>1, <2>1, GrammarAdded DEF PInv, GRAMMAR_TYPE
<1>4. f \in FrameSet /\ f.fn = "STATEMENT" /\ f.node = last /\ f.at = 1
      /\ f.kw = tokens[position]
  BY <1>0, <1>2, <1>3, FrameInSet DEF Frame, GRAMMAR_TYPE
<1>. HIDE DEF f
<1>5. stack' # <<>> /\ Top' = f
  <2>1. Len(stack) \in Nat /\ Len(stack') = Len(stack) + 1 /\ stack'[Len(stack) + 1] = f
    BY <1>1, <1>4 DEF PInv, StackOK
  <2>. QED  BY <2>1 DEF Top
<1>6. Entered(last)'
  <2>1. 1 <= Len(Form(tokens[position]))
    BY <1>2, FormStarts
  <2>2. InForm'
    BY <1>4, <1>5, <2>1 DEF InForm, In, Running
  <2>3. Expect(STATEMENT_START_KEYWORDS)'
    BY <1>1, <1>2 DEF Expect, Done
  <2>. QED  BY <1>1, <1>3, <1>4, <1>5, <2>2, <2>3 DEF Entered
<1>7. ASSUME NEW n \in Ids(ast'), IsStatement(ast', n), n # last
      PROVE  Begun(ast, n)'
  <2>1. n \in Ids(ast)
    BY <1>0, <1>3, <1>7 DEF Ids
  <2>2. IsStatement(ast, n)
    BY <1>1, <1>7, <2>1 DEF IsStatement, Extends
  <2>3. Begun(ast, n)
    BY <2>1, <2>2 DEF StatementsInv
  <2>4. Begun(ast', n)
    BY <1>0, <1>1, <1>3, <2>1, <2>3, BegunStays
  <2>. QED  BY <1>1, <2>4 DEF Begun, IsToken
<1>. QED  BY <1>3, <1>6, <1>7 DEF StatementsInv, IsStatement, Ids

LEMMA NextStatements ==
  ASSUME PInv, Keeps, StatementsInv, Next, ~ Finished
  PROVE  StatementsInv'
<1>1. CASE \E n \in Ids(ast) : Entered(n)
  <2>1. PICK n \in Ids(ast) : Entered(n)
    BY <1>1
  <2>. QED  BY <2>1, EnteredTakes, EnteredBegins
<1>2. CASE \A n \in Ids(ast) : ~ Entered(n)
  <2>1. CASE StarStatement
    BY <1>2, <2>1, StarEnters
  <2>2. CASE ~ StarStatement
    <3>1. NoStatementAdded
      BY <2>2, ExpressionAdds, OtherAdds DEF Next
    <3>. QED  BY <1>2, <3>1, StatementsStay DEF NoStatementAdded
  <2>. QED  BY <2>1, <2>2
<1>. QED  BY <1>1, <1>2

-----------------------------------------------------------------------------
LEMMA InitRInv == ASSUME Init PROVE RInv
<1>1. Len(stack) = 1 /\ ret = "none" /\ skipped = {}
  BY DEF Init, Start
<1>2. Len(ast) = 1 /\ ast[1] = GrammarNode("PROGRAM")
  BY DEF Init, Start
<1>3. StatementsInv
  BY <1>2 DEF StatementsInv, IsStatement, Ids, GrammarNode
<1>. QED  BY <1>1, <1>3 DEF RInv, Nested, Blamed, SkipsInv, SkipsReported

LEMMA StepRInv == PInv /\ RInv /\ [Next]_vars => RInv'
<1>. SUFFICES ASSUME PInv, RInv, [Next]_vars PROVE RInv'
  OBVIOUS
<1>1. CASE Next /\ ~ Finished
  <2>1. Keeps /\ ErrorsGrow
    BY <1>1, NextKeeps, NextErrors
  <2>2. StackKept
    BY <1>1, NextKept DEF RInv
  <2>3. SkipsInv'
    BY <1>1, <2>1, NextSkips DEF RInv, Keeps
  <2>4. StatementsInv'
    BY <1>1, <2>1, NextStatements DEF RInv
  <2>. QED  BY <2>2, <2>3, <2>4 DEF RInv, StackKept
<1>2. CASE UNCHANGED vars
  <2>1. /\ tokens' = tokens /\ position' = position /\ ast' = ast /\ stack' = stack
        /\ ret' = ret /\ errors' = errors /\ skipped' = skipped
    BY <1>2 DEF vars
  <2>2. Blamed'
    BY <2>1 DEF RInv, Blamed, InLoop, In, Running, Top, Done
  <2>3. SkipsInv'
    BY <2>1 DEF RInv, SkipsInv, SkipsReported
  <2>4. \A n : Entered(n)' = Entered(n)
    BY <2>1 DEF Entered, InForm, In, Running, Top, Expect, Done
  <2>5. StatementsInv'
    BY <2>1, <2>4 DEF RInv, StatementsInv, IsStatement, Begun, IsToken, Ids
  <2>6. Nested(stack')
    BY <2>1 DEF RInv
  <2>. QED  BY <2>2, <2>3, <2>5, <2>6 DEF RInv
<1>. QED  BY <1>1, <1>2 DEF Finished

LEMMA AlwaysRInv == Spec => []RInv
BY InitRInv, StepRInv, AlwaysPInv, PTL DEF Spec

\* Recovery passes no statement, every STATEMENT node but one just entered
\* begins with its keyword, and no token is passed without a report.
THEOREM RecoveryLosesNothing == Spec => []RecoveryAccounted
<1>1. RInv => RecoveryAccounted
  <2>. SUFFICES ASSUME RInv PROVE RecoveryAccounted
    OBVIOUS
  <2>1. StatementsKept
    BY DEF RInv, StatementsInv, SkipsInv, IsStatement, Begun, Entered, StatementsKept
  <2>. QED  BY <2>1 DEF RInv, SkipsInv, RecoveryAccounted
<1>. QED  BY <1>1, AlwaysRInv, PTL

-----------------------------------------------------------------------------
(***************************************************************************)
(* What the parser leaves to the passes after it, for every input.  The    *)
(* open nodes, to which the running functions add, are a path of last      *)
(* children from the root, so the nodes are numbered in the order of a     *)
(* depth-first traversal; and a token that a name should follow (LET,      *)
(* LABEL, GOTO, INPUT) has that name as its next sibling, or an error is   *)
(* reported and the token is the last child of its statement.              *)
(***************************************************************************)
NodesOf(st) == {st[d].node : d \in 1 .. Len(st)}

\* They are a path of last children from the root, each that of a function
\* and, again, of the loops it runs.
Spine(a, st) ==
  /\ \A d, e \in 1 .. Len(st) : d <= e => st[d].node <= st[e].node
  /\ \A d \in 2 .. Len(st) :
       st[d].node = IF st[d].fn = "BLOCK" THEN st[d - 1].node ELSE a[st[d - 1].node].last_child
  /\ st # <<>> => st[1].node = Head_ /\ OpenNodes(a, NodesOf(st), st[Len(st)].node)

\* The nodes are numbered as they are visited, and the last one is below every
\* open node.
NumberedOpen(a, st) ==
  \E end, par : Numbered(a, end, par) /\ \A x \in NodesOf(st) : end[x] = Len(a)

\* A token node that no sibling will follow.
Closed(a, st, n) == a[n].next_sibling = NO_NODE /\ \A x \in NodesOf(st) : a[x].last_child # n

\* What the invariants of a tree and a call stack need.
TreeAnd(a, st) == a \in Seq(NodesOver(Values)) /\ Len(a) > 0 /\ IsTree(a) /\ StackOK(st, a)

\* A stack of the same functions, on the same nodes.
SameFunctions(up, st) ==
  /\ up \in Seq(FrameSet) /\ Len(up) = Len(st)
  /\ \A d \in 1 .. Len(st) : up[d].node = st[d].node /\ up[d].fn = st[d].fn

LEMMA NodesSame ==
  ASSUME NEW st \in Seq(FrameSet), NEW up, SameFunctions(up, st)
  PROVE  NodesOf(up) = NodesOf(st)
BY DEF SameFunctions, NodesOf

LEMMA SpineSame ==
  ASSUME NEW a, NEW st \in Seq(FrameSet), NEW up, SameFunctions(up, st), Spine(a, st)
  PROVE  Spine(a, up)
<1>1. Len(up) = Len(st) /\ Len(st) \in Nat /\ up \in Seq(FrameSet)
      /\ \A d \in 1 .. Len(st) : up[d].node = st[d].node /\ up[d].fn = st[d].fn
  BY DEF SameFunctions
<1>2. \A d \in 2 .. Len(st) : d \in 1 .. Len(st) /\ d - 1 \in 1 .. Len(st)
  BY <1>1
<1>3. \A d \in 2 .. Len(up) :
        up[d].node = IF up[d].fn = "BLOCK" THEN up[d - 1].node ELSE a[up[d - 1].node].last_child
  BY <1>1, <1>2 DEF Spine
<1>4. up # <<>> => st # <<>> /\ 1 \in 1 .. Len(st) /\ Len(st) \in 1 .. Len(st)
  BY <1>1
<1>. QED  BY <1>1, <1>3, <1>4, NodesSame DEF Spine

\* A function returns.
LEMMA SpineDown ==
  ASSUME NEW a, NEW st, TreeAnd(a, st), Spine(a, st), NEW down \in Seq(FrameSet),
         Len(st) > 0, Len(down) = Len(st) - 1, \A d \in 1 .. Len(down) : down[d] = st[d]
  PROVE  Spine(a, down) /\ NodesOf(down) \subseteq NodesOf(st)
<1>0. PICK m : m = Len(st)
  OBVIOUS
<1>1. /\ st \in Seq(FrameSet) /\ m \in Nat \ {0} /\ Len(st) = m /\ Len(down) = m - 1 /\ st # <<>>
      /\ \A d \in 1 .. m - 1 : down[d] = st[d]
      /\ \A d \in 1 .. m : st[d].node \in 1 .. Len(a) /\ st[d].node \in Nat
      /\ Len(a) \in Nat
  BY <1>0 DEF TreeAnd, StackOK, IsGrammar, FrameSet
<1>2. NodesOf(down) \subseteq NodesOf(st)
  BY <1>1 DEF NodesOf
<1>3. /\ \A d, e \in 1 .. m : d <= e => st[d].node <= st[e].node
      /\ \A d \in 2 .. m :
           st[d].node = IF st[d].fn = "BLOCK" THEN st[d - 1].node ELSE a[st[d - 1].node].last_child
      /\ st[1].node = Head_ /\ OpenNodes(a, NodesOf(st), st[m].node)
  BY <1>1 DEF Spine
<1>4. /\ \A d, e \in 1 .. m - 1 : d <= e => down[d].node <= down[e].node
      /\ \A d \in 2 .. m - 1 :
           down[d].node = IF down[d].fn = "BLOCK" THEN down[d - 1].node ELSE a[down[d - 1].node].last_child
  BY <1>1, <1>3
<1>5. CASE m = 1
  BY <1>1, <1>2, <1>4, <1>5 DEF Spine
<1>6. CASE m # 1
  <2>0. PICK top, new : top = st[m].node /\ new = st[m - 1].node
    OBVIOUS
  <2>1. /\ m - 1 \in 1 .. m /\ m \in 2 .. m /\ m - 1 \in 1 .. Len(down) /\ 1 \in 1 .. Len(down)
        /\ down[1].node = Head_ /\ down[Len(down)].node = new /\ new <= top
        /\ new \in 1 .. Len(a) /\ top \in 1 .. Len(a)
    BY <1>1, <1>3, <1>6, <2>0
  <2>2. /\ NodesOf(st) = NodesOf(down) \cup {top}
        /\ new \in NodesOf(down) /\ Head_ \in NodesOf(down)
        /\ \A x \in NodesOf(down) : x <= new /\ x \in 1 .. Len(a)
    <3>1. \A d \in 1 .. Len(down) : down[d].node <= new /\ down[d].node \in 1 .. Len(a)
      BY <1>1, <1>3, <2>0, <2>1
    <3>2. \A d \in 1 .. m : d = m \/ d \in 1 .. Len(down)
      BY <1>1
    <3>. QED  BY <1>1, <2>0, <2>1, <3>1, <3>2 DEF NodesOf
  <2>3. \A i \in 1 .. Len(a) : a[i].last_child \in {0} \cup (i + 1 .. Len(a))
    BY DEF TreeAnd, IsTree, LinksForward, NO_NODE, Ids
  <2>4. \A i, j \in 1 .. Len(a) : a[i].last_child # 0 /\ a[i].last_child = a[j].last_child => i = j
    BY DEF TreeAnd, IsTree, LinksInjective, NO_NODE, Ids
  <2>5. \A x \in NodesOf(st) : x = top \/ a[x].last_child \in NodesOf(st)
    BY <1>3, <2>0 DEF OpenNodes
  <2>6. \A x \in NodesOf(st) : x = Head_ \/ \E y \in NodesOf(st) : a[y].last_child = x
    BY <1>3 DEF OpenNodes
  <2>7. CASE st[m].fn = "BLOCK"
    <3>1. top = new
      BY <1>3, <2>0, <2>1, <2>7
    <3>2. NodesOf(down) = NodesOf(st)
      BY <2>2, <3>1
    <3>. QED  BY <1>1, <1>2, <1>3, <1>4, <2>0, <2>1, <3>1, <3>2 DEF Spine
  <2>8. CASE st[m].fn # "BLOCK"
    <3>1. top = a[new].last_child
      BY <1>3, <2>0, <2>1, <2>8
    <3>2. top > new
      BY <1>1, <2>1, <2>3, <3>1
    <3>3. ASSUME NEW x \in NodesOf(down), x # new
          PROVE  a[x].last_child \in NodesOf(down)
      <4>1. x # top /\ a[x].last_child \in NodesOf(st)
        BY <1>1, <2>1, <2>2, <2>5, <3>2
      <4>2. a[x].last_child # top
        BY <1>1, <2>1, <2>2, <2>4, <3>1, <3>3
      <4>. QED  BY <2>2, <4>1, <4>2
    <3>4. ASSUME NEW x \in NodesOf(down), x # Head_
          PROVE  \E y \in NodesOf(down) : a[y].last_child = x
      <4>1. PICK y \in NodesOf(st) : a[y].last_child = x
        BY <2>2, <2>6, <3>4
      <4>2. y # top
        BY <1>1, <2>1, <2>2, <2>3, <3>2, <4>1
      <4>. QED  BY <2>2, <4>1, <4>2
    <3>5. OpenNodes(a, NodesOf(down), new)
      BY <2>2, <3>3, <3>4 DEF OpenNodes, Ids
    <3>. QED  BY <1>1, <1>2, <1>4, <2>1, <3>5 DEF Spine
  <2>. QED  BY <2>7, <2>8
<1>. QED  BY <1>5, <1>6

\* A node is added to the function that runs.
LEMMA SpineAdd ==
  ASSUME NEW a, NEW st, TreeAnd(a, st), Spine(a, st), NumberedOpen(a, st), Len(st) > 0,
         NEW node \in NodesOver(Values), Fresh(node),
         NEW b, b = AddChild(a, st[Len(st)].node, node)
  PROVE  /\ Spine(b, st)
         /\ \E e, r : Numbered(b, e, r) /\ \A x \in NodesOf(st) \cup {Len(b)} : e[x] = Len(b)
         /\ Len(b) = Len(a) + 1 /\ b[st[Len(st)].node].last_child = Len(b)
         /\ b[Len(b)].last_child = NO_NODE
         /\ \A n \in Ids(a) : Closed(a, st, n) => Closed(b, st, n)
<1>0. PICK m, p, last, k : m = Len(st) /\ p = st[m].node /\ last = a[p].last_child /\ k = Len(a) + 1
  OBVIOUS
<1>1. /\ st \in Seq(FrameSet) /\ m \in Nat \ {0} /\ Len(st) = m /\ st # <<>> /\ b = AddChild(a, p, node)
      /\ IsGrammar(a, p) /\ Len(a) \in Nat /\ k \in Nat /\ p \in Ids(a)
      /\ \A d \in 1 .. m : st[d].node \in Ids(a)
  BY <1>0 DEF TreeAnd, StackOK, IsGrammar, Ids
<1>2. AddsLink(b, a, p, last) /\ IsTree(a)
  BY <1>0, <1>1, AddChildLinks DEF TreeAnd
<1>3. /\ \A d, e \in 1 .. m : d <= e => st[d].node <= st[e].node
      /\ \A d \in 2 .. m :
           st[d].node = IF st[d].fn = "BLOCK" THEN st[d - 1].node ELSE a[st[d - 1].node].last_child
      /\ st[1].node = Head_ /\ OpenNodes(a, NodesOf(st), p)
  BY <1>0, <1>1 DEF Spine
<1>4. PICK end, par : Numbered(a, end, par) /\ \A x \in NodesOf(st) : end[x] = Len(a)
  BY DEF NumberedOpen
<1>5. PICK e, r : Numbered(b, e, r) /\ \A x \in NodesOf(st) \cup {Len(a) + 1} : e[x] = Len(b)
  BY <1>2, <1>3, <1>4, AddNumbered
<1>6. /\ Len(b) = k /\ NO_NODE = 0 /\ Ids(a) = 1 .. Len(a) /\ Ids(b) = 1 .. k /\ Ids(a) \subseteq Ids(b)
      /\ \A i \in Ids(a) :
           /\ b[i].last_child = IF i = p THEN k ELSE a[i].last_child
           /\ b[i].next_sibling = IF i = last /\ last # 0 THEN k ELSE a[i].next_sibling
      /\ b[k].last_child = 0
      /\ \A i \in Ids(a) : a[i].last_child \in {0} \cup (i + 1 .. Len(a))
  BY <1>0, <1>1, <1>2 DEF AddsLink, Ids, NO_NODE, Fresh, IsTree, LinksForward
<1>7. ASSUME NEW d \in 2 .. m
      PROVE  st[d].node = IF st[d].fn = "BLOCK" THEN st[d - 1].node ELSE b[st[d - 1].node].last_child
  <2>1. CASE st[d].fn = "BLOCK"
    BY <1>3, <2>1
  <2>2. CASE st[d].fn # "BLOCK"
    <3>0. PICK x, y : x = st[d - 1].node /\ y = st[d].node
      OBVIOUS
    <3>1. d \in 1 .. m /\ d - 1 \in 1 .. m /\ m \in 1 .. m /\ d <= m
      BY <1>1
    <3>2. x \in Ids(a) /\ y \in Ids(a) /\ y = a[x].last_child /\ y <= p
      BY <1>0, <1>1, <1>3, <2>2, <3>0, <3>1
    <3>3. x # p
      BY <1>1, <1>6, <3>2
    <3>4. b[x].last_child = a[x].last_child
      BY <1>6, <3>2, <3>3
    <3>. QED  BY <2>2, <3>0, <3>2, <3>4
  <2>. QED  BY <2>1, <2>2
<1>8. OpenNodes(b, NodesOf(st), p)
  <2>1. /\ NodesOf(st) \subseteq Ids(a) /\ p \in NodesOf(st) /\ Head_ \in NodesOf(st)
        /\ \A x \in NodesOf(st) : x <= p
        /\ \A x \in NodesOf(st) : x = p \/ a[x].last_child \in NodesOf(st)
        /\ \A x \in NodesOf(st) : x = Head_ \/ \E y \in NodesOf(st) : a[y].last_child = x
    BY <1>3 DEF OpenNodes
  <2>2. \A x \in NodesOf(st) : x = p \/ b[x].last_child \in NodesOf(st)
    BY <1>6, <2>1
  <2>3. ASSUME NEW x \in NodesOf(st), x # Head_
        PROVE  \E y \in NodesOf(st) : b[y].last_child = x
    <3>1. PICK y \in NodesOf(st) : a[y].last_child = x
      BY <2>1, <2>3
    <3>2. y # p
      BY <1>1, <1>6, <2>1, <3>1
    <3>. QED  BY <1>6, <2>1, <3>1, <3>2
  <2>. QED  BY <1>6, <2>1, <2>2, <2>3 DEF OpenNodes
<1>9. Spine(b, st)
  BY <1>0, <1>1, <1>3, <1>7, <1>8 DEF Spine
<1>10. ASSUME NEW n \in Ids(a), Closed(a, st, n)
       PROVE  Closed(b, st, n)
  <2>1. p \in NodesOf(st) /\ NodesOf(st) \subseteq Ids(a)
    BY <1>3 DEF OpenNodes
  <2>2. n # last /\ n # k
    BY <1>0, <1>1, <1>6, <1>10, <2>1 DEF Closed
  <2>. QED  BY <1>6, <1>10, <2>1, <2>2 DEF Closed
<1>. QED  BY <1>0, <1>1, <1>5, <1>6, <1>9, <1>10

\* A function is called on the node just added, or a loop on the same node.
LEMMA SpinePush ==
  ASSUME NEW a, NEW st, TreeAnd(a, st), Spine(a, st), Len(st) > 0,
         NEW f \in FrameSet,
         \/ f.fn = "BLOCK" /\ f.node = st[Len(st)].node
         \/ f.fn # "BLOCK" /\ f.node = a[st[Len(st)].node].last_child /\ f.node # NO_NODE
  PROVE  Spine(a, Append(st, f)) /\ NodesOf(Append(st, f)) = NodesOf(st) \cup {f.node}
<1>0. PICK m, p, up : m = Len(st) /\ p = st[m].node /\ up = Append(st, f)
  OBVIOUS
<1>1. /\ st \in Seq(FrameSet) /\ m \in Nat \ {0} /\ Len(st) = m /\ st # <<>>
      /\ Len(a) \in Nat /\ p \in 1 .. Len(a)
      /\ \A d \in 1 .. m : st[d].node \in 1 .. Len(a)
      /\ Len(up) = m + 1 /\ up[m + 1] = f /\ \A d \in 1 .. m : up[d] = st[d]
      /\ up # <<>>
  BY <1>0 DEF TreeAnd, StackOK, IsGrammar
<1>2. /\ \A d, e \in 1 .. m : d <= e => st[d].node <= st[e].node
      /\ \A d \in 2 .. m :
           st[d].node = IF st[d].fn = "BLOCK" THEN st[d - 1].node ELSE a[st[d - 1].node].last_child
      /\ st[1].node = Head_ /\ OpenNodes(a, NodesOf(st), p)
  BY <1>0, <1>1 DEF Spine
<1>3. \A i \in 1 .. Len(a) : a[i].last_child \in {0} \cup (i + 1 .. Len(a))
  BY DEF TreeAnd, IsTree, LinksForward, NO_NODE, Ids
<1>4. f.node \in 1 .. Len(a) /\ f.node >= p
      /\ \/ f.fn = "BLOCK" /\ f.node = p
         \/ f.fn # "BLOCK" /\ f.node = a[p].last_child
  <2>1. CASE f.fn = "BLOCK"
    BY <1>0, <1>1, <2>1
  <2>2. CASE f.fn # "BLOCK"
    <3>1. f.node = a[p].last_child /\ f.node # 0
      BY <1>0, <2>2 DEF NO_NODE
    <3>. QED  BY <1>1, <1>3, <2>2, <3>1
  <2>. QED  BY <2>1, <2>2
<1>5. NodesOf(up) = NodesOf(st) \cup {f.node}
  <2>1. \A d \in 1 .. m + 1 : d = m + 1 \/ d \in 1 .. m
    BY <1>1
  <2>. QED  BY <1>1, <2>1 DEF NodesOf
<1>6. \A d, e \in 1 .. m + 1 : d <= e => up[d].node <= up[e].node
  <2>. SUFFICES ASSUME NEW d \in 1 .. m + 1, NEW e \in 1 .. m + 1, d <= e
                PROVE  up[d].node <= up[e].node
    OBVIOUS
  <2>1. CASE e = m + 1 /\ d = m + 1
    BY <1>1, <1>4, <2>1
  <2>2. CASE e = m + 1 /\ d # m + 1
    <3>1. d \in 1 .. m /\ m \in 1 .. m /\ d <= m
      BY <1>1, <2>2
    <3>2. st[d].node <= p
      BY <1>0, <1>2, <3>1
    <3>. QED  BY <1>1, <1>4, <2>2, <3>1, <3>2
  <2>3. CASE e # m + 1
    <3>1. d \in 1 .. m /\ e \in 1 .. m
      BY <1>1, <2>3
    <3>. QED  BY <1>1, <1>2, <3>1
  <2>. QED  BY <2>1, <2>2, <2>3
<1>7. \A d \in 2 .. m + 1 :
        up[d].node = IF up[d].fn = "BLOCK" THEN up[d - 1].node ELSE a[up[d - 1].node].last_child
  <2>. SUFFICES ASSUME NEW d \in 2 .. m + 1
                PROVE  up[d].node = IF up[d].fn = "BLOCK" THEN up[d - 1].node ELSE a[up[d - 1].node].last_child
    OBVIOUS
  <2>1. CASE d = m + 1
    <3>1. d - 1 = m /\ m \in 1 .. m /\ up[d] = f /\ up[d - 1] = st[m]
      BY <1>1, <2>1
    <3>. QED  BY <1>0, <1>4, <3>1
  <2>2. CASE d # m + 1
    <3>1. d \in 2 .. m /\ d \in 1 .. m /\ d - 1 \in 1 .. m
      BY <1>1, <2>2
    <3>. QED  BY <1>1, <1>2, <3>1
  <2>. QED  BY <2>1, <2>2
<1>8. OpenNodes(a, NodesOf(up), f.node)
  <2>1. /\ NodesOf(st) \subseteq Ids(a) /\ p \in NodesOf(st) /\ Head_ \in NodesOf(st)
        /\ \A x \in NodesOf(st) : x <= p
        /\ \A x \in NodesOf(st) : x = p \/ a[x].last_child \in NodesOf(st)
        /\ \A x \in NodesOf(st) : x = Head_ \/ \E y \in NodesOf(st) : a[y].last_child = x
    BY <1>2 DEF OpenNodes
  <2>2. \A x \in NodesOf(up) : x <= f.node
    BY <1>1, <1>4, <1>5, <2>1 DEF Ids
  <2>3. \A x \in NodesOf(up) : x = f.node \/ a[x].last_child \in NodesOf(up)
    BY <1>4, <1>5, <2>1
  <2>4. \A x \in NodesOf(up) : x = Head_ \/ \E y \in NodesOf(up) : a[y].last_child = x
    BY <1>4, <1>5, <2>1
  <2>. QED  BY <1>4, <1>5, <2>1, <2>2, <2>3, <2>4 DEF OpenNodes, Ids
<1>9. up[1].node = Head_ /\ up[Len(up)].node = f.node
  BY <1>1, <1>2
<1>. QED  BY <1>0, <1>1, <1>5, <1>6, <1>7, <1>8, <1>9 DEF Spine

-----------------------------------------------------------------------------
(***************************************************************************)
(* The steps, by what they do to the tree and the stack.                   *)
(***************************************************************************)
\* A call with a node of its own: the tree, the stack with the caller, the callee.
Pushed(tree, up, f, g) ==
  /\ SameFunctions(up, stack)
  /\ f \in FrameSet /\ f.fn # "BLOCK" /\ f.node = Len(tree) + 1
  /\ g \in GRAMMAR_TYPE
  /\ ast' = AddGrammar(tree, Top.node, g)
  /\ stack' = Append(up, f)

\* What a step may do to the tree and the stack.
MovedFrom(tree) ==
  \/ /\ ast' = tree
     /\ stack' = Below
  \/ /\ ast' = tree
     /\ SameFunctions(stack', stack)
  \/ \E f \in FrameSet :
       /\ f.fn = "BLOCK" /\ f.node = Top.node
       /\ ast' = tree /\ stack' = Append(stack, f)
  \/ \E up, f, g : Pushed(tree, up, f, g)

Moved ==
  /\ Running
  /\ \/ MovedFrom(ast)
     \/ /\ ~ Done
        /\ MovedFrom(WithToken)

LEMMA ResumeSame ==
  ASSUME PInv, Running, NEW place \in Nat \ {0}
  PROVE  SameFunctions(Resume(place), stack)
<1>. DEFINE f == [Top EXCEPT !.at = place]
<1>1. Top \in FrameSet /\ Len(stack) \in Nat \ {0} /\ stack \in Seq(FrameSet)
  BY TopFrame DEF PInv, StackOK
<1>2. f \in FrameSet /\ f.node = Top.node /\ f.fn = Top.fn
  BY <1>1 DEF FrameSet
<1>. HIDE DEF f
<1>3. Len(Below) = Len(stack) - 1 /\ Below \in Seq(FrameSet)
      /\ \A d \in 1 .. Len(stack) - 1 : Below[d] = stack[d]
  BY BelowAt
<1>5. /\ Append(Below, f) \in Seq(FrameSet) /\ Len(Append(Below, f)) = Len(stack)
      /\ Append(Below, f)[Len(stack)] = f
      /\ \A d \in 1 .. Len(stack) - 1 : Append(Below, f)[d] = stack[d]
  BY <1>1, <1>2, <1>3
<1>6. \A d \in 1 .. Len(stack) : d = Len(stack) \/ d \in 1 .. Len(stack) - 1
  BY <1>1
<1>. QED  BY <1>1, <1>2, <1>5, <1>6 DEF SameFunctions, Resume, Top, f

LEMMA SameStack ==
  ASSUME StackOK(stack, ast)
  PROVE  SameFunctions(stack, stack)
BY DEF SameFunctions, StackOK

LEMMA CallMoves ==
  ASSUME PInv, Running, NEW fn \in GRAMMAR_TYPE, NEW place \in Nat \ {0}, NEW tree, NEW pos,
         Len(tree) \in Nat, Call(fn, place, tree, pos)
  PROVE  MovedFrom(tree)
<1>1. SameFunctions(Resume(place), stack)
  BY ResumeSame DEF PInv
<1>2. CASE pos > Len(tokens)
  BY <1>1, <1>2 DEF Call, MovedFrom
<1>3. CASE ~ (pos > Len(tokens))
  <2>1. PICK up, f : up = Resume(place) /\ f = Frame(fn, Len(tree) + 1, "none")
    OBVIOUS
  <2>2. f \in FrameSet /\ f.node = Len(tree) + 1 /\ f.fn = fn
    BY <2>1, FrameInSet DEF Frame
  <2>3. fn # "BLOCK"
    BY DEF GRAMMAR_TYPE
  <2>4. ast' = AddGrammar(tree, Top.node, fn) /\ stack' = Append(up, f)
    BY <1>3, <2>1 DEF Call
  <2>5. Pushed(tree, up, f, fn)
    BY <1>1, <2>1, <2>2, <2>3, <2>4 DEF Pushed
  <2>. QED  BY <2>5 DEF MovedFrom
<1>. QED  BY <1>2, <1>3

LEMMA TreeLens == ASSUME PInv PROVE Len(ast) \in Nat /\ (Running /\ ~ Done => Len(WithToken) \in Nat)
BY TokenStep, TreeLen DEF PInv

LEMMA ReturnMoves == ASSUME NEW r, Return(r), Running, ast' = ast PROVE Moved
BY DEF Return, Moved, MovedFrom

LEMMA ExpressionMoves ==
  ASSUME PInv, ParsePrimary \/ ParseUnary \/ ParseTerm \/ ParseExpression \/ ParseComparison
  PROVE  Moved
<1>1. CASE ParsePrimary
  BY <1>1 DEF ParsePrimary, At, In, Expect, Return, Moved, MovedFrom
<1>2. CASE ParseUnary
  BY <1>2, CallMoves, TreeLens, ReturnMoves DEF ParseUnary, At, In, Expect, Moved, GRAMMAR_TYPE
<1>3. ASSUME NEW fn, NEW operand \in GRAMMAR_TYPE, NEW operators, ParseChain(fn, operand, operators)
      PROVE  Moved
  BY <1>3, CallMoves, TreeLens, ReturnMoves DEF ParseChain, At, In, Expect, Moved
<1>4. CASE ParseComparison
  BY <1>4, CallMoves, TreeLens, ReturnMoves DEF ParseComparison, At, In, Expect, Moved, GRAMMAR_TYPE
<1>. QED  BY <1>1, <1>2, <1>3, <1>4 DEF ParseTerm, ParseExpression, GRAMMAR_TYPE

LEMMA StatementMoves ==
  ASSUME PInv, StatementToken \/ StatementCall \/ StatementBlock \/ StatementResume
               \/ StatementFail \/ StatementEnd
  PROVE  Moved
<1>1. Running /\ Top \in FrameSet /\ Top.at \in Nat \ {0} /\ Top.at + 1 \in Nat \ {0} /\ Top.node \in Nat
  BY TopFrame DEF StatementToken, StatementCall, StatementBlock, StatementResume,
                  StatementFail, StatementEnd, InForm, In, PInv, FrameSet
<1>2. CASE StatementToken
  BY <1>1, <1>2, ResumeSame DEF StatementToken, Expect, Moved, MovedFrom, PInv
<1>3. CASE StatementCall
  BY <1>1, <1>3, CallMoves, TreeLens DEF StatementCall, Moved, GRAMMAR_TYPE
<1>4. CASE StatementBlock
  <2>1. PICK f : f = Frame("BLOCK", Top.node, "none")
    OBVIOUS
  <2>2. f \in FrameSet /\ f.node = Top.node /\ f.fn = "BLOCK"
    BY <1>1, <2>1, FrameInSet DEF Frame
  <2>. QED  BY <1>1, <1>4, <2>1, <2>2 DEF StatementBlock, Moved, MovedFrom
<1>5. CASE StatementResume
  BY <1>1, <1>5, ResumeSame DEF StatementResume, Moved, MovedFrom, PInv
<1>6. CASE StatementFail \/ StatementEnd
  BY <1>1, <1>6, ReturnMoves DEF StatementFail, StatementEnd
<1>. QED  BY <1>2, <1>3, <1>4, <1>5, <1>6

LEMMA StarMoves ==
  ASSUME PInv, StarReturn \/ StarUnknown \/ StarStatement \/ StarRecover
  PROVE  Moved
<1>1. Running
  BY DEF StarReturn, StarUnknown, StarStatement, StarRecover, AtLoop, InLoop, In
<1>2. CASE StarReturn
  BY <1>1, <1>2, ReturnMoves DEF StarReturn
<1>3. CASE StarUnknown \/ StarRecover
  BY <1>1, <1>3, SameStack DEF StarUnknown, StarRecover, Moved, MovedFrom, PInv
<1>4. CASE StarStatement
  <2>1. PICK f : f = Frame("STATEMENT", Len(ast) + 1, tokens[position])
    OBVIOUS
  <2>2. f \in FrameSet /\ f.node = Len(ast) + 1 /\ f.fn = "STATEMENT"
    BY <1>4, <2>1, FrameInSet, TreeLens DEF Frame, StarStatement, Expect, GRAMMAR_TYPE
  <2>3. Pushed(ast, stack, f, "STATEMENT")
    BY <1>4, <2>1, <2>2, SameStack DEF Pushed, StarStatement, PInv, GRAMMAR_TYPE
  <2>. QED  BY <1>1, <2>3 DEF Moved, MovedFrom
<1>. QED  BY <1>2, <1>3, <1>4

LEMMA NextMoves == ASSUME PInv, Next, ~ Finished PROVE Moved
BY ExpressionMoves, StatementMoves, StarMoves DEF Next

SpineInv(a, st) == Spine(a, st) /\ NumberedOpen(a, st)

ClosedStays(a, st, b, up) == \A n \in Ids(a) : Closed(a, st, n) => Closed(b, up, n)

\* Fewer open nodes, and the same tree.
LEMMA FewerOpen ==
  ASSUME NEW a, NEW st, NEW down, NodesOf(down) \subseteq NodesOf(st)
  PROVE  /\ NumberedOpen(a, st) => NumberedOpen(a, down)
         /\ ClosedStays(a, st, a, down)
BY DEF NumberedOpen, ClosedStays, Closed

LEMMA PushKeeps ==
  ASSUME NEW a, NEW st, TreeAnd(a, st), SpineInv(a, st), Len(st) > 0,
         NEW up, SameFunctions(up, st),
         NEW f \in FrameSet, f.fn # "BLOCK", f.node = Len(a) + 1,
         NEW g \in GRAMMAR_TYPE, NEW b, b = AddGrammar(a, st[Len(st)].node, g)
  PROVE  SpineInv(b, Append(up, f)) /\ ClosedStays(a, st, b, Append(up, f))
<1>0. PICK p, node : p = st[Len(st)].node /\ node = GrammarNode(g)
  OBVIOUS
<1>1. node \in NodesOver(Values) /\ Fresh(node) /\ b = AddChild(a, p, node)
  BY <1>0, FreshNodes DEF AddGrammar
<1>2. /\ st \in Seq(FrameSet) /\ Len(st) \in Nat \ {0} /\ Len(a) \in Nat /\ IsGrammar(a, p)
      /\ up \in Seq(FrameSet) /\ Len(up) = Len(st)
      /\ \A d \in 1 .. Len(st) : up[d].node = st[d].node /\ up[d].fn = st[d].fn
  BY <1>0 DEF TreeAnd, StackOK, SameFunctions
<1>3. b \in Seq(NodesOver(Values)) /\ Len(b) = Len(a) + 1 /\ IsTree(b) /\ Extends(b, a)
  BY <1>1, <1>2, AddChildTree DEF TreeAnd
<1>4. /\ Spine(b, st)
      /\ \E e, r : Numbered(b, e, r) /\ \A x \in NodesOf(st) \cup {Len(b)} : e[x] = Len(b)
      /\ b[p].last_child = Len(b) /\ b[Len(b)].last_child = NO_NODE
      /\ \A n \in Ids(a) : Closed(a, st, n) => Closed(b, st, n)
  BY <1>0, <1>1, SpineAdd DEF SpineInv
<1>5. StackOK(st, b)
  BY <1>2, <1>3, StackGrow DEF TreeAnd
<1>6. StackOK(up, b)
  BY <1>2, <1>5 DEF StackOK
<1>7. TreeAnd(b, up)
  BY <1>2, <1>3, <1>6 DEF TreeAnd
<1>8. Spine(b, up) /\ NodesOf(up) = NodesOf(st)
  BY <1>2, <1>4, SpineSame, NodesSame
<1>9. up[Len(up)].node = p
  BY <1>0, <1>2
<1>10. f.node = b[up[Len(up)].node].last_child /\ f.node # NO_NODE /\ Len(up) > 0
  BY <1>2, <1>3, <1>4, <1>9 DEF NO_NODE
<1>11. Spine(b, Append(up, f)) /\ NodesOf(Append(up, f)) = NodesOf(st) \cup {Len(b)}
  BY <1>3, <1>7, <1>8, <1>10, SpinePush
<1>12. NumberedOpen(b, Append(up, f))
  BY <1>4, <1>11 DEF NumberedOpen
<1>13. ASSUME NEW n \in Ids(a), Closed(a, st, n) PROVE Closed(b, Append(up, f), n)
  <2>1. n # NO_NODE
    BY <1>2 DEF Ids, NO_NODE
  <2>. QED  BY <1>4, <1>11, <1>13, <2>1 DEF Closed
<1>. QED  BY <1>11, <1>12, <1>13 DEF SpineInv, ClosedStays

LEMMA MoveKeeps ==
  ASSUME PInv, Running, NEW tree, TreeAnd(tree, stack), SpineInv(tree, stack), MovedFrom(tree)
  PROVE  SpineInv(ast', stack') /\ ClosedStays(tree, stack, ast', stack')
<1>1. PICK a, st : a = ast' /\ st = stack'
  OBVIOUS
<1>2. Len(stack) \in Nat \ {0} /\ Len(stack) > 0 /\ stack \in Seq(FrameSet) /\ Top = stack[Len(stack)]
  BY TopFrame DEF PInv, StackOK, Top
<1>3. CASE a = tree /\ st = Below
  <2>1. Spine(tree, Below) /\ NodesOf(Below) \subseteq NodesOf(stack)
    BY <1>2, BelowAt, SpineDown DEF SpineInv
  <2>. QED  BY <1>1, <1>3, <2>1, FewerOpen DEF SpineInv
<1>4. CASE a = tree /\ SameFunctions(st, stack)
  <2>1. Spine(tree, st) /\ NodesOf(st) = NodesOf(stack)
    BY <1>2, <1>4, NodesSame, SpineSame DEF SpineInv
  <2>. QED  BY <1>1, <1>4, <2>1, FewerOpen DEF SpineInv
<1>5. ASSUME NEW f \in FrameSet, f.fn = "BLOCK", f.node = Top.node, a = tree, st = Append(stack, f)
      PROVE  SpineInv(a, st) /\ ClosedStays(tree, stack, a, st)
  <2>1. Spine(tree, st) /\ NodesOf(st) = NodesOf(stack) \cup {f.node}
    BY <1>2, <1>5, SpinePush DEF SpineInv
  <2>2. f.node \in NodesOf(stack)
    BY <1>2, <1>5 DEF NodesOf
  <2>. QED  BY <1>5, <2>1, <2>2, FewerOpen DEF SpineInv
<1>6. ASSUME NEW up, NEW f, NEW g, Pushed(tree, up, f, g)
      PROVE  SpineInv(a, st) /\ ClosedStays(tree, stack, a, st)
  BY <1>1, <1>2, <1>6, PushKeeps DEF Pushed
<1>. QED  BY <1>1, <1>3, <1>4, <1>5, <1>6 DEF MovedFrom

LEMMA StepSpine ==
  ASSUME PInv, SpineInv(ast, stack), Moved
  PROVE  SpineInv(ast', stack') /\ ClosedStays(ast, stack, ast', stack')
<1>1. TreeAnd(ast, stack)
  BY DEF PInv, TreeInv, TreeAnd
<1>2. CASE MovedFrom(ast)
  BY <1>1, <1>2, MoveKeeps DEF Moved
<1>3. CASE ~ Done /\ MovedFrom(WithToken)
  <2>1. PICK tree, node : tree = WithToken /\ node = TokenNode(position)
    OBVIOUS
  <2>2. /\ node \in NodesOver(Values) /\ Fresh(node)
        /\ tree = AddChild(ast, stack[Len(stack)].node, node)
        /\ Len(stack) > 0 /\ Running
    BY <2>1, FreshNodes, TopFrame DEF AddToken, WithToken, Top, PInv, Moved
  <2>3. /\ Spine(tree, stack)
        /\ \E e, r : Numbered(tree, e, r) /\ \A x \in NodesOf(stack) \cup {Len(tree)} : e[x] = Len(tree)
        /\ Len(tree) = Len(ast) + 1
        /\ \A n \in Ids(ast) : Closed(ast, stack, n) => Closed(tree, stack, n)
    BY <1>1, <2>2, SpineAdd DEF SpineInv
  <2>4. SpineInv(tree, stack)
    BY <2>3 DEF SpineInv, NumberedOpen
  <2>5. TreeAnd(tree, stack)
    <3>1. TreeInv(tree, position + 1, skipped, Len(tokens)) /\ Extends(tree, ast)
      BY <1>3, <2>1, <2>2, TokenStep
    <3>2. StackOK(stack, tree)
      BY <3>1, StackGrow, TreeLen DEF PInv
    <3>. QED  BY <3>1, <3>2 DEF TreeInv, TreeAnd
  <2>6. SpineInv(ast', stack') /\ ClosedStays(tree, stack, ast', stack')
    BY <1>3, <2>1, <2>2, <2>4, <2>5, MoveKeeps
  <2>7. Ids(ast) \subseteq Ids(tree)
    BY <2>3, <1>1 DEF Ids, TreeAnd
  <2>. QED  BY <2>3, <2>6, <2>7 DEF ClosedStays
<1>. QED  BY <1>2, <1>3 DEF Moved

LEMMA InitSpine == ASSUME Init PROVE SpineInv(ast, stack)
<1>1. PICK f, root : f = Frame("STAR", Head_, "none") /\ root = GrammarNode("PROGRAM")
  OBVIOUS
<1>2. /\ f.node = 1 /\ stack = <<f>> /\ ast = <<root>> /\ Head_ = 1
      /\ root.first_child = 0 /\ root.last_child = 0 /\ root.next_sibling = 0 /\ NO_NODE = 0
  BY <1>1 DEF Init, Start, Frame, Head_, GrammarNode, NO_NODE
<1>3. /\ Len(stack) = 1 /\ stack[1] = f /\ Len(ast) = 1 /\ ast[1] = root
      /\ Ids(ast) = {1} /\ NodesOf(stack) = {1}
  <2>1. Len(stack) = 1 /\ stack[1] = f /\ Len(ast) = 1 /\ ast[1] = root
    BY <1>2
  <2>2. 1 .. 1 = {1}
    OBVIOUS
  <2>3. NodesOf(stack) = {1}
    <3>1. \A d \in 1 .. Len(stack) : stack[d].node = 1
      BY <1>2, <2>1
    <3>2. 1 \in 1 .. Len(stack)
      BY <2>1
    <3>. QED  BY <3>1, <3>2 DEF NodesOf
  <2>4. Ids(ast) = {1}
    BY <2>1, <2>2, Zenon DEF Ids
  <2>. QED  BY <2>1, <2>3, <2>4
<1>4. Spine(ast, stack)
  <2>1. OpenNodes(ast, {1}, 1)
    BY <1>2, <1>3 DEF OpenNodes
  <2>2. stack[1].node = 1 /\ stack[Len(stack)].node = 1
    BY <1>2, <1>3
  <2>3. \A d, e \in 1 .. Len(stack) : d <= e => stack[d].node <= stack[e].node
    <3>1. \A d \in 1 .. Len(stack) : d = 1
      BY <1>3
    <3>2. \A d \in 1 .. Len(stack) : stack[d].node = 1
      BY <2>2, <3>1, Zenon
    <3>. QED  BY <3>2
  <2>4. \A d \in 2 .. Len(stack) : FALSE
    BY <1>3
  <2>. QED  BY <1>2, <1>3, <2>1, <2>2, <2>3, <2>4 DEF Spine
<1>5. PICK end, par : end = [n \in {1} |-> 1] /\ par = [n \in {1} |-> 0]
  OBVIOUS
<1>6. Numbered(ast, end, par) /\ \A x \in NodesOf(stack) : end[x] = Len(ast)
  BY <1>2, <1>3, <1>5 DEF Numbered
<1>. QED  BY <1>4, <1>6 DEF SpineInv, NumberedOpen

-----------------------------------------------------------------------------
(***************************************************************************)
(* Tokens that a name follows.                                             *)
(***************************************************************************)
NAMERS == {"LET", "LABEL", "GOTO", "INPUT"}

RootInv(st) == st # <<>> => st[1].fn = "STAR"

EndInv == stack = <<>> => Done

Namer(a, n) == a[n].type = "TOKEN" /\ tokens[a[n].value] \in NAMERS

Named(a, n) ==
  /\ a[n].next_sibling # NO_NODE
  /\ IsToken(a, a[n].next_sibling)
  /\ tokens[a[a[n].next_sibling].value] = "IDENT"
  /\ a[a[n].next_sibling].value = a[n].value + 1

Awaited(n) ==
  /\ In("STATEMENT") /\ Top.at = 2 /\ Top.kw \in NAMERS /\ ret = "none"
  /\ ast[Top.node].last_child = n
  /\ position = ast[n].value + 1

Nameless(n) ==
  /\ errors # <<>>
  /\ Closed(ast, stack, n)
  /\ ast[n].value + 1 \in 1 .. Len(tokens) => tokens[ast[n].value + 1] # "IDENT"

NamesInv == \A n \in Ids(ast) : Namer(ast, n) => Named(ast, n) \/ Awaited(n) \/ Nameless(n)

LEMMA RootKept ==
  ASSUME PInv, RootInv(stack), Moved
  PROVE  RootInv(stack') /\ (stack' = <<>> => stack' = Below /\ Len(stack) = 1)
<1>1. PICK st : st = stack'
  OBVIOUS
<1>2. /\ Len(stack) \in Nat \ {0} /\ stack \in Seq(FrameSet) /\ stack[1].fn = "STAR"
      /\ Len(Below) = Len(stack) - 1 /\ Below \in Seq(FrameSet)
      /\ \A d \in 1 .. Len(stack) - 1 : Below[d] = stack[d]
  BY TopFrame, BelowAt DEF PInv, StackOK, RootInv, Moved, Running
<1>3. CASE st = Below
  BY <1>1, <1>2, <1>3 DEF RootInv
<1>4. ASSUME NEW up, SameFunctions(up, stack)
      PROVE  /\ up # <<>> /\ up[1].fn = "STAR" /\ up \in Seq(FrameSet)
             /\ \A f \in FrameSet : Append(up, f) # <<>> /\ Append(up, f)[1].fn = "STAR"
  <2>1. up \in Seq(FrameSet) /\ Len(up) = Len(stack) /\ up[1].fn = "STAR"
    BY <1>2, <1>4 DEF SameFunctions
  <2>2. ASSUME NEW f \in FrameSet
        PROVE  Append(up, f) # <<>> /\ Append(up, f)[1].fn = "STAR"
    <3>1. Len(Append(up, f)) = Len(up) + 1 /\ Append(up, f)[1] = up[1]
      BY <1>2, <2>1
    <3>. QED  BY <1>2, <2>1, <3>1
  <2>. QED  BY <1>2, <2>1, <2>2
<1>5. SameFunctions(stack, stack)
  BY SameStack DEF PInv
<1>6. CASE SameFunctions(st, stack)
  BY <1>1, <1>4, <1>6 DEF RootInv
<1>7. CASE \E f \in FrameSet : st = Append(stack, f)
  BY <1>1, <1>4, <1>5, <1>7 DEF RootInv
<1>8. CASE \E tree, up, f, g : Pushed(tree, up, f, g)
  BY <1>1, <1>4, <1>8 DEF RootInv, Pushed
<1>. QED  BY <1>1, <1>3, <1>6, <1>7, <1>8 DEF Moved, MovedFrom

LEMMA EndKept ==
  ASSUME PInv, RootInv(stack), Next, ~ Finished
  PROVE  EndInv'
<1>. SUFFICES ASSUME stack' = <<>> PROVE Done'
  BY DEF EndInv
<1>1. /\ Running /\ stack' = Below /\ Len(stack) = 1 /\ stack # <<>>
  BY NextMoves, RootKept DEF Moved, Running
<1>2. Top.fn = "STAR"
  BY <1>1 DEF Top, RootInv
<1>3. ~ ParsePrimary /\ ~ ParseUnary /\ ~ ParseTerm /\ ~ ParseExpression /\ ~ ParseComparison
  BY <1>2 DEF ParsePrimary, ParseUnary, ParseTerm, ParseExpression, ParseChain,
              ParseComparison, At, In
<1>4. /\ ~ StatementToken /\ ~ StatementCall /\ ~ StatementBlock /\ ~ StatementResume
      /\ ~ StatementFail /\ ~ StatementEnd
  BY <1>2 DEF StatementToken, StatementCall, StatementBlock, StatementResume, StatementFail,
              StatementEnd, InForm, In
<1>5. ~ StarUnknown /\ ~ StarRecover
  BY <1>1 DEF StarUnknown, StarRecover
<1>6. ~ StarStatement
  <2>. SUFFICES ASSUME StarStatement PROVE FALSE
    OBVIOUS
  <2>1. PICK f : f = Frame("STATEMENT", Len(ast) + 1, tokens[position])
    OBVIOUS
  <2>2. stack' = Append(stack, f)
    BY <2>1 DEF StarStatement
  <2>3. stack \in Seq(FrameSet) /\ f \in FrameSet
    BY <2>1, FrameInSet, TreeLens DEF PInv, StackOK, StarStatement, Expect, GRAMMAR_TYPE
  <2>4. Len(Append(stack, f)) = Len(stack) + 1
    BY <2>3
  <2>. QED  BY <1>1, <2>2, <2>4
<1>7. StarReturn
  BY <1>3, <1>4, <1>5, <1>6 DEF Next
<1>8. Done /\ tokens' = tokens /\ position' = position
  BY <1>2, <1>7 DEF StarReturn, AtBlockEnd, In
<1>. QED  BY <1>8 DEF Done

\* A new token node holds a token that the position goes past.
LEMMA StepTokens ==
  ASSUME PInv, Keeps, NEW n \in NewNodes, ast'[n].type = "TOKEN"
  PROVE  ast'[n].value \in position .. position' - 1
<1>1. PICK a, pos, sk : a = ast' /\ pos = position' /\ sk = skipped'
  OBVIOUS
<1>2. /\ Consumed(a, pos, sk) /\ Consumed(ast, position, skipped)
      /\ Extends(a, ast) /\ skipped \subseteq sk
      /\ position \in Nat /\ pos \in Nat /\ n \in Ids(a) /\ n \notin Ids(ast) /\ a[n].type = "TOKEN"
      /\ Len(ast) \in Nat /\ Len(a) \in Nat /\ Ids(ast) = 1 .. Len(ast) /\ Ids(a) = 1 .. Len(a)
      /\ Len(a) >= Len(ast)
  <2>1. TreeInv(a, pos, sk, Len(tokens)) /\ TreeInv(ast, position, skipped, Len(tokens))
        /\ Extends(a, ast) /\ skipped \subseteq sk /\ position \in Nat /\ pos \in Nat
    BY <1>1 DEF Keeps, PInv
  <2>2. n \in Ids(a) /\ n \notin Ids(ast) /\ a[n].type = "TOKEN"
    BY <1>1 DEF NewNodes
  <2>3. Len(ast) \in Nat /\ Len(a) \in Nat
    BY <2>1, TreeLen
  <2>. QED  BY <2>1, <2>2, <2>3 DEF TreeInv, Ids, Extends
<1>3. n \in Tokens(a) /\ a[n].value \in (1 .. pos - 1) \ sk
  BY <1>2 DEF Tokens, Consumed
<1>4. ASSUME a[n].value < position PROVE FALSE
  <2>1. a[n].value \in (1 .. position - 1) \ skipped
    BY <1>2, <1>3, <1>4
  <2>2. PICK m \in Tokens(ast) : ast[m].value = a[n].value
    BY <1>2, <2>1 DEF Consumed
  <2>3. m \in Ids(ast) /\ a[m].value = a[n].value /\ a[m].type = "TOKEN"
    BY <1>2, <2>2 DEF Tokens, Extends
  <2>4. m \in Tokens(a) /\ m < n
    BY <1>2, <2>3 DEF Tokens
  <2>. QED  BY <1>2, <1>3, <2>3, <2>4 DEF Consumed
<1>. QED  BY <1>1, <1>2, <1>3, <1>4

\* Only a statement takes a token that a name follows.
LEMMA OthersTake ==
  ASSUME PInv, Next, ~ Finished, ~ StatementToken
  PROVE  \/ position' = position
         \/ ast' = ast
         \/ position' = position + 1 /\ tokens[position] \notin NAMERS
<1>1. ASSUME NEW types, types \cap NAMERS = {}, Expect(types)
      PROVE  tokens[position] \notin NAMERS
  BY <1>1 DEF Expect
<1>2. CASE ParsePrimary
  BY <1>1, <1>2 DEF ParsePrimary, NAMERS
<1>3. CASE ParseUnary
  BY <1>1, <1>3 DEF ParseUnary, Call, SIGNS, NAMERS
<1>4. CASE ParseTerm \/ ParseExpression
  BY <1>1, <1>4 DEF ParseTerm, ParseExpression, ParseChain, Call, SIGNS, NAMERS
<1>5. CASE ParseComparison
  BY <1>1, <1>5 DEF ParseComparison, Call, COMPARISON_OPS, NAMERS
<1>6. CASE StatementCall
  BY <1>6 DEF StatementCall, Call
<1>. QED  BY <1>2, <1>3, <1>4, <1>5, <1>6
  DEF Next, StatementBlock, StatementResume, StatementFail, StatementEnd,
      StarReturn, StarUnknown, StarStatement, StarRecover

\* A statement takes a token that a name follows as its first one, and the name
\* next.
LEMMA FormNames ==
  /\ \A kw, t : \A place \in Nat \ {0} :
       place <= Len(Form(kw)) /\ t \in NAMERS /\ t \in Form(kw)[place].expect =>
         place = 1 /\ kw = t
  /\ \A kw \in NAMERS :
       Len(Form(kw)) >= 2 /\ Form(kw)[2].expect = {"IDENT"} /\ Form(kw)[2].call = "none"
<1>1. ASSUME NEW kw, NEW t \in NAMERS, NEW place \in Nat \ {0}, place <= Len(Form(kw)),
             t \in Form(kw)[place].expect
      PROVE  place = 1 /\ kw = t
  <2>1. CASE kw = "PRINT"
    <3>1. Form(kw) = <<Token({"PRINT"}), TokenOr({"STRING"}, "EXPRESSION")>>
      BY <2>1, FormCases
    <3>. QED  BY <1>1, <3>1 DEF Token, TokenOr, NAMERS
  <2>2. CASE kw = "IF"
    <3>1. Form(kw) = <<Token({"IF"}), Part("COMPARISON"), Token({"THEN"}),
                       Part("BLOCK"), Token({"ENDIF"})>>
      BY <2>2, FormCases
    <3>2. place \in 1 .. 5
      BY <1>1, <3>1
    <3>. QED  BY <1>1, <3>1, <3>2 DEF Token, Part, NAMERS
  <2>3. CASE kw = "WHILE"
    <3>1. Form(kw) = <<Token({"WHILE"}), Part("COMPARISON"), Token({"REPEAT"}),
                       Part("BLOCK"), Token({"ENDWHILE"})>>
      BY <2>3, FormCases
    <3>2. place \in 1 .. 5
      BY <1>1, <3>1
    <3>. QED  BY <1>1, <3>1, <3>2 DEF Token, Part, NAMERS
  <2>4. CASE kw = "LET"
    <3>1. Form(kw) = <<Token({"LET"}), Ident, Token({"EQ"}), Part("EXPRESSION")>>
      BY <2>4, FormCases
    <3>. QED  BY <1>1, <2>4, <3>1 DEF Token, Part, Ident, NAMERS
  <2>5. CASE kw \notin {"PRINT", "IF", "WHILE", "LET"}
    <3>1. Form(kw) = <<Token({kw}), Ident>>
      BY <2>5, FormCases
    <3>. QED  BY <1>1, <3>1 DEF Token, Ident, NAMERS
  <2>. QED  BY <2>1, <2>2, <2>3, <2>4, <2>5
<1>2. ASSUME NEW kw \in NAMERS
      PROVE  Len(Form(kw)) >= 2 /\ Form(kw)[2].expect = {"IDENT"} /\ Form(kw)[2].call = "none"
  <2>1. \/ Form(kw) = <<Token({"LET"}), Ident, Token({"EQ"}), Part("EXPRESSION")>>
        \/ Form(kw) = <<Token({kw}), Ident>>
    <3>1. kw = "LET" \/ kw \notin {"PRINT", "IF", "WHILE", "LET"}
      BY <1>2 DEF NAMERS
    <3>. QED  BY <3>1, FormCases
  <2>. QED  BY <2>1 DEF Ident, Token
<1>. QED  BY <1>1, <1>2

\* What happens after a statement has taken such a token.
LEMMA AwaitedTakes ==
  ASSUME PInv, NEW n, Awaited(n), Next, ~ Finished
  PROVE  \/ StatementToken /\ tokens[position] = "IDENT"
         \/ StatementFail /\ ~ Expect({"IDENT"})
<1>1. /\ Running /\ Top.fn = "STATEMENT" /\ Top.at = 2 /\ Top.kw \in NAMERS /\ ret = "none"
  BY DEF Awaited, In
<1>2. Item.expect = {"IDENT"} /\ Item.call = "none" /\ 2 <= Len(Form(Top.kw))
  <2>1. Len(Form(Top.kw)) >= 2 /\ Form(Top.kw)[2].expect = {"IDENT"} /\ Form(Top.kw)[2].call = "none"
    BY <1>1, FormNames
  <2>2. Len(Form(Top.kw)) \in Nat
    <3>1. \/ Form(Top.kw) = <<Token({"LET"}), Ident, Token({"EQ"}), Part("EXPRESSION")>>
          \/ Form(Top.kw) = <<Token({Top.kw}), Ident>>
      <4>1. Top.kw = "LET" \/ Top.kw \notin {"PRINT", "IF", "WHILE", "LET"}
        BY <1>1 DEF NAMERS
      <4>. QED  BY <4>1, FormCases
    <3>. QED  BY <3>1
  <2>. QED  BY <1>1, <2>1, <2>2 DEF Item
<1>3. ~ ParsePrimary /\ ~ ParseUnary /\ ~ ParseTerm /\ ~ ParseExpression /\ ~ ParseComparison
  BY <1>1 DEF ParsePrimary, ParseUnary, ParseTerm, ParseExpression, ParseChain,
              ParseComparison, At, In
<1>4. ~ StarReturn /\ ~ StarUnknown /\ ~ StarStatement /\ ~ StarRecover
  BY <1>1 DEF StarReturn, StarUnknown, StarStatement, StarRecover, AtLoop, InLoop, In
<1>5. ~ StatementCall /\ ~ StatementBlock /\ ~ StatementResume /\ ~ StatementEnd
  BY <1>1, <1>2 DEF StatementCall, StatementBlock, StatementResume, StatementEnd
<1>6. StatementToken => tokens[position] = "IDENT"
  BY <1>2 DEF StatementToken, Expect
<1>7. StatementFail => ~ Expect({"IDENT"})
  BY <1>1, <1>2 DEF StatementFail
<1>. QED  BY <1>3, <1>4, <1>5, <1>6, <1>7 DEF Next

LEMMA NamedStays ==
  ASSUME PInv, Keeps, NEW n \in Ids(ast), Named(ast, n)
  PROVE  Named(ast, n)'
<1>1. PICK a : a = ast'
  OBVIOUS
<1>2. Extends(a, ast) /\ Len(a) \in Nat /\ Len(ast) \in Nat
  BY <1>1, TreeLen DEF Keeps, PInv
<1>3. Named(a, n)
  BY <1>2 DEF Extends, Named, IsToken, Ids
<1>. QED  BY <1>1, <1>3 DEF Named, Keeps

\* The current token becomes the last child of the running function's node.
LEMMA TokenLinks ==
  ASSUME PInv, Running, ~ Done
  PROVE  AddsLink(WithToken, ast, Top.node, ast[Top.node].last_child)
<1>1. PICK node : node = TokenNode(position)
  OBVIOUS
<1>2. node \in NodesOver(Values) /\ Fresh(node) /\ WithToken = AddChild(ast, Top.node, node)
  BY <1>1, FreshNodes DEF PInv, WithToken, AddToken
<1>3. ast \in Seq(NodesOver(Values)) /\ IsTree(ast) /\ IsGrammar(ast, Top.node)
  BY TopFrame DEF PInv, TreeInv
<1>. QED  BY <1>2, <1>3, AddChildLinks

LEMMA ResumeTop ==
  ASSUME PInv, Running, NEW place \in Nat \ {0}, NEW st, st = Resume(place)
  PROVE  /\ st # <<>>
         /\ st[Len(st)].fn = Top.fn /\ st[Len(st)].kw = Top.kw /\ st[Len(st)].node = Top.node
         /\ st[Len(st)].at = place
<1>1. PICK f : f = [Top EXCEPT !.at = place]
  OBVIOUS
<1>2. Top \in FrameSet
  BY TopFrame DEF PInv
<1>3. f \in FrameSet /\ f.fn = Top.fn /\ f.kw = Top.kw /\ f.node = Top.node /\ f.at = place
  BY <1>1, <1>2 DEF FrameSet
<1>4. Below \in Seq(FrameSet) /\ st = Append(Below, f)
  BY <1>1, BelowAt DEF Resume
<1>5. Len(st) = Len(Below) + 1 /\ st[Len(Below) + 1] = f /\ st # <<>>
  BY <1>3, <1>4
<1>. QED  BY <1>3, <1>5

\* A statement takes its first token.
LEMMA NamerTaken ==
  ASSUME PInv, StatementToken, tokens[position] \in NAMERS,
         NEW n, n = Len(ast'), ast'[n].value = position
  PROVE  Awaited(n)'
<1>1. Running /\ Top.at \in Nat \ {0}
  BY TopFrame DEF StatementToken, InForm, In, PInv, FrameSet
<1>2. /\ Top.fn = "STATEMENT" /\ Top.at <= Len(Form(Top.kw))
      /\ ret = "none" /\ ret' = ret /\ tokens[position] \in Form(Top.kw)[Top.at].expect /\ ~ Done
      /\ ast' = WithToken /\ position' = position + 1 /\ stack' = Resume(Top.at + 1)
      /\ tokens' = tokens
  BY DEF StatementToken, InForm, In, Expect, Item
<1>3. Top.at = 1 /\ Top.kw \in NAMERS
  BY <1>1, <1>2, FormNames
<1>4. PICK st : st = stack'
  OBVIOUS
<1>5. /\ st # <<>>
      /\ st[Len(st)].fn = "STATEMENT" /\ st[Len(st)].kw \in NAMERS /\ st[Len(st)].node = Top.node
      /\ st[Len(st)].at = 2
  <2>1. 2 \in Nat \ {0} /\ Top.at + 1 = 2
    BY <1>3
  <2>2. st = Resume(2)
    BY <1>2, <1>4, <2>1
  <2>. QED  BY <1>1, <1>2, <1>3, <2>1, <2>2, ResumeTop, ZenonT(40)
<1>6. Top' = st[Len(st)]
  BY <1>4 DEF Top
<1>7. In("STATEMENT")'
  BY <1>4, <1>5, <1>6 DEF In, Running
<1>8. AddsLink(WithToken, ast, Top.node, ast[Top.node].last_child)
  BY <1>1, <1>2, TokenLinks
<1>9. ast'[Top.node].last_child = n
  BY <1>2, <1>8 DEF AddsLink
<1>. QED  BY <1>2, <1>5, <1>6, <1>7, <1>9 DEF Awaited

\* The name is taken, too.
LEMMA NameTaken ==
  ASSUME PInv, StatementToken, tokens[position] = "IDENT", NEW n \in Ids(ast), Awaited(n), Keeps
  PROVE  Named(ast, n)'
<1>1. Running /\ ~ Done /\ ast' = WithToken /\ tokens' = tokens
  BY DEF StatementToken, InForm, In, Expect
<1>2. PICK a, k : a = ast' /\ k = Len(ast) + 1
  OBVIOUS
<1>3. /\ Len(ast) \in Nat /\ Len(a) = k /\ a[k].type = "TOKEN" /\ a[k].value = position
  BY <1>1, <1>2, TokenAdded
<1>4. ast[Top.node].last_child = n /\ position = ast[n].value + 1
  BY DEF Awaited
<1>5. AddsLink(a, ast, Top.node, n)
  <2>1. AddsLink(WithToken, ast, Top.node, ast[Top.node].last_child)
    BY <1>1, TokenLinks
  <2>. QED  BY <1>1, <1>2, <1>4, <2>1, Zenon
<1>6. n # NO_NODE /\ n \in 1 .. Len(ast)
  BY <1>3 DEF Ids, NO_NODE
<1>7. a[n].next_sibling = k /\ a[n].value = ast[n].value
  <2>1. a[n].next_sibling = k
    BY <1>2, <1>5, <1>6 DEF AddsLink
  <2>2. a[n].value = ast[n].value
    BY <1>2 DEF Keeps, Extends
  <2>. QED  BY <2>1, <2>2
<1>8. IsToken(a, k) /\ k # NO_NODE /\ a[k].value = a[n].value + 1
  <2>1. k \in 1 .. Len(a) /\ k # 0
    BY <1>2, <1>3
  <2>. QED  BY <1>3, <1>4, <1>7, <2>1 DEF IsToken, NO_NODE
<1>9. tokens'[a[k].value] = "IDENT"
  <2>1. tokens[a[k].value] = "IDENT"
    BY <1>3, Zenon
  <2>. QED  BY <1>1, <2>1, Zenon
<1>. QED  BY <1>2, <1>7, <1>8, <1>9 DEF Named

\* The name is not there: the statement fails, and nothing will follow.
LEMMA NameMissing ==
  ASSUME PInv, StatementFail, ~ Expect({"IDENT"}), NEW n \in Ids(ast), Awaited(n),
         SpineInv(ast, stack)
  PROVE  Nameless(n)'
<1>1. /\ Running /\ Top.fn = "STATEMENT" /\ ast' = ast /\ stack' = Below /\ tokens' = tokens
      /\ errors' = Append(errors, Here)
  BY DEF StatementFail, InForm, In, Return
<1>2. ast[Top.node].last_child = n /\ position = ast[n].value + 1
  BY DEF Awaited
<1>3. errors' # <<>>
  <2>1. Len(errors') = Len(errors) + 1 /\ Len(errors) \in Nat
    <3>1. Here \in {FILE_START} \cup 1 .. Len(tokens) /\ errors \in Seq({FILE_START} \cup 1 .. Len(tokens))
      BY DEF PInv, Here, Done
    <3>. QED  BY <1>1, <3>1
  <2>. QED  BY <2>1
<1>4. PICK m, p : m = Len(stack) /\ p = stack[m].node
  OBVIOUS
<1>5. /\ m \in Nat \ {0} /\ stack # <<>> /\ Top = stack[m] /\ Top.node = p
      /\ Below \in Seq(FrameSet) /\ Len(Below) = m - 1
      /\ \A d \in 1 .. m - 1 : Below[d] = stack[d]
      /\ \A d \in 1 .. m : stack[d].node \in Ids(ast) /\ stack[d].node \in Nat
      /\ Len(ast) \in Nat /\ Ids(ast) = 1 .. Len(ast)
  <2>1. Len(ast) \in Nat /\ Ids(ast) = 1 .. Len(ast)
    BY TreeLens DEF Ids
  <2>2. /\ m \in Nat \ {0} /\ Below \in Seq(FrameSet) /\ Len(Below) = m - 1
        /\ \A d \in 1 .. m - 1 : Below[d] = stack[d]
    BY <1>1, <1>4, BelowAt
  <2>3. Top = stack[m] /\ Top.node = p /\ stack # <<>>
    BY <1>1, <1>4 DEF Top, Running
  <2>4. \A d \in 1 .. m : stack[d].node \in 1 .. Len(ast)
    BY <1>4 DEF PInv, StackOK, IsGrammar
  <2>. QED  BY <2>1, <2>2, <2>3, <2>4
<1>6. IsTree(ast) /\ n \in 1 .. Len(ast) /\ n # 0 /\ NO_NODE = 0 /\ p \in Ids(ast)
  <2>1. m \in 1 .. m
    BY <1>5
  <2>. QED  BY <1>4, <1>5, <2>1 DEF PInv, TreeInv, NO_NODE
<1>7. ast[n].next_sibling = NO_NODE
  BY <1>2, <1>5, <1>6 DEF IsTree, EndsMeet
<1>8. ASSUME NEW d \in 1 .. m - 1 PROVE stack[d].node < p
  <2>0. PICK x : x = stack[m - 1].node
    OBVIOUS
  <2>1. m \in 2 .. m /\ m - 1 \in 1 .. m /\ d \in 1 .. m /\ d <= m - 1
    BY <1>5, <1>8
  <2>2. p = ast[x].last_child /\ stack[d].node <= x /\ x \in Ids(ast)
    BY <1>1, <1>4, <1>5, <2>0, <2>1 DEF SpineInv, Spine
  <2>3. ast[x].last_child \in {0} \cup (x + 1 .. Len(ast))
    BY <1>6, <2>2 DEF IsTree, LinksForward
  <2>. QED  BY <1>5, <1>6, <2>1, <2>2, <2>3
<1>9. ASSUME NEW x \in NodesOf(Below) PROVE ast[x].last_child # n
  <2>1. PICK d \in 1 .. m - 1 : x = stack[d].node
    BY <1>5, <1>9 DEF NodesOf
  <2>2. x \in Ids(ast) /\ x # p
    BY <1>5, <1>6, <1>8, <2>1
  <2>. QED  BY <1>2, <1>5, <1>6, <2>2 DEF IsTree, LinksInjective
<1>10. Closed(ast, Below, n)
  BY <1>7, <1>9 DEF Closed
<1>11. ast[n].value + 1 \in 1 .. Len(tokens) => tokens[ast[n].value + 1] # "IDENT"
  <2>1. position \in 1 .. Len(tokens) => ~ Done
    BY DEF PInv, Done
  <2>. QED  BY <1>2, <2>1 DEF Expect
<1>. QED  BY <1>1, <1>3, <1>10, <1>11 DEF Nameless

-----------------------------------------------------------------------------
(***************************************************************************)
(* The invariant, and what is left in the end.                             *)
(***************************************************************************)
\* The open nodes are a path of last children, the nodes are numbered as a
\* traversal visits them, all input is read in the end, and a token that a name
\* should follow has the name, waits for it or is followed by nothing.
OInv ==
  /\ SpineInv(ast, stack)
  /\ RootInv(stack)
  /\ EndInv
  /\ NamesInv

LEMMA NamelessStays ==
  ASSUME PInv, Keeps, ErrorsGrow, ClosedStays(ast, stack, ast', stack'),
         NEW n \in Ids(ast), Nameless(n)
  PROVE  Nameless(n)'
<1>1. PICK a, st, e : a = ast' /\ st = stack' /\ e = errors'
  OBVIOUS
<1>2. Extends(a, ast) /\ tokens' = tokens /\ a[n].value = ast[n].value
  BY <1>1 DEF Keeps, Extends
<1>3. e # <<>>
  <2>1. Len(errors) >= 1
    BY DEF Nameless, PInv
  <2>2. 1 <= Len(e) /\ e \in Seq({FILE_START} \cup 1 .. Len(tokens))
    BY <1>1, <2>1 DEF ErrorsGrow, PInv
  <2>. QED  BY <2>2
<1>4. Closed(a, st, n)
  BY <1>1 DEF ClosedStays, Nameless
<1>5. a[n].value + 1 \in 1 .. Len(tokens) => tokens[a[n].value + 1] # "IDENT"
  BY <1>2 DEF Nameless
<1>. QED  BY <1>1, <1>2, <1>3, <1>4, <1>5 DEF Nameless

LEMMA StepNames ==
  ASSUME PInv, SpineInv(ast, stack), NamesInv, Next, ~ Finished
  PROVE  NamesInv'
<1>1. /\ Keeps /\ ErrorsGrow /\ ClosedStays(ast, stack, ast', stack') /\ tokens' = tokens
  BY NextKeeps, NextErrors, NextMoves, StepSpine DEF Keeps
<1>2. PICK a : a = ast'
  OBVIOUS
<1>3. Extends(a, ast) /\ Len(ast) \in Nat /\ Len(a) \in Nat
  BY <1>1, <1>2, TreeLen DEF Keeps, PInv
<1>4. ASSUME NEW n \in Ids(ast), Namer(a, n)
      PROVE  Named(ast, n)' \/ Awaited(n)' \/ Nameless(n)'
  <2>1. Namer(ast, n)
    BY <1>3, <1>4 DEF Namer, Extends
  <2>2. CASE Named(ast, n)
    BY <1>1, <2>2, NamedStays
  <2>3. CASE Nameless(n)
    BY <1>1, <2>3, NamelessStays
  <2>4. CASE Awaited(n)
    BY <1>1, <2>4, AwaitedTakes, NameTaken, NameMissing
  <2>. QED  BY <2>1, <2>2, <2>3, <2>4 DEF NamesInv
<1>5. ASSUME NEW n \in Ids(a), n \notin Ids(ast), Namer(a, n)
      PROVE  Awaited(n)'
  <2>1. a[n].value \in position .. position' - 1 /\ a[n].type = "TOKEN"
    BY <1>1, <1>2, <1>5, StepTokens DEF NewNodes, Namer
  <2>2. position' # position /\ ast' # ast
    BY <1>2, <1>5, <2>1 DEF PInv
  <2>3. CASE ~ StatementToken
    <3>1. position' = position + 1 /\ tokens[position] \notin NAMERS
      BY <2>2, <2>3, OthersTake
    <3>2. a[n].value = position
      BY <2>1, <3>1 DEF PInv
    <3>. QED  BY <1>5, <3>1, <3>2 DEF Namer
  <2>4. CASE StatementToken
    <3>1. position' = position + 1 /\ ast' = WithToken /\ Running /\ ~ Done
      BY <2>4 DEF StatementToken, InForm, In, Expect
    <3>2. a[n].value = position
      BY <2>1, <3>1 DEF PInv
    <3>3. Len(a) = Len(ast) + 1
      BY <1>2, <3>1, TokenAdded
    <3>4. n = Len(a)
      BY <1>3, <1>5, <3>3 DEF Ids
    <3>5. tokens[position] \in NAMERS
      BY <1>5, <3>2 DEF Namer
    <3>. QED  BY <1>2, <2>4, <3>2, <3>4, <3>5, NamerTaken
  <2>. QED  BY <2>3, <2>4
<1>6. \A n \in Ids(a) : Namer(a, n) => Named(ast, n)' \/ Awaited(n)' \/ Nameless(n)'
  BY <1>4, <1>5
<1>7. \A n : Namer(ast, n)' <=> Namer(a, n)
  BY <1>1, <1>2, Zenon DEF Namer
<1>8. \A n \in Ids(ast') : Namer(ast, n)' => Named(ast, n)' \/ Awaited(n)' \/ Nameless(n)'
  BY <1>2, <1>6, <1>7
<1>. QED  BY <1>8 DEF NamesInv

LEMMA InitOInv == ASSUME Init PROVE OInv
<1>1. SpineInv(ast, stack)
  BY InitSpine
<1>2. stack = <<Frame("STAR", Head_, "none")>> /\ ast = <<GrammarNode("PROGRAM")>>
  BY DEF Init, Start
<1>3. stack # <<>> /\ stack[1].fn = "STAR"
  BY <1>2 DEF Frame
<1>4. NamesInv
  <2>1. Len(ast) = 1 /\ ast[1].type = "GRAMMAR"
    BY <1>2 DEF GrammarNode
  <2>2. \A n \in Ids(ast) : n = 1
    BY <2>1 DEF Ids
  <2>. QED  BY <2>1, <2>2 DEF NamesInv, Namer
<1>. QED  BY <1>1, <1>3, <1>4 DEF OInv, RootInv, EndInv

LEMMA StepOInv == PInv /\ OInv /\ [Next]_vars => OInv'
<1>. SUFFICES ASSUME PInv, OInv, [Next]_vars PROVE OInv'
  OBVIOUS
<1>1. CASE Next /\ ~ Finished
  <2>1. SpineInv(ast', stack') /\ RootInv(stack')
    BY <1>1, NextMoves, StepSpine, RootKept DEF OInv
  <2>2. EndInv' /\ NamesInv'
    BY <1>1, EndKept, StepNames DEF OInv
  <2>. QED  BY <2>1, <2>2 DEF OInv
<1>2. CASE UNCHANGED vars
  <2>1. /\ tokens' = tokens /\ position' = position /\ ast' = ast /\ stack' = stack
        /\ ret' = ret /\ errors' = errors /\ skipped' = skipped
    BY <1>2 DEF vars
  <2>2. EndInv'
    BY <2>1 DEF OInv, EndInv, Done
  <2>3. \A n : /\ Awaited(n)' <=> Awaited(n)
               /\ Nameless(n)' <=> Nameless(n)
               /\ Namer(ast, n)' <=> Namer(ast, n)
               /\ Named(ast, n)' <=> Named(ast, n)
    BY <2>1, Zenon DEF Awaited, Nameless, Namer, Named, In, Running, Top
  <2>4. NamesInv'
    BY <2>1, <2>3 DEF OInv, NamesInv
  <2>. QED  BY <2>1, <2>2, <2>4 DEF OInv
<1>. QED  BY <1>1, <1>2 DEF Finished

\* What is left when the parser is done: the tree is numbered as a traversal
\* visits it, all input is read, and a token that a name should follow has the
\* name as its next sibling, or an error is reported and no name is there.
Ended ==
  /\ \E end, par : Numbered(ast, end, par)
  /\ position = Len(tokens) + 1
  /\ \A n \in Ids(ast) : Namer(ast, n) =>
       \/ Named(ast, n)
       \/ /\ errors # <<>>
          /\ ast[n].next_sibling = NO_NODE
          /\ ast[n].value + 1 \in 1 .. Len(tokens) => tokens[ast[n].value + 1] # "IDENT"

LEMMA ParserEnds == PInv /\ OInv /\ stack = <<>> => Ended
<1>. SUFFICES ASSUME PInv, OInv, stack = <<>> PROVE Ended
  OBVIOUS
<1>1. \E end, par : Numbered(ast, end, par)
  BY DEF OInv, SpineInv, NumberedOpen
<1>2. position = Len(tokens) + 1
  BY DEF OInv, EndInv, Done, PInv
<1>3. \A n : ~ Awaited(n)
  BY DEF Awaited, In, Running
<1>. QED  BY <1>1, <1>2, <1>3 DEF OInv, NamesInv, Nameless, Closed, Ended

\* On every input the parser ends with all of it read, in a tree whose nodes
\* are numbered in the order of a traversal, and every LET, LABEL, GOTO and
\* INPUT in it has its name beside it or its error reported
\* (parser.c:232-375).
THEOREM FinishedTree == Spec => [](stack = <<>> => Ended)
<1>1. PInv /\ OInv => (stack = <<>> => Ended)
  BY ParserEnds
<1>2. Spec => []OInv
  BY InitOInv, StepOInv, AlwaysPInv, PTL DEF Spec
<1>. QED  BY <1>1, <1>2, AlwaysPInv, PTL

-----------------------------------------------------------------------------
(***************************************************************************)
(* Which statement a name belongs to, for every input: the last one that   *)
(* was begun before it.  A statement and the functions it calls for an     *)
(* expression add to the tree only while no other statement has been begun *)
(* since (Opening), and every function that has not yet added anything     *)
(* runs on the last node of the tree (Waiting).                            *)
(***************************************************************************)
EXPRESSIONS == {"COMPARISON", "EXPRESSION", "TERM", "UNARY", "PRIMARY"}

\* The nodes above each node.
Ancestry(a, anc) ==
  /\ anc \in [Ids(a) -> SUBSET Ids(a)]
  /\ anc[Head_] = {}
  /\ \A n \in Ids(a) :
       /\ a[n].first_child # NO_NODE => anc[a[n].first_child] = anc[n] \cup {n}
       /\ a[n].last_child # NO_NODE => anc[a[n].last_child] = anc[n] \cup {n}
       /\ a[n].next_sibling # NO_NODE => anc[a[n].next_sibling] = anc[n]

LastStatement(a, s) ==
  s \in Ids(a) /\ IsStatement(a, s) /\ \A m \in Ids(a) : m > s => ~ IsStatement(a, m)

\* A function that may still add a name: no statement begins below a statement
\* but in its block.
Opening(f) ==
  \/ f.fn \in EXPRESSIONS
  \/ f.fn = "STATEMENT" /\ ~ (f.kw \in {"IF", "WHILE"} /\ f.at > 3)

OwnsAt(a, anc, f) == Opening(f) => \E s \in anc[f.node] \cup {f.node} : LastStatement(a, s)

IdentNode(a, tk, n) == a[n].type = "TOKEN" /\ tk[a[n].value] = "IDENT"

\* The innermost statement around a name is the last one before it.
Owned(a, anc, n) ==
  \E s \in anc[n] :
    /\ s < n /\ IsStatement(a, s)
    /\ \A m \in Ids(a) : s < m /\ m < n => ~ IsStatement(a, m)

IdentsOwned(a, anc, tk) == \A n \in Ids(a) : IdentNode(a, tk, n) => Owned(a, anc, n)

FramesOwn(a, anc, st) == \A d \in 1 .. Len(st) : OwnsAt(a, anc, st[d])

OwnersInv(a, st, tk) ==
  \E anc : Ancestry(a, anc) /\ FramesOwn(a, anc, st) /\ IdentsOwned(a, anc, tk)

NamerIn(a, tk, n) == a[n].type = "TOKEN" /\ tk[a[n].value] \in NAMERS

\* Where the nodes of keywords and names are: a keyword is the first child of
\* its statement, a name is the only child of a PRIMARY or follows a keyword.
Placed(a, tk, n) ==
  /\ tk[a[n].value] \in STATEMENT_START_KEYWORDS =>
       n - 1 \in Ids(a) /\ IsStatement(a, n - 1) /\ a[n - 1].first_child = n
  /\ tk[a[n].value] = "IDENT" =>
       /\ n - 1 \in Ids(a)
       /\ \/ a[n - 1].type = "GRAMMAR" /\ a[n - 1].value = "PRIMARY" /\ a[n - 1].first_child = n
          \/ NamerIn(a, tk, n - 1) /\ a[n - 1].next_sibling = n

PlacesInv(a, tk) == \A n \in Ids(a) : a[n].type = "TOKEN" => Placed(a, tk, n)

Waiting(f) ==
  /\ f.fn \notin LOOPS
  /\ f.at = 1 \/ (f.fn = "STATEMENT" /\ f.at = 2 /\ f.kw \in NAMERS)

WaitingInv(a, st, r, tk) ==
  \A d \in 1 .. Len(st) : Waiting(st[d]) =>
    /\ d = Len(st)
    /\ st[d].fn = "STATEMENT" => r = "none"
    /\ st[d].at = 1 =>
         st[d].node = Len(a) /\ a[Len(a)].type = "GRAMMAR" /\ a[Len(a)].value = st[d].fn
    /\ st[d].at = 2 => NamerIn(a, tk, Len(a)) /\ a[st[d].node].last_child = Len(a)

OpeningInv(st) ==
  /\ \A d, e \in 1 .. Len(st) : d < e /\ Opening(st[d]) => st[e].fn \in EXPRESSIONS
  /\ \A d \in 1 .. Len(st) : st[d].fn = "STATEMENT" => st[d].kw \in STATEMENT_START_KEYWORDS

-----------------------------------------------------------------------------
LEMMA AncestryGrows ==
  ASSUME NEW a, NEW b, NEW p, NEW last, AddsLink(b, a, p, last), IsTree(a),
         NEW anc, Ancestry(a, anc), NEW k, k = Len(a) + 1
  PROVE  \E up : /\ Ancestry(b, up)
                 /\ \A n \in Ids(a) : up[n] = anc[n]
                 /\ up[k] = anc[p] \cup {p}
<1>1. /\ Len(a) \in Nat /\ k \in Nat /\ Ids(a) = 1 .. Len(a) /\ Ids(b) = 1 .. k
      /\ p \in Ids(a) /\ k \notin Ids(a) /\ k # 0 /\ Ids(b) = Ids(a) \cup {k}
      /\ NO_NODE = 0 /\ Head_ = 1 /\ 1 \in Ids(a)
  BY DEF AddsLink, Ids, NO_NODE, Head_
<1>2. /\ \A i \in Ids(a) :
           /\ b[i].first_child = IF i = p /\ last = 0 THEN k ELSE a[i].first_child
           /\ b[i].last_child = IF i = p THEN k ELSE a[i].last_child
           /\ b[i].next_sibling = IF i = last /\ last # 0 THEN k ELSE a[i].next_sibling
      /\ b[k].first_child = 0 /\ b[k].last_child = 0 /\ b[k].next_sibling = 0
      /\ last = a[p].last_child
  BY DEF AddsLink, Ids, Fresh, NO_NODE
<1>3. \A i \in Ids(a) :
        /\ a[i].first_child # 0 => a[i].first_child \in Ids(a)
        /\ a[i].last_child # 0 => a[i].last_child \in Ids(a)
        /\ a[i].next_sibling # 0 => a[i].next_sibling \in Ids(a)
  BY <1>1 DEF IsTree, LinksForward, NO_NODE
<1>4. /\ anc \in [Ids(a) -> SUBSET Ids(a)] /\ anc[1] = {}
      /\ \A n \in Ids(a) :
           /\ a[n].first_child # 0 => anc[a[n].first_child] = anc[n] \cup {n}
           /\ a[n].last_child # 0 => anc[a[n].last_child] = anc[n] \cup {n}
           /\ a[n].next_sibling # 0 => anc[a[n].next_sibling] = anc[n]
  BY <1>1 DEF Ancestry
<1>5. PICK up : up = [n \in Ids(b) |-> IF n = k THEN anc[p] \cup {p} ELSE anc[n]]
  OBVIOUS
<1>6. /\ up \in [Ids(b) -> SUBSET Ids(b)] /\ up[k] = anc[p] \cup {p}
      /\ \A n \in Ids(a) : up[n] = anc[n]
  BY <1>1, <1>4, <1>5
<1>7. ASSUME NEW n \in Ids(a)
      PROVE  /\ b[n].first_child # 0 => up[b[n].first_child] = up[n] \cup {n}
             /\ b[n].last_child # 0 => up[b[n].last_child] = up[n] \cup {n}
             /\ b[n].next_sibling # 0 => up[b[n].next_sibling] = up[n]
  <2>1. b[n].first_child # 0 => up[b[n].first_child] = up[n] \cup {n}
    BY <1>2, <1>3, <1>4, <1>6
  <2>2. b[n].last_child # 0 => up[b[n].last_child] = up[n] \cup {n}
    BY <1>2, <1>3, <1>4, <1>6
  <2>3. b[n].next_sibling # 0 => up[b[n].next_sibling] = up[n]
    <3>1. CASE n = last /\ last # 0
      <4>1. a[p].last_child # 0 /\ a[p].last_child = n
        BY <1>2, <3>1
      <4>2. anc[n] = anc[p] \cup {p}
        BY <1>1, <1>4, <4>1
      <4>3. b[n].next_sibling = k /\ up[n] = anc[n]
        BY <1>2, <1>6, <3>1
      <4>. QED  BY <1>6, <4>2, <4>3
    <3>2. CASE ~ (n = last /\ last # 0)
      BY <1>2, <1>3, <1>4, <1>6, <3>2
    <3>. QED  BY <3>1, <3>2
  <2>. QED  BY <2>1, <2>2, <2>3
<1>8. Ancestry(b, up)
  BY <1>1, <1>2, <1>4, <1>6, <1>7 DEF Ancestry
<1>. QED  BY <1>6, <1>8

\* A node that begins no statement is added by a function that is running.
LEMMA NodeOwned ==
  ASSUME NEW a, NEW b, NEW p, NEW last, AddsLink(b, a, p, last), Extends(b, a), IsTree(a),
         NEW tk, NEW k, k = Len(a) + 1, ~ IsStatement(b, k),
         NEW st, Len(st) \in Nat, \A d \in 1 .. Len(st) : st[d].node \in Ids(a),
         NEW t \in 1 .. Len(st), st[t].node = p, IdentNode(b, tk, k) => Opening(st[t]),
         OwnersInv(a, st, tk)
  PROVE  \E up : /\ Ancestry(b, up) /\ FramesOwn(b, up, st) /\ IdentsOwned(b, up, tk)
                 /\ Opening(st[t]) => \E s \in up[k] : LastStatement(b, s)
<1>1. PICK anc : Ancestry(a, anc) /\ FramesOwn(a, anc, st) /\ IdentsOwned(a, anc, tk)
  BY DEF OwnersInv
<1>2. PICK up : /\ Ancestry(b, up) /\ \A n \in Ids(a) : up[n] = anc[n]
                /\ up[k] = anc[p] \cup {p}
  BY <1>1, AncestryGrows
<1>3. /\ Len(a) \in Nat /\ k \in Nat /\ Ids(a) = 1 .. Len(a) /\ Ids(b) = Ids(a) \cup {k} /\ k \notin Ids(a)
      /\ \A n \in Ids(a) : b[n].type = a[n].type /\ b[n].value = a[n].value /\ n \in Nat /\ n < k
  BY DEF AddsLink, Ids, Extends
<1>4. \A n \in Ids(a) : IsStatement(b, n) <=> IsStatement(a, n)
  BY <1>3 DEF IsStatement
<1>5. \A s : LastStatement(a, s) => LastStatement(b, s)
  BY <1>3, <1>4 DEF LastStatement
<1>6. FramesOwn(b, up, st)
  BY <1>1, <1>2, <1>5 DEF FramesOwn, OwnsAt
<1>7. Opening(st[t]) => \E s \in up[k] : LastStatement(b, s)
  BY <1>1, <1>2, <1>5 DEF FramesOwn, OwnsAt
<1>8. ASSUME NEW n \in Ids(b), IdentNode(b, tk, n) PROVE Owned(b, up, n)
  <2>1. CASE n = k
    <3>1. PICK s \in up[k] : LastStatement(b, s)
      BY <1>7, <1>8, <2>1
    <3>2. s # k
      BY <3>1 DEF LastStatement
    <3>. QED  BY <1>3, <2>1, <3>1, <3>2 DEF LastStatement, Owned
  <2>2. CASE n # k
    <3>1. n \in Ids(a) /\ IdentNode(a, tk, n)
      BY <1>3, <1>8, <2>2 DEF IdentNode
    <3>2. Owned(a, anc, n)
      BY <1>1, <3>1 DEF IdentsOwned
    <3>3. PICK s \in anc[n] : /\ s < n /\ IsStatement(a, s)
                              /\ \A m \in Ids(a) : s < m /\ m < n => ~ IsStatement(a, m)
      BY <3>2 DEF Owned
    <3>4. s \in Ids(a)
      BY <1>1, <3>1, <3>3 DEF Ancestry
    <3>. QED  BY <1>2, <1>3, <1>4, <3>1, <3>3, <3>4 DEF Owned
  <2>. QED  BY <2>1, <2>2
<1>. QED  BY <1>2, <1>6, <1>7, <1>8 DEF IdentsOwned

\* A node that begins a statement.
LEMMA StatementOwned ==
  ASSUME NEW a, NEW b, NEW p, NEW last, AddsLink(b, a, p, last), Extends(b, a), IsTree(a),
         NEW tk, NEW k, k = Len(a) + 1, IsStatement(b, k),
         NEW st, OwnersInv(a, st, tk)
  PROVE  \E up : Ancestry(b, up) /\ IdentsOwned(b, up, tk) /\ LastStatement(b, k)
<1>1. PICK anc : Ancestry(a, anc) /\ IdentsOwned(a, anc, tk)
  BY DEF OwnersInv
<1>2. PICK up : Ancestry(b, up) /\ \A n \in Ids(a) : up[n] = anc[n]
  BY <1>1, AncestryGrows
<1>3. /\ Len(a) \in Nat /\ k \in Nat /\ Ids(a) = 1 .. Len(a) /\ Ids(b) = Ids(a) \cup {k} /\ k \notin Ids(a)
      /\ \A n \in Ids(a) : b[n].type = a[n].type /\ b[n].value = a[n].value /\ n \in Nat /\ n < k
  BY DEF AddsLink, Ids, Extends
<1>4. \A n \in Ids(a) : IsStatement(b, n) <=> IsStatement(a, n)
  BY <1>3 DEF IsStatement
<1>5. LastStatement(b, k)
  BY <1>3 DEF LastStatement
<1>6. ASSUME NEW n \in Ids(b), IdentNode(b, tk, n) PROVE Owned(b, up, n)
  <2>1. n # k
    BY <1>6 DEF IdentNode, IsStatement
  <2>2. n \in Ids(a) /\ IdentNode(a, tk, n)
    BY <1>3, <1>6, <2>1 DEF IdentNode
  <2>3. Owned(a, anc, n)
    BY <1>1, <2>2 DEF IdentsOwned
  <2>4. PICK s \in anc[n] : /\ s < n /\ IsStatement(a, s)
                            /\ \A m \in Ids(a) : s < m /\ m < n => ~ IsStatement(a, m)
    BY <2>3 DEF Owned
  <2>5. s \in Ids(a)
    BY <1>1, <2>2, <2>4 DEF Ancestry
  <2>. QED  BY <1>2, <1>3, <1>4, <2>2, <2>4, <2>5 DEF Owned
<1>. QED  BY <1>2, <1>5, <1>6 DEF IdentsOwned

\* The nodes that are there stay where they are.
LEMMA PlacesGrow ==
  ASSUME NEW a, NEW b, Extends(b, a), Len(a) \in Nat, NEW k, k = Len(a) + 1, Len(b) = k,
         NEW tk, PlacesInv(a, tk), b[k].type = "TOKEN" => Placed(b, tk, k)
  PROVE  PlacesInv(b, tk)
<1>1. /\ Ids(b) = Ids(a) \cup {k}
      /\ \A n \in Ids(a) : /\ b[n].type = a[n].type /\ b[n].value = a[n].value
                           /\ a[n].first_child # 0 => b[n].first_child = a[n].first_child
                           /\ a[n].next_sibling # 0 => b[n].next_sibling = a[n].next_sibling
  BY DEF Extends, Ids, NO_NODE
<1>2. ASSUME NEW n \in Ids(a), b[n].type = "TOKEN" PROVE Placed(b, tk, n)
  <2>1. Placed(a, tk, n) /\ b[n].value = a[n].value /\ n # 0
    BY <1>1, <1>2 DEF PlacesInv, Ids
  <2>2. PICK m : m = n - 1
    OBVIOUS
  <2>3. m \in Ids(a) => /\ m \in Ids(b) /\ b[m].type = a[m].type /\ b[m].value = a[m].value
                        /\ a[m].first_child = n => b[m].first_child = n
                        /\ a[m].next_sibling = n => b[m].next_sibling = n
    BY <1>1, <2>1
  <2>. QED  BY <2>1, <2>2, <2>3 DEF Placed, IsStatement, NamerIn
<1>. QED  BY <1>1, <1>2 DEF PlacesInv

-----------------------------------------------------------------------------
(***************************************************************************)
(* What a step does to the stack, as far as the owners care.               *)
(***************************************************************************)
UInv(a, st, r, tk) ==
  OwnersInv(a, st, tk) /\ PlacesInv(a, tk) /\ OpeningInv(st) /\ WaitingInv(a, st, r, tk)

NoneWaits(st) == \A d \in 1 .. Len(st) : ~ Waiting(st[d])

\* The same functions, or fewer, and no more of them may add a name.
Within(up, st) ==
  /\ Len(up) \in Nat /\ Len(up) <= Len(st)
  /\ \A d \in 1 .. Len(up) :
       /\ up[d].fn = st[d].fn /\ up[d].node = st[d].node /\ up[d].kw = st[d].kw
       /\ Opening(up[d]) => Opening(st[d])

LEMMA WithinOwns ==
  ASSUME NEW a, NEW tk, NEW st, Len(st) \in Nat, NEW up, Within(up, st)
  PROVE  /\ OwnersInv(a, st, tk) => OwnersInv(a, up, tk)
         /\ OpeningInv(st) => OpeningInv(up)
<1>1. \A d \in 1 .. Len(up) : d \in 1 .. Len(st)
  BY DEF Within
<1>2. \A anc : FramesOwn(a, anc, st) => FramesOwn(a, anc, up)
  BY <1>1 DEF FramesOwn, OwnsAt, Within
<1>3. OwnersInv(a, st, tk) => OwnersInv(a, up, tk)
  BY <1>2 DEF OwnersInv
<1>4. OpeningInv(st) => OpeningInv(up)
  BY <1>1 DEF OpeningInv, Within
<1>. QED  BY <1>3, <1>4

LEMMA NoneWaitsEnough == \A a, st, r, tk : NoneWaits(st) => WaitingInv(a, st, r, tk)
BY DEF NoneWaits, WaitingInv

\* The frames below the running one wait for nothing.
LEMMA BelowWaits ==
  ASSUME PInv, Running, WaitingInv(ast, stack, ret, tokens)
  PROVE  NoneWaits(Below) /\ Within(Below, stack)
<1>1. /\ Len(stack) \in Nat \ {0} /\ Len(Below) = Len(stack) - 1
      /\ \A d \in 1 .. Len(stack) - 1 : Below[d] = stack[d]
  BY BelowAt
<1>2. \A d \in 1 .. Len(Below) : d \in 1 .. Len(stack) /\ d # Len(stack) /\ Below[d] = stack[d]
  BY <1>1
<1>3. NoneWaits(Below)
  BY <1>2 DEF NoneWaits, WaitingInv
<1>. QED  BY <1>1, <1>2, <1>3 DEF Within

LEMMA ResumeAt ==
  ASSUME PInv, Running, NEW place \in Nat \ {0}, NEW up, up = Resume(place)
  PROVE  /\ Len(stack) \in Nat \ {0} /\ Len(up) = Len(stack) /\ up \in Seq(FrameSet)
         /\ \A d \in 1 .. Len(stack) - 1 : up[d] = stack[d] /\ up[d] = Below[d]
         /\ up[Len(stack)].fn = Top.fn /\ up[Len(stack)].kw = Top.kw
         /\ up[Len(stack)].node = Top.node /\ up[Len(stack)].at = place
<1>1. PICK f : f = [Top EXCEPT !.at = place]
  OBVIOUS
<1>2. Top \in FrameSet
  BY TopFrame DEF PInv
<1>3. f \in FrameSet /\ f.fn = Top.fn /\ f.kw = Top.kw /\ f.node = Top.node /\ f.at = place
  BY <1>1, <1>2 DEF FrameSet
<1>4. /\ Below \in Seq(FrameSet) /\ up = Append(Below, f)
      /\ Len(stack) \in Nat \ {0} /\ Len(Below) = Len(stack) - 1
      /\ \A d \in 1 .. Len(stack) - 1 : Below[d] = stack[d]
  BY <1>1, BelowAt DEF Resume
<1>5. PICK m : m = Len(stack)
  OBVIOUS
<1>6. Len(up) = m /\ up[m] = f /\ up \in Seq(FrameSet) /\ \A d \in 1 .. m - 1 : up[d] = Below[d]
  BY <1>3, <1>4, <1>5
<1>. QED  BY <1>3, <1>4, <1>5, <1>6

\* A function goes on at a later place.
LEMMA ResumeWithin ==
  ASSUME PInv, Running, WaitingInv(ast, stack, ret, tokens), NEW place \in Nat \ {0}, place >= Top.at,
         NEW up, up = Resume(place)
  PROVE  /\ Within(up, stack)
         /\ \/ Top.fn \in LOOPS
            \/ place >= 3 \/ (place = 2 /\ ~ (Top.fn = "STATEMENT" /\ Top.kw \in NAMERS))
            => NoneWaits(up)
         /\ \A d \in 1 .. Len(up) - 1 : ~ Waiting(up[d])
<1>1. PICK m : m = Len(stack)
  OBVIOUS
<1>2. /\ m \in Nat \ {0} /\ Len(up) = m
      /\ \A d \in 1 .. m - 1 : up[d] = stack[d] /\ up[d] = Below[d]
      /\ up[m].fn = Top.fn /\ up[m].kw = Top.kw /\ up[m].node = Top.node /\ up[m].at = place
  BY <1>1, ResumeAt
<1>3. Top = stack[m] /\ Top.at \in Nat
  BY <1>1, TopFrame DEF Top, PInv, FrameSet
<1>4. Opening(up[m]) => Opening(stack[m])
  BY <1>2, <1>3 DEF Opening
<1>5. Within(up, stack)
  <2>1. \A d \in 1 .. m : d \in 1 .. m - 1 \/ d = m
    BY <1>2
  <2>. QED  BY <1>1, <1>2, <1>3, <1>4, <2>1 DEF Within
<1>6. \A d \in 1 .. m - 1 : ~ Waiting(up[d])
  <2>1. NoneWaits(Below) /\ Len(Below) = m - 1
    BY <1>1, BelowWaits, BelowAt
  <2>. QED  BY <1>2, <2>1 DEF NoneWaits
<1>7. \/ Top.fn \in LOOPS
      \/ place >= 3 \/ (place = 2 /\ ~ (Top.fn = "STATEMENT" /\ Top.kw \in NAMERS))
      => ~ Waiting(up[m])
  BY <1>2 DEF Waiting
<1>8. \A d \in 1 .. m : d \in 1 .. m - 1 \/ d = m
  BY <1>2
<1>. QED  BY <1>2, <1>5, <1>6, <1>7, <1>8 DEF NoneWaits

\* A function is called that adds its node to the tree.
LEMMA PushOwns ==
  ASSUME NEW a, NEW b, NEW p, NEW last, AddsLink(b, a, p, last), Extends(b, a), IsTree(a),
         NEW tk, NEW k, k = Len(a) + 1,
         NEW st \in Seq(FrameSet), \A d \in 1 .. Len(st) : st[d].node \in Ids(a),
         NEW t, t = Len(st), t # 0, st[t].node = p, Opening(st[t]),
         NEW f \in FrameSet, f.fn \in EXPRESSIONS, f.node = k, f.at = 1,
         b[k].type = "GRAMMAR", b[k].value = f.fn,
         OwnersInv(a, st, tk), PlacesInv(a, tk), OpeningInv(st), NoneWaits(st)
  PROVE  UInv(b, Append(st, f), "none", tk)
<1>1. PICK new : new = Append(st, f)
  OBVIOUS
<1>2. /\ t \in 1 .. Len(st) /\ Len(st) = t /\ t \in Nat /\ t + 1 \in Nat /\ Len(new) = t + 1 /\ new[t + 1] = f
      /\ \A d \in 1 .. t : new[d] = st[d]
      /\ \A d \in 1 .. t + 1 : d \in 1 .. t \/ d = t + 1
      /\ \A d \in 1 .. t : d < t + 1
  BY <1>1
<1>3. Len(a) \in Nat /\ Len(b) = k /\ k \in Nat
  BY DEF AddsLink
<1>4. ~ IsStatement(b, k) /\ ~ IdentNode(b, tk, k)
  BY DEF IsStatement, IdentNode, EXPRESSIONS
<1>5. PICK anc : /\ Ancestry(b, anc) /\ FramesOwn(b, anc, st) /\ IdentsOwned(b, anc, tk)
                 /\ \E s \in anc[k] : LastStatement(b, s)
  BY <1>2, <1>4, NodeOwned
<1>6. FramesOwn(b, anc, new)
  <2>1. OwnsAt(b, anc, f)
    BY <1>5 DEF OwnsAt
  <2>2. \A d \in 1 .. t : OwnsAt(b, anc, new[d])
    BY <1>2, <1>5 DEF FramesOwn
  <2>. QED  BY <1>2, <2>1, <2>2 DEF FramesOwn
<1>7. OwnersInv(b, new, tk)
  BY <1>5, <1>6 DEF OwnersInv
<1>8. PlacesInv(b, tk)
  BY <1>3, PlacesGrow
<1>9. OpeningInv(new)
  <2>1. ASSUME NEW d \in 1 .. t + 1, NEW e \in 1 .. t + 1, d < e, Opening(new[d])
        PROVE  new[e].fn \in EXPRESSIONS
    <3>1. CASE e = t + 1
      BY <1>2, <3>1
    <3>2. CASE e # t + 1
      <4>1. e \in 1 .. t /\ d \in 1 .. t
        BY <1>2, <2>1, <3>2
      <4>. QED  BY <1>2, <2>1, <4>1 DEF OpeningInv
    <3>. QED  BY <3>1, <3>2
  <2>2. ASSUME NEW d \in 1 .. t + 1, new[d].fn = "STATEMENT"
        PROVE  new[d].kw \in STATEMENT_START_KEYWORDS
    <3>1. d \in 1 .. t
      BY <1>2, <2>2 DEF EXPRESSIONS
    <3>. QED  BY <1>2, <2>2, <3>1 DEF OpeningInv
  <2>. QED  BY <1>2, <2>1, <2>2 DEF OpeningInv
<1>10. WaitingInv(b, new, "none", tk)
  <2>1. \A d \in 1 .. t : ~ Waiting(new[d])
    BY <1>2 DEF NoneWaits
  <2>2. f.at # 2
    OBVIOUS
  <2>. QED  BY <1>2, <1>3, <2>1, <2>2 DEF WaitingInv
<1>. QED  BY <1>1, <1>7, <1>8, <1>9, <1>10 DEF UInv

\* The current token is added by the running function.
LEMMA TokenOwns ==
  ASSUME PInv, Running, ~ Done, UInv(ast, stack, ret, tokens), NEW up, Within(up, stack),
         Placed(WithToken, tokens, Len(ast) + 1), tokens[position] = "IDENT" => Opening(Top)
  PROVE  OwnersInv(WithToken, up, tokens) /\ PlacesInv(WithToken, tokens) /\ OpeningInv(up)
<1>1. PICK b, k, m : b = WithToken /\ k = Len(ast) + 1 /\ m = Len(stack)
  OBVIOUS
<1>2. /\ Len(ast) \in Nat /\ Len(b) = k /\ b[k].type = "TOKEN" /\ b[k].value = position
  BY <1>1, TokenAdded
<1>3. AddsLink(b, ast, Top.node, ast[Top.node].last_child) /\ Extends(b, ast) /\ IsTree(ast)
  BY <1>1, TokenLinks, TokenStep DEF PInv, TreeInv
<1>4. /\ m \in Nat \ {0} /\ m \in 1 .. m /\ stack[m] = Top
      /\ \A d \in 1 .. m : stack[d].node \in Ids(ast)
  BY <1>1, TopFrame DEF PInv, StackOK, IsGrammar, Ids, Top
<1>5. ~ IsStatement(b, k) /\ (IdentNode(b, tokens, k) => Opening(stack[m]))
  BY <1>2, <1>4 DEF IsStatement, IdentNode
<1>6. OwnersInv(ast, stack, tokens) /\ PlacesInv(ast, tokens) /\ OpeningInv(stack)
  BY DEF UInv
<1>7. PICK p, last : p = Top.node /\ last = ast[p].last_child
  OBVIOUS
<1>8. OwnersInv(b, stack, tokens)
  <2>1. AddsLink(b, ast, p, last) /\ stack[m].node = p
    BY <1>3, <1>4, <1>7
  <2>. QED  BY <1>1, <1>3, <1>4, <1>5, <1>6, <2>1, NodeOwned DEF OwnersInv
<1>9. PlacesInv(b, tokens)
  BY <1>1, <1>2, <1>3, <1>6, PlacesGrow
<1>. QED  BY <1>1, <1>4, <1>6, <1>8, <1>9, WithinOwns

-----------------------------------------------------------------------------
LEMMA GrammarLinks ==
  ASSUME NEW a, NEW pos, NEW sk, NEW N, TreeInv(a, pos, sk, N), NEW p, IsGrammar(a, p),
         NEW g \in GRAMMAR_TYPE
  PROVE  AddsLink(AddGrammar(a, p, g), a, p, a[p].last_child)
<1>1. PICK node : node = GrammarNode(g)
  OBVIOUS
<1>2. node \in NodesOver(Values) /\ Fresh(node) /\ AddGrammar(a, p, g) = AddChild(a, p, node)
  BY <1>1, FreshNodes DEF AddGrammar
<1>. QED  BY <1>2, AddChildLinks DEF TreeInv

LEMMA CallOwns ==
  ASSUME PInv, Running, UInv(ast, stack, ret, tokens), NEW fn \in EXPRESSIONS,
         NEW place \in Nat \ {0}, place >= Top.at,
         place >= 3 \/ (place = 2 /\ ~ (Top.fn = "STATEMENT" /\ Top.kw \in NAMERS)),
         \/ Top.fn \in EXPRESSIONS
         \/ Top.fn = "STATEMENT" /\ (Top.kw \notin {"IF", "WHILE"} \/ place <= 3),
         NEW tree, NEW pos, TreeInv(tree, pos, skipped, Len(tokens)), Extends(tree, ast),
         IsGrammar(tree, Top.node),
         \A up : Within(up, stack) =>
           OwnersInv(tree, up, tokens) /\ PlacesInv(tree, tokens) /\ OpeningInv(up),
         Call(fn, place, tree, pos)
  PROVE  UInv(ast', stack', ret', tokens)
<1>1. PICK up, m : up = Resume(place) /\ m = Len(stack)
  OBVIOUS
<1>2. Within(up, stack) /\ NoneWaits(up)
  BY <1>1, ResumeWithin DEF UInv
<1>3. OwnersInv(tree, up, tokens) /\ PlacesInv(tree, tokens) /\ OpeningInv(up)
  BY <1>2
<1>4. CASE pos > Len(tokens)
  <2>1. ast' = tree /\ stack' = up
    BY <1>1, <1>4 DEF Call
  <2>. QED  BY <1>2, <1>3, <2>1, NoneWaitsEnough DEF UInv
<1>5. CASE ~ (pos > Len(tokens))
  <2>1. PICK b, k, f : b = AddGrammar(tree, Top.node, fn) /\ k = Len(tree) + 1
                       /\ f = Frame(fn, k, "none")
    OBVIOUS
  <2>2. ast' = b /\ stack' = Append(up, f) /\ ret' = "none"
    BY <1>1, <1>5, <2>1 DEF Call
  <2>3. fn \in GRAMMAR_TYPE /\ Len(tree) \in Nat
    BY TreeLen DEF EXPRESSIONS, GRAMMAR_TYPE
  <2>4. f \in FrameSet /\ f.fn = fn /\ f.node = k /\ f.at = 1
    BY <2>1, <2>3, FrameInSet DEF Frame
  <2>5. PICK p, last : p = Top.node /\ last = tree[p].last_child
    OBVIOUS
  <2>6. AddsLink(b, tree, p, last)
    BY <2>1, <2>3, <2>5, GrammarLinks
  <2>7. Extends(b, tree) /\ IsTree(tree) /\ b[k].type = "GRAMMAR" /\ b[k].value = fn
    <3>1. Len(tokens) \in Nat
      BY DEF PInv
    <3>. QED  BY <2>1, <2>3, <3>1, GrowGrammar, GrammarAdded DEF TreeInv
  <2>8. /\ up \in Seq(FrameSet) /\ Len(up) = m /\ m \in Nat \ {0} /\ up[m].node = p
        /\ up[m].fn = Top.fn /\ up[m].kw = Top.kw /\ up[m].at = place
    BY <1>1, <2>5, ResumeAt
  <2>9. Opening(up[m])
    BY <2>8 DEF Opening
  <2>10. \A d \in 1 .. Len(up) : up[d].node \in Ids(tree)
    <3>1. \A d \in 1 .. m : stack[d].node \in Ids(ast)
      BY <1>1 DEF PInv, StackOK, IsGrammar, Ids
    <3>2. Ids(ast) \subseteq Ids(tree)
      BY <2>3, TreeLens DEF Extends, Ids
    <3>. QED  BY <1>2, <2>8, <3>1, <3>2 DEF Within
  <2>11. m = Len(up) /\ m # 0
    BY <2>8
  <2>12. UInv(b, Append(up, f), "none", tokens)
    BY <1>2, <1>3, <2>1, <2>4, <2>6, <2>7, <2>8, <2>9, <2>10, <2>11, PushOwns
  <2>. QED  BY <2>2, <2>12
<1>. QED  BY <1>4, <1>5

\* Everything but the current token is as it was.
LEMMA SameOwns ==
  ASSUME PInv, UInv(ast, stack, ret, tokens), NEW up, Within(up, stack)
  PROVE  OwnersInv(ast, up, tokens) /\ PlacesInv(ast, tokens) /\ OpeningInv(up)
<1>1. Len(stack) \in Nat
  BY DEF PInv, StackOK
<1>. QED  BY <1>1, WithinOwns DEF UInv

\* A token that is neither a keyword nor a name may be anywhere.
LEMMA PlainPlaced ==
  ASSUME PInv, Running, ~ Done, tokens[position] \notin STATEMENT_START_KEYWORDS \cup {"IDENT"}
  PROVE  Placed(WithToken, tokens, Len(ast) + 1)
BY TokenAdded DEF Placed

LEMMA CallPlainOwns ==
  ASSUME PInv, Running, UInv(ast, stack, ret, tokens), NEW fn \in EXPRESSIONS,
         NEW place \in Nat \ {0}, place >= Top.at,
         place >= 3 \/ (place = 2 /\ ~ (Top.fn = "STATEMENT" /\ Top.kw \in NAMERS)),
         \/ Top.fn \in EXPRESSIONS
         \/ Top.fn = "STATEMENT" /\ (Top.kw \notin {"IF", "WHILE"} \/ place <= 3),
         Call(fn, place, ast, position)
  PROVE  UInv(ast', stack', ret', tokens)
<1>1. Extends(ast, ast)
  BY ExtendsReflexive DEF PInv, TreeInv
<1>2. IsGrammar(ast, Top.node)
  BY TopFrame DEF PInv
<1>3. TreeInv(ast, position, skipped, Len(tokens))
  BY DEF PInv
<1>. QED  BY <1>1, <1>2, <1>3, SameOwns, CallOwns

LEMMA CallTokenOwns ==
  ASSUME PInv, Running, ~ Done, UInv(ast, stack, ret, tokens), NEW fn \in EXPRESSIONS,
         NEW place \in Nat \ {0}, place >= Top.at, place >= 2, Top.fn \in EXPRESSIONS,
         tokens[position] \notin STATEMENT_START_KEYWORDS \cup {"IDENT"},
         Call(fn, place, WithToken, position + 1)
  PROVE  UInv(ast', stack', ret', tokens)
<1>1. \A up : Within(up, stack) =>
        OwnersInv(WithToken, up, tokens) /\ PlacesInv(WithToken, tokens) /\ OpeningInv(up)
  BY PlainPlaced, TokenOwns
<1>2. place >= 3 \/ (place = 2 /\ ~ (Top.fn = "STATEMENT" /\ Top.kw \in NAMERS))
  BY DEF EXPRESSIONS
<1>. QED  BY <1>1, <1>2, TokenStep, CallOwns

\* A function returns, and the tree is as it was.
LEMMA ReturnOwns ==
  ASSUME PInv, Running, UInv(ast, stack, ret, tokens), NEW r, Return(r), ast' = ast
  PROVE  UInv(ast', stack', ret', tokens)
<1>1. stack' = Below /\ NoneWaits(Below) /\ Within(Below, stack)
  BY BelowWaits DEF UInv, Return
<1>. QED  BY <1>1, SameOwns, NoneWaitsEnough DEF UInv

LEMMA PrimaryOwns ==
  ASSUME PInv, UInv(ast, stack, ret, tokens), ParsePrimary
  PROVE  UInv(ast', stack', ret', tokens)
<1>1. Running /\ Top.fn = "PRIMARY" /\ Top.at = 1
  BY DEF ParsePrimary, At, In
<1>2. CASE Expect({"NUMBER", "IDENT"}) /\ ast' = WithToken /\ Return("true")
  <2>1. ~ Done /\ tokens[position] \in {"NUMBER", "IDENT"} /\ stack' = Below
    BY <1>2 DEF Expect, Return
  <2>2. NoneWaits(Below) /\ Within(Below, stack)
    BY <1>1, BelowWaits DEF UInv
  <2>3. PICK k, b, m : k = Len(ast) + 1 /\ b = WithToken /\ m = Len(stack)
    OBVIOUS
  <2>4. m \in Nat \ {0} /\ stack[m] = Top /\ m \in 1 .. m
    BY <1>1, <2>3, TopFrame DEF Top, PInv
  <2>5. Waiting(stack[m])
    BY <1>1, <2>4 DEF Waiting, LOOPS
  <2>6. Top.node = Len(ast) /\ ast[Len(ast)].type = "GRAMMAR" /\ ast[Len(ast)].value = "PRIMARY"
    BY <1>1, <2>3, <2>4, <2>5 DEF UInv, WaitingInv
  <2>7. /\ Len(ast) \in Nat /\ Len(b) = k /\ b[k].value = position
        /\ b[Len(ast)].first_child = k
    BY <1>1, <2>1, <2>3, <2>6, TokenAdded
  <2>8. Len(ast) \in Ids(ast) /\ Len(ast) \in Ids(b) /\ k - 1 = Len(ast)
    <3>1. Len(ast) \in Nat \ {0}
      BY TreeLen DEF PInv
    <3>. QED  BY <2>3, <2>7, <3>1 DEF Ids
  <2>9. b[Len(ast)].type = "GRAMMAR" /\ b[Len(ast)].value = "PRIMARY"
    <3>1. Extends(b, ast)
      BY <1>1, <2>1, <2>3, TokenStep
    <3>. QED  BY <2>6, <2>8, <3>1 DEF Extends
  <2>10. tokens[b[k].value] \notin STATEMENT_START_KEYWORDS
    BY <2>1, <2>7 DEF STATEMENT_START_KEYWORDS
  <2>11. Placed(b, tokens, k)
    BY <2>7, <2>8, <2>9, <2>10 DEF Placed
  <2>12. Opening(Top)
    BY <1>1 DEF Opening, EXPRESSIONS
  <2>. QED  BY <1>1, <1>2, <2>1, <2>2, <2>3, <2>11, <2>12, TokenOwns, NoneWaitsEnough DEF UInv
<1>3. CASE ast' = ast /\ Return("false")
  BY <1>1, <1>3, ReturnOwns
<1>. QED  BY <1>2, <1>3 DEF ParsePrimary

LEMMA ExpressionOwns ==
  ASSUME PInv, UInv(ast, stack, ret, tokens),
         ParsePrimary \/ ParseUnary \/ ParseTerm \/ ParseExpression \/ ParseComparison
  PROVE  UInv(ast', stack', ret', tokens)
<1>1. ASSUME NEW types, types \cap (STATEMENT_START_KEYWORDS \cup {"IDENT"}) = {}, Expect(types)
      PROVE  ~ Done /\ tokens[position] \notin STATEMENT_START_KEYWORDS \cup {"IDENT"}
  BY <1>1 DEF Expect
<1>2. CASE ParseUnary
  <2>1. Running /\ Top.fn = "UNARY" /\ Top.at \in {1, 2}
    BY <1>2 DEF ParseUnary, At, In
  <2>2. CASE Expect(SIGNS) /\ Call("PRIMARY", 2, WithToken, position + 1)
    <3>1. ~ Done /\ tokens[position] \notin STATEMENT_START_KEYWORDS \cup {"IDENT"}
      BY <1>1, <2>2 DEF SIGNS, STATEMENT_START_KEYWORDS
    <3>. QED  BY <2>1, <2>2, <3>1, CallTokenOwns DEF EXPRESSIONS
  <2>3. CASE Call("PRIMARY", 2, ast, position)
    BY <2>1, <2>3, CallPlainOwns DEF EXPRESSIONS
  <2>4. CASE Return(ret) /\ ast' = ast
    BY <2>1, <2>4, ReturnOwns
  <2>. QED  BY <1>2, <2>2, <2>3, <2>4 DEF ParseUnary
<1>3. ASSUME NEW fn \in {"TERM", "EXPRESSION"}, NEW operand \in {"UNARY", "TERM"},
             NEW operators \in {{"DIV", "MULT"}, SIGNS}, ParseChain(fn, operand, operators)
      PROVE  UInv(ast', stack', ret', tokens)
  <2>1. Running /\ Top.fn = fn /\ Top.at \in {1, 2}
    BY <1>3 DEF ParseChain, At, In
  <2>2. CASE Expect(operators) /\ Call(operand, 2, WithToken, position + 1)
    <3>1. ~ Done /\ tokens[position] \notin STATEMENT_START_KEYWORDS \cup {"IDENT"}
      BY <1>1, <2>2 DEF SIGNS, STATEMENT_START_KEYWORDS
    <3>. QED  BY <2>1, <2>2, <3>1, CallTokenOwns DEF EXPRESSIONS
  <2>3. CASE Call(operand, 2, ast, position)
    BY <2>1, <2>3, CallPlainOwns DEF EXPRESSIONS
  <2>4. CASE Return(ret) /\ ast' = ast
    BY <2>1, <2>4, ReturnOwns
  <2>. QED  BY <1>3, <2>2, <2>3, <2>4 DEF ParseChain
<1>4. CASE ParseComparison
  <2>1. Running /\ Top.fn = "COMPARISON" /\ Top.at \in {1, 2, 3}
    BY <1>4 DEF ParseComparison, At, In
  <2>2. CASE Expect(COMPARISON_OPS) /\ Top.at = 2 /\ Call("EXPRESSION", 3, WithToken, position + 1)
    <3>1. ~ Done /\ tokens[position] \notin STATEMENT_START_KEYWORDS \cup {"IDENT"}
      BY <1>1, <2>2 DEF COMPARISON_OPS, STATEMENT_START_KEYWORDS
    <3>. QED  BY <2>1, <2>2, <3>1, CallTokenOwns DEF EXPRESSIONS
  <2>3. CASE Top.at = 1 /\ Call("EXPRESSION", 2, ast, position)
    BY <2>1, <2>3, CallPlainOwns DEF EXPRESSIONS
  <2>4. CASE (Return(ret) \/ Return("false")) /\ ast' = ast
    BY <2>1, <2>4, ReturnOwns
  <2>. QED  BY <1>4, <2>2, <2>3, <2>4 DEF ParseComparison, At
<1>. QED  BY <1>2, <1>3, <1>4, PrimaryOwns DEF ParseTerm, ParseExpression

-----------------------------------------------------------------------------
\* Which tokens a statement takes where.
LEMMA FormTakes ==
  ASSUME NEW kw \in STATEMENT_START_KEYWORDS, NEW place \in Nat \ {0}, place <= Len(Form(kw)),
         NEW t \in Form(kw)[place].expect
  PROVE  /\ t \in STATEMENT_START_KEYWORDS <=> place = 1
         /\ place = 1 => t = kw
         /\ t = "IDENT" <=> place = 2 /\ kw \in NAMERS
<1>1. CASE kw = "PRINT"
  <2>1. Form(kw) = <<Token({"PRINT"}), TokenOr({"STRING"}, "EXPRESSION")>>
    BY <1>1, FormCases
  <2>. QED  BY <1>1, <2>1 DEF Token, TokenOr, NAMERS, STATEMENT_START_KEYWORDS
<1>2. CASE kw = "IF"
  <2>1. Form(kw) = <<Token({"IF"}), Part("COMPARISON"), Token({"THEN"}),
                     Part("BLOCK"), Token({"ENDIF"})>>
    BY <1>2, FormCases
  <2>2. place \in 1 .. 5
    BY <2>1
  <2>. QED  BY <1>2, <2>1, <2>2 DEF Token, Part, NAMERS, STATEMENT_START_KEYWORDS
<1>3. CASE kw = "WHILE"
  <2>1. Form(kw) = <<Token({"WHILE"}), Part("COMPARISON"), Token({"REPEAT"}),
                     Part("BLOCK"), Token({"ENDWHILE"})>>
    BY <1>3, FormCases
  <2>2. place \in 1 .. 5
    BY <2>1
  <2>. QED  BY <1>3, <2>1, <2>2 DEF Token, Part, NAMERS, STATEMENT_START_KEYWORDS
<1>4. CASE kw = "LET"
  <2>1. Form(kw) = <<Token({"LET"}), Ident, Token({"EQ"}), Part("EXPRESSION")>>
    BY <1>4, FormCases
  <2>2. place \in 1 .. 4
    BY <2>1
  <2>. QED  BY <1>4, <2>1, <2>2 DEF Token, Part, Ident, NAMERS, STATEMENT_START_KEYWORDS
<1>5. CASE kw \in {"LABEL", "GOTO", "INPUT"}
  <2>1. Form(kw) = <<Token({kw}), Ident>>
    BY <1>5, FormCases
  <2>2. place \in 1 .. 2
    BY <2>1
  <2>. QED  BY <1>5, <2>1, <2>2 DEF Token, Ident, NAMERS, STATEMENT_START_KEYWORDS
<1>. QED  BY <1>1, <1>2, <1>3, <1>4, <1>5 DEF STATEMENT_START_KEYWORDS

\* Which functions it calls where.
LEMMA FormCalls ==
  ASSUME NEW kw \in STATEMENT_START_KEYWORDS, NEW place \in Nat \ {0}, place <= Len(Form(kw)),
         NEW c, c = Form(kw)[place].call
  PROVE  /\ c = "BLOCK" => kw \in {"IF", "WHILE"} /\ place = 4
         /\ c \in {"COMPARISON", "EXPRESSION"} =>
              /\ place >= 3 \/ (place = 2 /\ kw \notin NAMERS)
              /\ kw \notin {"IF", "WHILE"} \/ place <= 3
<1>1. CASE kw = "PRINT"
  <2>1. Form(kw) = <<Token({"PRINT"}), TokenOr({"STRING"}, "EXPRESSION")>>
    BY <1>1, FormCases
  <2>. QED  BY <1>1, <2>1 DEF Token, TokenOr, NAMERS
<1>2. CASE kw = "IF"
  <2>1. Form(kw) = <<Token({"IF"}), Part("COMPARISON"), Token({"THEN"}),
                     Part("BLOCK"), Token({"ENDIF"})>>
    BY <1>2, FormCases
  <2>2. place \in 1 .. 5
    BY <2>1
  <2>. QED  BY <1>2, <2>1, <2>2 DEF Token, Part, NAMERS
<1>3. CASE kw = "WHILE"
  <2>1. Form(kw) = <<Token({"WHILE"}), Part("COMPARISON"), Token({"REPEAT"}),
                     Part("BLOCK"), Token({"ENDWHILE"})>>
    BY <1>3, FormCases
  <2>2. place \in 1 .. 5
    BY <2>1
  <2>. QED  BY <1>3, <2>1, <2>2 DEF Token, Part, NAMERS
<1>4. CASE kw = "LET"
  <2>1. Form(kw) = <<Token({"LET"}), Ident, Token({"EQ"}), Part("EXPRESSION")>>
    BY <1>4, FormCases
  <2>2. place \in 1 .. 4
    BY <2>1
  <2>3. (c = "EXPRESSION" /\ place = 4) \/ c = "none"
    BY <2>1, <2>2 DEF Token, Part, Ident
  <2>4. c # "BLOCK" /\ c # "COMPARISON" /\ (c = "EXPRESSION" => place >= 3) /\ kw \notin {"IF", "WHILE"}
    BY <1>4, <2>3
  <2>. QED  BY <2>4
<1>5. CASE kw \in {"LABEL", "GOTO", "INPUT"}
  <2>1. Form(kw) = <<Token({kw}), Ident>>
    BY <1>5, FormCases
  <2>2. place \in 1 .. 2
    BY <2>1
  <2>. QED  BY <1>5, <2>1, <2>2 DEF Token, Ident, NAMERS
<1>. QED  BY <1>1, <1>2, <1>3, <1>4, <1>5 DEF STATEMENT_START_KEYWORDS

\* The statement that is running.
LEMMA RunningStatement ==
  ASSUME PInv, UInv(ast, stack, ret, tokens), InForm, NEW m, m = Len(stack)
  PROVE  /\ Running /\ Top.fn = "STATEMENT" /\ Top.kw \in STATEMENT_START_KEYWORDS
         /\ Top.at \in Nat \ {0} /\ Top.at <= Len(Form(Top.kw))
         /\ m \in Nat \ {0} /\ m \in 1 .. m /\ stack[m] = Top
         /\ Waiting(Top) => ret = "none"
         /\ Top.at = 1 => /\ Top.node = Len(ast) /\ ast[Len(ast)].type = "GRAMMAR"
                          /\ ast[Len(ast)].value = "STATEMENT"
         /\ Top.at = 2 /\ Top.kw \in NAMERS =>
              NamerIn(ast, tokens, Len(ast)) /\ ast[Top.node].last_child = Len(ast)
<1>1. Running /\ Top.fn = "STATEMENT" /\ Top.at <= Len(Form(Top.kw))
  BY DEF InForm, In
<1>2. m \in Nat \ {0} /\ m \in 1 .. m /\ stack[m] = Top /\ Top.at \in Nat \ {0}
  BY <1>1, TopFrame DEF PInv, Top, FrameSet
<1>3. Top.kw \in STATEMENT_START_KEYWORDS
  BY <1>1, <1>2 DEF UInv, OpeningInv
<1>4. Waiting(Top) <=> Top.at = 1 \/ (Top.at = 2 /\ Top.kw \in NAMERS)
  BY <1>1 DEF Waiting, LOOPS
<1>5. Waiting(stack[m]) =>
        /\ ret = "none"
        /\ Top.at = 1 => /\ Top.node = Len(ast) /\ ast[Len(ast)].type = "GRAMMAR"
                         /\ ast[Len(ast)].value = "STATEMENT"
        /\ Top.at = 2 => NamerIn(ast, tokens, Len(ast)) /\ ast[Top.node].last_child = Len(ast)
  BY <1>1, <1>2 DEF UInv, WaitingInv
<1>. QED  BY <1>1, <1>2, <1>3, <1>4, <1>5

LEMMA StatementTokenOwns ==
  ASSUME PInv, UInv(ast, stack, ret, tokens), StatementToken
  PROVE  UInv(ast', stack', ret', tokens)
<1>1. PICK m, b, k, up, at, t, kw :
        m = Len(stack) /\ b = WithToken /\ k = Len(ast) + 1 /\ at = Top.at /\ up = Resume(at + 1)
        /\ t = tokens[position] /\ kw = Top.kw
  OBVIOUS
<1>2. /\ InForm /\ ret = "none" /\ Expect(Item.expect) /\ ast' = b /\ stack' = up /\ ret' = ret
  BY <1>1 DEF StatementToken
<1>3. /\ Running /\ Top.fn = "STATEMENT" /\ kw \in STATEMENT_START_KEYWORDS
      /\ at \in Nat \ {0} /\ at <= Len(Form(kw)) /\ m \in Nat \ {0} /\ stack[m] = Top
      /\ at = 1 => /\ Top.node = Len(ast) /\ ast[Len(ast)].type = "GRAMMAR"
                   /\ ast[Len(ast)].value = "STATEMENT"
      /\ at = 2 /\ kw \in NAMERS =>
           NamerIn(ast, tokens, Len(ast)) /\ ast[Top.node].last_child = Len(ast)
  BY <1>1, <1>2, RunningStatement
<1>4. ~ Done /\ t \in Form(kw)[at].expect
  BY <1>1, <1>2 DEF Expect, Item
<1>5. /\ t \in STATEMENT_START_KEYWORDS <=> at = 1
      /\ at = 1 => t = kw
      /\ t = "IDENT" <=> at = 2 /\ kw \in NAMERS
  BY <1>3, <1>4, FormTakes
<1>6. /\ Len(ast) \in Nat /\ Len(b) = k /\ b[k].type = "TOKEN" /\ b[k].value = position
      /\ Top.node = Len(ast) => b[Len(ast)].first_child = k
  BY <1>1, <1>3, <1>4, TokenAdded
<1>7. AddsLink(b, ast, Top.node, ast[Top.node].last_child) /\ Extends(b, ast)
  BY <1>1, <1>3, <1>4, TokenLinks, TokenStep
<1>8. Len(ast) \in Ids(ast) /\ Len(ast) \in Ids(b) /\ k - 1 = Len(ast) /\ Len(ast) # 0
  <2>1. Len(ast) \in Nat \ {0}
    BY TreeLen DEF PInv
  <2>. QED  BY <1>1, <1>6, <2>1 DEF Ids
<1>9. b[Len(ast)].type = ast[Len(ast)].type /\ b[Len(ast)].value = ast[Len(ast)].value
  BY <1>7, <1>8 DEF Extends
<1>10. Placed(b, tokens, k)
  <2>1. at = 1 => IsStatement(b, k - 1) /\ b[k - 1].first_child = k
    BY <1>3, <1>6, <1>8, <1>9 DEF IsStatement
  <2>2. at = 2 /\ kw \in NAMERS => NamerIn(b, tokens, k - 1) /\ b[k - 1].next_sibling = k
    <3>1. SUFFICES ASSUME at = 2, kw \in NAMERS
                   PROVE  NamerIn(b, tokens, k - 1) /\ b[k - 1].next_sibling = k
      OBVIOUS
    <3>2. NamerIn(ast, tokens, Len(ast)) /\ ast[Top.node].last_child = Len(ast)
      BY <1>3, <3>1
    <3>3. NamerIn(b, tokens, k - 1)
      BY <1>8, <1>9, <3>2 DEF NamerIn
    <3>4. PICK q : q = Len(ast)
      OBVIOUS
    <3>5. AddsLink(b, ast, Top.node, q) /\ q # NO_NODE /\ q \in Ids(ast) /\ q = k - 1
      BY <1>7, <1>8, <3>2, <3>4 DEF NO_NODE
    <3>6. b[q].next_sibling = k
      BY <1>1, <3>5 DEF AddsLink, Ids
    <3>. QED  BY <3>3, <3>5, <3>6
  <2>3. tokens[b[k].value] = t
    BY <1>1, <1>6
  <2>. QED  BY <1>5, <1>8, <2>1, <2>2, <2>3 DEF Placed
<1>11. /\ Within(up, stack)
       /\ at >= 2 => NoneWaits(up)
       /\ \A d \in 1 .. Len(up) - 1 : ~ Waiting(up[d])
  <2>1. PICK place : place = at + 1
    OBVIOUS
  <2>2. place \in Nat \ {0} /\ place >= Top.at /\ (at >= 2 => place >= 3) /\ up = Resume(place)
    BY <1>1, <1>3, <2>1
  <2>3. Running /\ WaitingInv(ast, stack, ret, tokens)
    BY <1>3 DEF UInv
  <2>4. /\ Within(up, stack)
        /\ place >= 3 => NoneWaits(up)
        /\ \A d \in 1 .. Len(up) - 1 : ~ Waiting(up[d])
    BY <2>2, <2>3, ResumeWithin
  <2>. QED  BY <2>2, <2>4
<1>12. t = "IDENT" => Opening(Top)
  BY <1>1, <1>3, <1>5 DEF Opening, NAMERS
<1>13. OwnersInv(b, up, tokens) /\ PlacesInv(b, tokens) /\ OpeningInv(up)
  BY <1>1, <1>3, <1>4, <1>10, <1>11, <1>12, TokenOwns
<1>14. WaitingInv(b, up, ret, tokens)
  <2>1. CASE at >= 2
    BY <1>11, <2>1, NoneWaitsEnough
  <2>2. CASE at = 1
    <3>1. at + 1 = 2 /\ 2 \in Nat \ {0} /\ up = Resume(2)
      BY <1>1, <2>2
    <3>2. Len(up) = m /\ up[m].fn = "STATEMENT" /\ up[m].kw = kw /\ up[m].node = Top.node /\ up[m].at = 2
      BY <1>1, <1>3, <3>1, ResumeAt
    <3>3. \A d \in 1 .. Len(up) : d = m \/ d \in 1 .. Len(up) - 1
      BY <1>3, <3>2
    <3>4. Waiting(up[m]) => kw \in NAMERS
      BY <3>2 DEF Waiting
    <3>5. kw \in NAMERS => NamerIn(b, tokens, k)
      BY <1>1, <1>5, <1>6, <2>2 DEF NamerIn
    <3>6. b[up[m].node].last_child = k
      <4>1. Top.node \in Ids(ast)
        BY <1>3, TopFrame DEF PInv, IsGrammar, Ids
      <4>. QED  BY <1>1, <1>7, <3>2, <4>1 DEF AddsLink, Ids
    <3>. QED  BY <1>2, <1>6, <1>11, <3>2, <3>3, <3>4, <3>5, <3>6 DEF WaitingInv
  <2>. QED  BY <1>3, <2>1, <2>2
<1>. QED  BY <1>2, <1>13, <1>14 DEF UInv

\* A loop is entered, or a statement: nothing above it may add a name.
LEMMA LoopPushed ==
  ASSUME NEW a, NEW tk, NEW st \in Seq(FrameSet), NEW f \in FrameSet, f.fn = "BLOCK",
         OwnersInv(a, st, tk), PlacesInv(a, tk), OpeningInv(st), NoneWaits(st),
         \A d \in 1 .. Len(st) : ~ Opening(st[d]), NEW r
  PROVE  UInv(a, Append(st, f), r, tk)
<1>1. PICK new, t : new = Append(st, f) /\ t = Len(st)
  OBVIOUS
<1>2. /\ t \in Nat /\ Len(new) = t + 1 /\ new[t + 1] = f
      /\ \A d \in 1 .. t : new[d] = st[d]
      /\ \A d \in 1 .. t + 1 : d \in 1 .. t \/ d = t + 1
  BY <1>1
<1>3. ~ Opening(f) /\ ~ Waiting(f) /\ f.fn # "STATEMENT"
  BY DEF Opening, Waiting, LOOPS, EXPRESSIONS
<1>4. \A d \in 1 .. t + 1 : ~ Opening(new[d]) /\ ~ Waiting(new[d])
  BY <1>1, <1>2, <1>3 DEF NoneWaits
<1>5. OwnersInv(a, new, tk)
  BY <1>2, <1>4 DEF OwnersInv, FramesOwn, OwnsAt
<1>6. \A d \in 1 .. t + 1 : new[d].fn = "STATEMENT" => new[d].kw \in STATEMENT_START_KEYWORDS
  BY <1>1, <1>2, <1>3 DEF OpeningInv
<1>7. OpeningInv(new)
  BY <1>2, <1>4, <1>6 DEF OpeningInv
<1>8. WaitingInv(a, new, r, tk)
  BY <1>2, <1>4 DEF WaitingInv
<1>. QED  BY <1>1, <1>5, <1>7, <1>8 DEF UInv

LEMMA StatementPushed ==
  ASSUME NEW a, NEW b, NEW p, NEW last, AddsLink(b, a, p, last), Extends(b, a), IsTree(a),
         NEW tk, NEW k, k = Len(a) + 1, IsStatement(b, k),
         NEW st \in Seq(FrameSet), NEW f \in FrameSet, f.fn = "STATEMENT", f.node = k, f.at = 1,
         f.kw \in STATEMENT_START_KEYWORDS,
         OwnersInv(a, st, tk), PlacesInv(a, tk), OpeningInv(st), NoneWaits(st),
         \A d \in 1 .. Len(st) : ~ Opening(st[d])
  PROVE  UInv(b, Append(st, f), "none", tk)
<1>1. PICK new, t : new = Append(st, f) /\ t = Len(st)
  OBVIOUS
<1>2. /\ t \in Nat /\ Len(new) = t + 1 /\ new[t + 1] = f
      /\ \A d \in 1 .. t : new[d] = st[d] /\ d < t + 1 /\ d # t + 1
      /\ \A d \in 1 .. t + 1 : d \in 1 .. t \/ d = t + 1
  BY <1>1
<1>3. Len(a) \in Nat /\ Len(b) = k /\ b[k].type = "GRAMMAR" /\ b[k].value = "STATEMENT"
  BY DEF AddsLink, IsStatement
<1>4. \A d \in 1 .. t : ~ Opening(new[d]) /\ ~ Waiting(new[d])
  BY <1>1, <1>2 DEF NoneWaits
<1>5. PICK anc : Ancestry(b, anc) /\ IdentsOwned(b, anc, tk) /\ LastStatement(b, k)
  BY StatementOwned
<1>6. OwnersInv(b, new, tk)
  BY <1>2, <1>4, <1>5 DEF OwnersInv, FramesOwn, OwnsAt
<1>7. PlacesInv(b, tk)
  BY <1>3, PlacesGrow
<1>8. OpeningInv(new)
  <2>1. \A d \in 1 .. t + 1 : new[d].fn = "STATEMENT" => new[d].kw \in STATEMENT_START_KEYWORDS
    BY <1>1, <1>2 DEF OpeningInv
  <2>2. \A d, e \in 1 .. t + 1 : d < e => d \in 1 .. t
    BY <1>2
  <2>. QED  BY <1>2, <1>4, <2>1, <2>2 DEF OpeningInv
<1>9. WaitingInv(b, new, "none", tk)
  <2>1. f.at # 2
    OBVIOUS
  <2>. QED  BY <1>2, <1>3, <1>4, <2>1 DEF WaitingInv
<1>. QED  BY <1>1, <1>6, <1>7, <1>8, <1>9 DEF UInv

\* Under a loop, or a statement in its block, no function may add a name.
LEMMA NoneOpening ==
  ASSUME PInv, Running, OpeningInv(stack), Top.fn \notin EXPRESSIONS, ~ Opening(Top)
  PROVE  \A d \in 1 .. Len(stack) : ~ Opening(stack[d])
<1>1. PICK m : m = Len(stack)
  OBVIOUS
<1>2. m \in Nat \ {0} /\ stack[m] = Top /\ m \in 1 .. m
  BY <1>1, TopFrame DEF PInv, Top
<1>3. \A d \in 1 .. m : d < m => ~ Opening(stack[d])
  BY <1>1, <1>2 DEF OpeningInv
<1>. QED  BY <1>1, <1>2, <1>3

LEMMA NoneWaitsBut ==
  ASSUME PInv, Running, WaitingInv(ast, stack, ret, tokens), ~ Waiting(Top)
  PROVE  NoneWaits(stack) /\ Within(stack, stack)
<1>1. Len(stack) \in Nat /\ Top = stack[Len(stack)]
  BY DEF PInv, StackOK, Top
<1>. QED  BY <1>1 DEF NoneWaits, WaitingInv, Within

LEMMA StatementOwns ==
  ASSUME PInv, UInv(ast, stack, ret, tokens),
         StatementToken \/ StatementCall \/ StatementBlock \/ StatementResume
         \/ StatementFail \/ StatementEnd
  PROVE  UInv(ast', stack', ret', tokens)
<1>1. CASE StatementCall
  <2>1. PICK kw, place, c : kw = Top.kw /\ place = Top.at /\ c = Item.call
    OBVIOUS
  <2>2. InForm /\ c \in {"COMPARISON", "EXPRESSION"} /\ Call(c, place, ast, position)
    BY <1>1, <2>1 DEF StatementCall
  <2>3. /\ Running /\ Top.fn = "STATEMENT" /\ kw \in STATEMENT_START_KEYWORDS
        /\ place \in Nat \ {0} /\ place <= Len(Form(kw)) /\ c = Form(kw)[place].call
    BY <2>1, <2>2, RunningStatement DEF Item
  <2>4. /\ place >= 3 \/ (place = 2 /\ kw \notin NAMERS)
        /\ kw \notin {"IF", "WHILE"} \/ place <= 3
    BY <2>2, <2>3, FormCalls
  <2>5. c \in EXPRESSIONS
    BY <2>2 DEF EXPRESSIONS
  <2>. QED  BY <2>1, <2>2, <2>3, <2>4, <2>5, CallPlainOwns
<1>2. CASE StatementBlock
  <2>1. PICK f, kw, place, c :
          f = Frame("BLOCK", Top.node, "none") /\ kw = Top.kw /\ place = Top.at /\ c = Item.call
    OBVIOUS
  <2>2. InForm /\ c = "BLOCK" /\ stack' = Append(stack, f) /\ ast' = ast
    BY <1>2, <2>1 DEF StatementBlock
  <2>3. /\ Running /\ Top.fn = "STATEMENT" /\ kw \in STATEMENT_START_KEYWORDS
        /\ place \in Nat \ {0} /\ place <= Len(Form(kw)) /\ c = Form(kw)[place].call
    BY <2>1, <2>2, RunningStatement DEF Item
  <2>4. kw \in {"IF", "WHILE"} /\ place = 4
    BY <2>2, <2>3, FormCalls
  <2>5. ~ Opening(Top) /\ Top.fn \notin EXPRESSIONS /\ ~ Waiting(Top)
    BY <2>1, <2>3, <2>4 DEF Opening, EXPRESSIONS, Waiting
  <2>6. (\A d \in 1 .. Len(stack) : ~ Opening(stack[d])) /\ NoneWaits(stack)
    BY <2>3, <2>5, NoneOpening, NoneWaitsBut DEF UInv
  <2>7. f \in FrameSet /\ f.fn = "BLOCK"
    <3>1. Top.node \in Nat
      BY <2>3, TopFrame DEF PInv, FrameSet
    <3>. QED  BY <2>1, <3>1, FrameInSet DEF Frame
  <2>8. stack \in Seq(FrameSet)
    BY DEF PInv, StackOK
  <2>. QED  BY <2>2, <2>6, <2>7, <2>8, LoopPushed DEF UInv
<1>3. CASE StatementResume
  <2>1. PICK place, up, m : place = Top.at + 1 /\ up = Resume(place) /\ m = Len(stack)
    OBVIOUS
  <2>2. InForm /\ ret = "true" /\ ast' = ast /\ stack' = up
    BY <1>3, <2>1 DEF StatementResume
  <2>3. /\ Running /\ Top.fn = "STATEMENT" /\ Top.at \in Nat \ {0} /\ ~ Waiting(Top)
    BY <2>1, <2>2, RunningStatement
  <2>4. Top.at # 1
    BY <2>3 DEF Waiting, LOOPS
  <2>5. place \in Nat \ {0} /\ place >= Top.at /\ place >= 3
    BY <2>1, <2>3, <2>4
  <2>6. Within(up, stack) /\ NoneWaits(up)
    <3>1. WaitingInv(ast, stack, ret, tokens)
      BY DEF UInv
    <3>. QED  BY <2>1, <2>3, <2>5, <3>1, ResumeWithin
  <2>. QED  BY <2>2, <2>6, SameOwns, NoneWaitsEnough DEF UInv
<1>4. CASE StatementFail \/ StatementEnd
  <2>1. Running /\ ast' = ast
    BY <1>4 DEF StatementFail, StatementEnd, InForm, In
  <2>2. Return("true") \/ Return("false")
    BY <1>4 DEF StatementFail, StatementEnd
  <2>. QED  BY <2>1, <2>2, ReturnOwns
<1>. QED  BY <1>1, <1>2, <1>3, <1>4, StatementTokenOwns

LEMMA StarOwns ==
  ASSUME PInv, UInv(ast, stack, ret, tokens),
         StarReturn \/ StarUnknown \/ StarStatement \/ StarRecover
  PROVE  UInv(ast', stack', ret', tokens)
<1>1. Running /\ Top.fn \in LOOPS
  BY DEF StarReturn, StarUnknown, StarStatement, StarRecover, AtLoop, InLoop, In, LOOPS
<1>2. ~ Waiting(Top) /\ ~ Opening(Top) /\ Top.fn \notin EXPRESSIONS
  BY <1>1 DEF Waiting, Opening, LOOPS, EXPRESSIONS
<1>3. NoneWaits(stack) /\ Within(stack, stack) /\ \A d \in 1 .. Len(stack) : ~ Opening(stack[d])
  BY <1>1, <1>2, NoneOpening, NoneWaitsBut DEF UInv
<1>4. CASE StarReturn
  BY <1>1, <1>4, ReturnOwns DEF StarReturn
<1>5. CASE StarUnknown \/ StarRecover
  <2>1. ast' = ast /\ stack' = stack
    BY <1>5 DEF StarUnknown, StarRecover
  <2>. QED  BY <1>3, <2>1, NoneWaitsEnough DEF UInv
<1>6. CASE StarStatement
  <2>1. PICK b, k, f, p, last :
          /\ b = AddGrammar(ast, Top.node, "STATEMENT") /\ k = Len(ast) + 1
          /\ f = Frame("STATEMENT", k, tokens[position]) /\ p = Top.node /\ last = ast[p].last_child
    OBVIOUS
  <2>2. /\ tokens[position] \in STATEMENT_START_KEYWORDS
        /\ ast' = b /\ stack' = Append(stack, f) /\ ret' = "none"
    BY <1>6, <2>1 DEF StarStatement, Expect
  <2>3. IsGrammar(ast, p) /\ TreeInv(ast, position, skipped, Len(tokens)) /\ Len(tokens) \in Nat
        /\ "STATEMENT" \in GRAMMAR_TYPE /\ stack \in Seq(FrameSet)
    BY <1>1, <2>1, TopFrame DEF PInv, GRAMMAR_TYPE, StackOK
  <2>4. AddsLink(b, ast, p, last)
    BY <2>1, <2>3, GrammarLinks
  <2>5. Extends(b, ast) /\ IsTree(ast) /\ IsStatement(b, k) /\ Len(ast) \in Nat
    BY <2>1, <2>3, GrowGrammar, GrammarAdded DEF TreeInv, IsStatement
  <2>6. f \in FrameSet /\ f.fn = "STATEMENT" /\ f.node = k /\ f.at = 1
        /\ f.kw \in STATEMENT_START_KEYWORDS
    <3>1. k \in Nat
      BY <2>1, <2>5
    <3>. QED  BY <2>1, <2>2, <2>3, <3>1, FrameInSet DEF Frame
  <2>. QED  BY <1>3, <2>1, <2>2, <2>3, <2>4, <2>5, <2>6, StatementPushed DEF UInv
<1>. QED  BY <1>4, <1>5, <1>6

LEMMA NextOwns ==
  ASSUME PInv, UInv(ast, stack, ret, tokens), Next, ~ Finished
  PROVE  UInv(ast', stack', ret', tokens)
BY ExpressionOwns, StatementOwns, StarOwns DEF Next

NodesInv == UInv(ast, stack, ret, tokens)

LEMMA InitNodesInv == ASSUME Init PROVE NodesInv
<1>1. PICK root, f : root = GrammarNode("PROGRAM") /\ f = Frame("STAR", Head_, "none")
  OBVIOUS
<1>2. ast = <<root>> /\ stack = <<f>> /\ Len(ast) = 1 /\ ast[1] = root /\ Len(stack) = 1 /\ stack[1] = f
  BY <1>1 DEF Init, Start
<1>3. /\ root.type = "GRAMMAR" /\ root.first_child = 0 /\ root.last_child = 0 /\ root.next_sibling = 0
      /\ f.fn = "STAR"
  BY <1>1 DEF GrammarNode, Frame, NO_NODE
<1>4. Ids(ast) = {1} /\ NO_NODE = 0 /\ Head_ = 1
  BY <1>2 DEF Ids, NO_NODE, Head_
<1>5. ~ Waiting(f) /\ ~ Opening(f)
  BY <1>3 DEF Waiting, Opening, LOOPS, EXPRESSIONS
<1>6. \A d \in 1 .. Len(stack) : stack[d] = f
  BY <1>2
<1>7. OwnersInv(ast, stack, tokens)
  <2>1. PICK anc : anc = [n \in Ids(ast) |-> {}]
    OBVIOUS
  <2>2. Ancestry(ast, anc)
    BY <1>2, <1>3, <1>4, <2>1 DEF Ancestry
  <2>3. FramesOwn(ast, anc, stack)
    BY <1>5, <1>6 DEF FramesOwn, OwnsAt
  <2>4. IdentsOwned(ast, anc, tokens)
    BY <1>2, <1>3, <1>4 DEF IdentsOwned, IdentNode
  <2>. QED  BY <2>2, <2>3, <2>4 DEF OwnersInv
<1>8. PlacesInv(ast, tokens)
  BY <1>2, <1>3, <1>4 DEF PlacesInv
<1>9. OpeningInv(stack) /\ WaitingInv(ast, stack, ret, tokens)
  BY <1>3, <1>5, <1>6 DEF OpeningInv, WaitingInv
<1>. QED  BY <1>7, <1>8, <1>9 DEF NodesInv, UInv

LEMMA StepNodesInv == PInv /\ NodesInv /\ [Next]_vars => NodesInv'
<1>. SUFFICES ASSUME PInv, NodesInv, [Next]_vars PROVE NodesInv'
  OBVIOUS
<1>1. CASE Next /\ ~ Finished
  <2>1. UInv(ast', stack', ret', tokens)
    BY <1>1, NextOwns DEF NodesInv
  <2>2. tokens' = tokens
    BY <1>1, NextKeeps DEF Keeps
  <2>. QED  BY <2>1, <2>2 DEF NodesInv
<1>2. CASE UNCHANGED vars
  BY <1>2, Zenon DEF vars, NodesInv
<1>. QED  BY <1>1, <1>2 DEF Finished

\* What the parser leaves of names and keywords: every name has the last
\* statement begun before it as its innermost one, every statement begins with
\* its keyword, and without an error no token is missing.
Settled ==
  /\ \E anc : Ancestry(ast, anc) /\ IdentsOwned(ast, anc, tokens)
  /\ PlacesInv(ast, tokens)
  /\ \A n \in Ids(ast) : IsStatement(ast, n) => Begun(ast, n)
  /\ errors = <<>> => skipped = {}

LEMMA NodesSettle == PInv /\ RInv /\ NodesInv /\ stack = <<>> => Settled
<1>. SUFFICES ASSUME PInv, RInv, NodesInv, stack = <<>> PROVE Settled
  OBVIOUS
<1>1. /\ \E anc : Ancestry(ast, anc) /\ IdentsOwned(ast, anc, tokens)
      /\ PlacesInv(ast, tokens)
  BY DEF NodesInv, UInv, OwnersInv
<1>2. ASSUME NEW n \in Ids(ast), IsStatement(ast, n) PROVE Begun(ast, n)
  <2>1. ~ Entered(n)
    BY DEF Entered, InForm, In, Running
  <2>. QED  BY <1>2, <2>1 DEF RInv, StatementsInv
<1>3. ASSUME errors = <<>>, skipped # {} PROVE FALSE
  <2>1. skipped \subseteq Nat /\ \A p \in skipped : p > 0
    BY DEF PInv
  <2>2. PICK p \in skipped : \A q \in skipped : ~ (<<q, p>> \in OpToRel(<, Nat))
    BY <1>3, <2>1, NatLessThanWellFounded, WFMin
  <2>3. \A q \in skipped : ~ (q < p)
    BY <2>1, <2>2 DEF OpToRel
  <2>4. p - 1 \notin skipped
    BY <2>1, <2>3
  <2>5. Len(errors) = 0
    BY <1>3
  <2>. QED  BY <2>4, <2>5 DEF RInv, SkipsInv, SkipsReported
<1>. QED  BY <1>1, <1>2, <1>3 DEF Settled

\* On every input the parser leaves each name in the statement of the keyword
\* last read before it, and a program without errors whole (parser.c:116-206
\* and 232-432).
THEOREM NamesHaveOwners == Spec => [](stack = <<>> => Settled)
<1>1. PInv /\ RInv /\ NodesInv => (stack = <<>> => Settled)
  BY NodesSettle
<1>2. Init => NodesInv
  BY InitNodesInv
<1>3. Spec => []NodesInv
  BY <1>2, StepNodesInv, AlwaysPInv, PTL DEF Spec
<1>. QED  BY <1>1, <1>3, AlwaysPInv, AlwaysRInv, PTL

-----------------------------------------------------------------------------
(***************************************************************************)
(* The finished tree, for every input without an error: the nodes are put  *)
(* together as the rules of the grammar ask for, each over a piece of the  *)
(* input of its own.                                                       *)
(***************************************************************************)
\* The terminal or the rule that a node stands for.
SymbolOf(a, tk, n) == IF a[n].type = "TOKEN" THEN tk[a[n].value] ELSE a[n].value

\* The place a rule begins at, the place that follows a place, and the place it
\* may end at.
Begins(fn, at) == at = 1 \/ (fn = "UNARY" /\ at = 2)

Follows(fn, kw, i, j) ==
  \/ fn \in {"STATEMENT", "COMPARISON", "UNARY"} /\ j = i + 1
  \/ fn = "STATEMENT" /\ kw \in {"IF", "WHILE"} /\ i = 3 /\ j = 5
  \/ fn = "STATEMENT" /\ kw \in {"IF", "WHILE"} /\ i = 4 /\ j = 4
  \/ fn \in {"EXPRESSION", "TERM"} /\ j = 3 - i
  \/ fn = "PROGRAM" /\ j = i

Ends(fn, kw, i) ==
  \/ fn = "STATEMENT" /\ i = Len(Form(kw))
  \/ fn = "COMPARISON" /\ i = 3
  \/ fn \in {"EXPRESSION", "TERM", "PRIMARY", "PROGRAM"} /\ i = 1
  \/ fn = "UNARY" /\ i = 2

\* What is known of a node: the node above it, its place in the rule of that
\* one, its own keyword if it is a statement, and its piece of the input.
Facts ==
  [up : Nat, at : Nat, kw : STATEMENT_START_KEYWORDS \cup {"none"}, from : Nat, to : Nat]

\* The nodes are put together by the rules, as far as they are there.
Wired(a, q, tk) ==
  /\ q \in [Ids(a) -> Facts]
  /\ \A n \in Ids(a) :
       /\ a[n].first_child # NO_NODE =>
            /\ q[a[n].first_child].up = n
            /\ Begins(a[n].value, q[a[n].first_child].at)
            /\ q[a[n].first_child].from = q[n].from
       /\ a[n].last_child # NO_NODE => q[a[n].last_child].up = n
       /\ n # Head_ /\ a[n].next_sibling = NO_NODE => a[q[n].up].last_child = n
       /\ a[n].next_sibling # NO_NODE =>
            /\ q[a[n].next_sibling].up = q[n].up
            /\ q[a[n].next_sibling].from = q[n].to + 1
            /\ Follows(a[q[n].up].value, q[q[n].up].kw, q[n].at, q[a[n].next_sibling].at)
       /\ n # Head_ =>
            /\ IsGrammar(a, q[n].up) /\ q[n].up < n
            /\ Fits(a[q[n].up].value, q[q[n].up].kw, q[n].at, SymbolOf(a, tk, n))
       /\ a[n].type = "TOKEN" => q[n].from = a[n].value /\ q[n].to = a[n].value
       /\ IsStatement(a, n) => q[n].kw \in STATEMENT_START_KEYWORDS
  /\ q[Head_].from = 1 /\ q[Head_].up = 0
  /\ a[Head_].type = "GRAMMAR" /\ a[Head_].value = "PROGRAM"

\* A node that nothing is missing in.
Complete(a, q, n) ==
  /\ a[n].last_child # NO_NODE
  /\ q[n].to = q[a[n].last_child].to
  /\ Ends(a[n].value, q[n].kw, q[a[n].last_child].at)

Completed(a, q, st) ==
  \A n \in Ids(a) :
    a[n].type = "GRAMMAR" /\ n \notin NodesOf(st) /\ n # Head_ => Complete(a, q, n)

\* What is below a node ends right before a position.
UpTo(a, q, n, pos) ==
  /\ a[n].last_child = NO_NODE => q[n].from = pos
  /\ a[n].last_child # NO_NODE => q[a[n].last_child].to = pos - 1

\* The functions that are running are those of the nodes they add to.
FrameFits(a, q, st, d) ==
  /\ st[d].fn = "STAR" => d = 1 /\ st[d].node = Head_
  /\ st[d].fn = "BLOCK" =>
       /\ d > 1 /\ st[d - 1].fn = "STATEMENT" /\ st[d - 1].node = st[d].node
       /\ st[d - 1].at = 4 /\ st[d - 1].kw \in {"IF", "WHILE"}
  /\ st[d].fn \notin LOOPS => a[st[d].node].value = st[d].fn /\ q[st[d].node].kw = st[d].kw
  /\ st[d].fn = "STATEMENT" => st[d].kw \in STATEMENT_START_KEYWORDS

Framed(a, q, st) == \A d \in 1 .. Len(st) : FrameFits(a, q, st, d)

\* The place of the last node below a node.
Reached(a, q, n) == IF a[n].last_child = NO_NODE THEN 0 ELSE q[a[n].last_child].at

\* How far a function has come; fresh: it has not called another at its place.
Progress(f, reached, fresh) ==
  \/ /\ f.fn = "STATEMENT"
     /\ \/ fresh /\ reached = f.at - 1
        \/ fresh /\ f.at = 5 /\ f.kw \in {"IF", "WHILE"} /\ reached = 3
        \/ ~ fresh /\ reached = f.at
        \/ ~ fresh /\ f.at = 4 /\ f.kw \in {"IF", "WHILE"} /\ reached = 3
  \/ f.fn \in EXPRESSIONS /\ f.at = 1 /\ reached = 0
  \/ f.fn \in {"EXPRESSION", "TERM", "COMPARISON"} /\ f.at = 2 /\ reached = 1 /\ ~ fresh
  \/ f.fn = "COMPARISON" /\ f.at = 3 /\ reached = 3 /\ ~ fresh
  \/ f.fn = "UNARY" /\ f.at = 2 /\ reached = 2 /\ ~ fresh
  \/ f.fn \in LOOPS

Advanced(a, q, st, r) ==
  \A d \in 1 .. Len(st) :
    Progress(st[d], Reached(a, q, st[d].node), d = Len(st) /\ r = "none")

CurrentOf(st) == IF st = <<>> THEN Head_ ELSE st[Len(st)].node

Shaped(a, q, st, r, pos, tk) ==
  /\ Wired(a, q, tk)
  /\ Completed(a, q, st)
  /\ UpTo(a, q, CurrentOf(st), pos)
  /\ Framed(a, q, st)
  /\ Advanced(a, q, st, r)

-----------------------------------------------------------------------------
\* The tree grows by a node that fits.
LEMMA WiredGrows ==
  ASSUME NEW a, NEW b, NEW p, NEW last, NEW k, k = Len(a) + 1,
         AddsLink(b, a, p, last), Extends(b, a), IsTree(a),
         NEW tk, NEW q, Wired(a, q, tk),
         NEW r \in Facts, r.up = p,
         last = NO_NODE => Begins(a[p].value, r.at) /\ r.from = q[p].from,
         last # NO_NODE =>
           Follows(a[p].value, q[p].kw, q[last].at, r.at) /\ r.from = q[last].to + 1,
         Fits(a[p].value, q[p].kw, r.at, SymbolOf(b, tk, k)),
         b[k].type = "TOKEN" => r.from = b[k].value /\ r.to = b[k].value,
         IsStatement(b, k) => r.kw \in STATEMENT_START_KEYWORDS,
         NEW up, up = [n \in Ids(b) |-> IF n = k THEN r ELSE q[n]]
  PROVE  Wired(b, up, tk)
<1>1. /\ Len(a) \in Nat /\ k \in Nat /\ Ids(a) = 1 .. Len(a) /\ Ids(b) = 1 .. k
      /\ p \in Ids(a) /\ k \notin Ids(a) /\ k # 0 /\ Ids(b) = Ids(a) \cup {k}
      /\ NO_NODE = 0 /\ Head_ = 1 /\ 1 \in Ids(a) /\ 0 \notin Ids(a)
      /\ a[p].type = "GRAMMAR" /\ p < k /\ Len(b) = k
  BY DEF AddsLink, Ids, NO_NODE, Head_
<1>2. /\ \A i \in Ids(a) :
           /\ b[i].first_child = IF i = p /\ last = 0 THEN k ELSE a[i].first_child
           /\ b[i].last_child = IF i = p THEN k ELSE a[i].last_child
           /\ b[i].next_sibling = IF i = last /\ last # 0 THEN k ELSE a[i].next_sibling
           /\ b[i].type = a[i].type /\ b[i].value = a[i].value
      /\ b[k].first_child = 0 /\ b[k].last_child = 0 /\ b[k].next_sibling = 0
      /\ last = a[p].last_child
  BY DEF AddsLink, Ids, Fresh, NO_NODE, Extends
<1>3. \A i \in Ids(a) :
        /\ a[i].first_child # 0 => a[i].first_child \in Ids(a)
        /\ a[i].last_child # 0 => a[i].last_child \in Ids(a)
        /\ a[i].next_sibling # 0 => a[i].next_sibling \in Ids(a)
  BY <1>1 DEF IsTree, LinksForward, NO_NODE
<1>4. /\ q \in [Ids(a) -> Facts]
      /\ up \in [Ids(b) -> Facts] /\ up[k] = r /\ \A n \in Ids(a) : up[n] = q[n]
      /\ \A n \in Ids(a) : n # 1 => q[n].up \in Ids(a)
  BY <1>1 DEF Wired, IsGrammar, Ids, Head_
<1>10. \A i \in Ids(a) : b[i].value = a[i].value
  BY <1>2
<1>5. ASSUME NEW n \in Ids(a)
      PROVE  /\ b[n].first_child # 0 =>
                  /\ up[b[n].first_child].up = n
                  /\ Begins(b[n].value, up[b[n].first_child].at)
                  /\ up[b[n].first_child].from = up[n].from
             /\ b[n].last_child # 0 => up[b[n].last_child].up = n
  BY <1>1, <1>2, <1>3, <1>4 DEF Wired
<1>6. ASSUME NEW n \in Ids(a), b[n].next_sibling # 0
      PROVE  /\ up[b[n].next_sibling].up = up[n].up
             /\ up[b[n].next_sibling].from = up[n].to + 1
             /\ Follows(b[up[n].up].value, up[up[n].up].kw, up[n].at, up[b[n].next_sibling].at)
  <2>1. CASE n = last
    <3>1. last # 0 /\ q[last].up = p /\ b[n].next_sibling = k /\ n \in Ids(a)
      BY <1>1, <1>2, <2>1 DEF Wired
    <3>2. up[n] = q[last] /\ up[p] = q[p] /\ b[p].value = a[p].value /\ up[k] = r
      BY <1>1, <1>4, <1>10, <2>1, <3>1
    <3>3. Follows(a[p].value, q[p].kw, q[last].at, r.at) /\ r.from = q[last].to + 1 /\ r.up = p
      BY <1>1, <3>1
    <3>. QED  BY <3>1, <3>2, <3>3
  <2>2. CASE n # last
    <3>1. b[n].next_sibling = a[n].next_sibling /\ a[n].next_sibling \in Ids(a) /\ a[n].next_sibling # 0
      BY <1>2, <1>3, <1>6, <2>2
    <3>2. n # 1
      <4>1. a[1].next_sibling = 0
        BY <1>1 DEF IsTree, EndsMeet, NO_NODE, Ids, Head_
      <4>. QED  BY <3>1, <4>1
    <3>3. q[n].up \in Ids(a)
      BY <1>4, <3>2
    <3>4. /\ q[a[n].next_sibling].up = q[n].up
          /\ q[a[n].next_sibling].from = q[n].to + 1
          /\ Follows(a[q[n].up].value, q[q[n].up].kw, q[n].at, q[a[n].next_sibling].at)
      BY <1>1, <3>1 DEF Wired
    <3>5. PICK m, c : m = q[n].up /\ c = a[n].next_sibling
      OBVIOUS
    <3>6. up[n] = q[n] /\ up[c] = q[c] /\ up[m] = q[m] /\ b[m].value = a[m].value
      BY <1>4, <1>10, <3>1, <3>3, <3>5
    <3>7. b[n].next_sibling = c /\ up[n].up = m
      BY <3>1, <3>5, <3>6
    <3>8. q[c].up = m /\ q[c].from = q[n].to + 1 /\ Follows(a[m].value, q[m].kw, q[n].at, q[c].at)
      BY <3>4, <3>5
    <3>. QED  BY <3>6, <3>7, <3>8
  <2>. QED  BY <2>1, <2>2
<1>7. ASSUME NEW n \in Ids(b), n # 1
      PROVE  /\ IsGrammar(b, up[n].up) /\ up[n].up < n
             /\ Fits(b[up[n].up].value, up[up[n].up].kw, up[n].at, SymbolOf(b, tk, n))
  <2>1. CASE n = k
    BY <1>1, <1>2, <1>4, <2>1 DEF IsGrammar, Ids
  <2>2. CASE n # k
    <3>1. n \in Ids(a)
      BY <1>1, <2>2
    <3>2. /\ IsGrammar(a, q[n].up) /\ q[n].up < n /\ q[n].up \in Ids(a)
          /\ Fits(a[q[n].up].value, q[q[n].up].kw, q[n].at, SymbolOf(a, tk, n))
      BY <1>1, <1>4, <1>7, <3>1 DEF Wired
    <3>3. SymbolOf(b, tk, n) = SymbolOf(a, tk, n)
      BY <1>2, <3>1 DEF SymbolOf
    <3>4. IsGrammar(b, q[n].up)
      BY <1>1, <1>2, <3>2 DEF IsGrammar, Ids
    <3>5. PICK m : m = q[n].up
      OBVIOUS
    <3>6. up[n] = q[n] /\ up[m] = q[m] /\ b[m].value = a[m].value
      BY <1>4, <1>10, <3>1, <3>2, <3>5
    <3>7. Fits(b[m].value, up[m].kw, up[n].at, SymbolOf(b, tk, n))
      BY <3>2, <3>3, <3>5, <3>6
    <3>. QED  BY <3>2, <3>4, <3>5, <3>6, <3>7
  <2>. QED  BY <2>1, <2>2
<1>8. ASSUME NEW n \in Ids(b)
      PROVE  /\ b[n].type = "TOKEN" => up[n].from = b[n].value /\ up[n].to = b[n].value
             /\ IsStatement(b, n) => up[n].kw \in STATEMENT_START_KEYWORDS
  BY <1>1, <1>2, <1>4 DEF Wired, IsStatement
<1>9. /\ up[1].from = 1 /\ up[1].up = 0 /\ b[1].type = "GRAMMAR" /\ b[1].value = "PROGRAM"
  BY <1>1, <1>2, <1>4 DEF Wired
<1>11. ASSUME NEW n \in Ids(b), n # 1, b[n].next_sibling = 0
       PROVE  b[up[n].up].last_child = n
  <2>1. CASE n = k
    BY <1>1, <1>2, <1>4, <2>1
  <2>2. CASE n # k
    <3>1. n \in Ids(a) /\ n # last
      BY <1>1, <1>2, <1>11, <2>2
    <3>2. a[n].next_sibling = 0 /\ up[n] = q[n] /\ q[n].up \in Ids(a)
      BY <1>2, <1>4, <1>11, <3>1
    <3>3. a[q[n].up].last_child = n
      BY <1>1, <1>11, <3>1, <3>2 DEF Wired
    <3>4. q[n].up # p
      BY <1>2, <3>1, <3>3
    <3>. QED  BY <1>2, <3>2, <3>3, <3>4
  <2>. QED  BY <2>1, <2>2
<1>12. \A n \in Ids(b) : b[n].next_sibling # 0 => n \in Ids(a)
  BY <1>1, <1>2
<1>13. ASSUME NEW n \in Ids(b)
       PROVE  /\ b[n].first_child # 0 =>
                   /\ up[b[n].first_child].up = n
                   /\ Begins(b[n].value, up[b[n].first_child].at)
                   /\ up[b[n].first_child].from = up[n].from
              /\ b[n].last_child # 0 => up[b[n].last_child].up = n
  BY <1>1, <1>2, <1>5
<1>14. \A n \in Ids(b) : b[n].next_sibling # 0 =>
        /\ up[b[n].next_sibling].up = up[n].up
        /\ up[b[n].next_sibling].from = up[n].to + 1
        /\ Follows(b[up[n].up].value, up[up[n].up].kw, up[n].at, up[b[n].next_sibling].at)
  BY <1>6, <1>12
<1>15. up \in [Ids(b) -> Facts]
  BY <1>4
<1>16. NO_NODE = 0 /\ Head_ = 1
  BY <1>1
<1>17. ASSUME NEW n \in Ids(b)
       PROVE  /\ b[n].first_child # NO_NODE =>
                   /\ up[b[n].first_child].up = n
                   /\ Begins(b[n].value, up[b[n].first_child].at)
                   /\ up[b[n].first_child].from = up[n].from
              /\ b[n].last_child # NO_NODE => up[b[n].last_child].up = n
              /\ n # Head_ /\ b[n].next_sibling = NO_NODE => b[up[n].up].last_child = n
              /\ b[n].next_sibling # NO_NODE =>
                   /\ up[b[n].next_sibling].up = up[n].up
                   /\ up[b[n].next_sibling].from = up[n].to + 1
                   /\ Follows(b[up[n].up].value, up[up[n].up].kw, up[n].at, up[b[n].next_sibling].at)
              /\ n # Head_ =>
                   /\ IsGrammar(b, up[n].up) /\ up[n].up < n
                   /\ Fits(b[up[n].up].value, up[up[n].up].kw, up[n].at, SymbolOf(b, tk, n))
              /\ b[n].type = "TOKEN" => up[n].from = b[n].value /\ up[n].to = b[n].value
              /\ IsStatement(b, n) => up[n].kw \in STATEMENT_START_KEYWORDS
  <2>1. b[n].first_child # NO_NODE =>
             /\ up[b[n].first_child].up = n
             /\ Begins(b[n].value, up[b[n].first_child].at)
             /\ up[b[n].first_child].from = up[n].from
    BY <1>13, <1>16
  <2>2. b[n].last_child # NO_NODE => up[b[n].last_child].up = n
    BY <1>13, <1>16
  <2>3. n # Head_ /\ b[n].next_sibling = NO_NODE => b[up[n].up].last_child = n
    BY <1>11, <1>16
  <2>4. n # Head_ =>
             /\ IsGrammar(b, up[n].up) /\ up[n].up < n
             /\ Fits(b[up[n].up].value, up[up[n].up].kw, up[n].at, SymbolOf(b, tk, n))
    BY <1>7, <1>16
  <2>5. b[n].next_sibling # NO_NODE =>
             /\ up[b[n].next_sibling].up = up[n].up
             /\ up[b[n].next_sibling].from = up[n].to + 1
             /\ Follows(b[up[n].up].value, up[up[n].up].kw, up[n].at, up[b[n].next_sibling].at)
    BY <1>14, <1>16
  <2>. QED  BY <2>1, <2>2, <2>3, <2>4, <2>5, <1>8, Zenon
<1>. QED  BY <1>9, <1>15, <1>16, <1>17, Zenon DEF Wired

-----------------------------------------------------------------------------
(***************************************************************************)
(* What a step does to the nodes and the functions.                        *)
(***************************************************************************)
\* The callers have come as far as the functions they have called.
CallerAt(f, reached) == Progress(f, reached, FALSE)

Called(a, q, st) ==
  \A d \in 1 .. Len(st) - 1 : CallerAt(st[d], Reached(a, q, st[d].node))

\* All but how far the function on top has come.
Half(a, q, st, pos) ==
  /\ Wired(a, q, tokens)
  /\ Completed(a, q, st)
  /\ UpTo(a, q, st[Len(st)].node, pos)
  /\ Framed(a, q, st)
  /\ Called(a, q, st)

\* A new node fits below another.
Joins(a, q, p, at) ==
  IF a[p].last_child = NO_NODE THEN Begins(a[p].value, at)
  ELSE Follows(a[p].value, q[p].kw, q[a[p].last_child].at, at)

\* The function on top has a node of its own, the last below the one of its
\* caller.
TopApart(st) ==
  \A d \in 1 .. Len(st) - 1 :
    st[d].node = st[Len(st)].node => st[Len(st)].fn = "BLOCK" /\ d = Len(st) - 1

LastOpen(a, st) ==
  Len(st) > 1 /\ st[Len(st)].fn # "BLOCK" => a[st[Len(st) - 1].node].last_child = st[Len(st)].node

LEMMA SpineApart ==
  ASSUME NEW a, NEW st, TreeAnd(a, st), Spine(a, st), NEW q, Framed(a, q, st), st # <<>>
  PROVE  TopApart(st) /\ LastOpen(a, st)
<1>1. PICK t : t = Len(st)
  OBVIOUS
<1>2. /\ t \in Nat \ {0} /\ st \in Seq(FrameSet)
      /\ \A d \in 1 .. t : st[d].node \in Ids(a) /\ st[d].node \in Nat
  BY <1>1 DEF TreeAnd, StackOK, IsGrammar, Ids
<1>3. \A d, e \in 1 .. t : d <= e => st[d].node <= st[e].node
  BY <1>1 DEF Spine
<1>4. ASSUME NEW d \in 2 .. t, st[d].fn # "BLOCK"
      PROVE  /\ st[d].node = a[st[d - 1].node].last_child
             /\ st[d - 1].node < st[d].node
  <2>1. st[d].node = a[st[d - 1].node].last_child
    BY <1>1, <1>4 DEF Spine
  <2>2. d - 1 \in 1 .. t /\ d \in 1 .. t
    BY <1>2
  <2>3. /\ a[st[d - 1].node].last_child \in {NO_NODE} \cup (st[d - 1].node + 1 .. Len(a))
    BY <1>2, <2>2 DEF TreeAnd, IsTree, LinksForward
  <2>4. st[d].node # 0
    BY <1>2, <2>2 DEF Ids
  <2>. QED  BY <1>2, <2>1, <2>2, <2>3, <2>4 DEF NO_NODE
<1>5. LastOpen(a, st)
  BY <1>1, <1>2, <1>4 DEF LastOpen
<1>6. ASSUME NEW d \in 1 .. t - 1, st[d].node = st[t].node
      PROVE  st[t].fn = "BLOCK" /\ d = t - 1
  <2>1. t \in 2 .. t /\ t - 1 \in 1 .. t /\ d \in 1 .. t /\ t \in 1 .. t /\ d <= t - 1
    BY <1>2
  <2>2. st[t].fn = "BLOCK"
    <3>. SUFFICES ASSUME st[t].fn # "BLOCK" PROVE FALSE
      OBVIOUS
    <3>1. st[t - 1].node < st[t].node
      BY <1>4, <2>1
    <3>2. st[d].node <= st[t - 1].node
      BY <1>3, <2>1
    <3>. QED  BY <1>2, <1>6, <2>1, <3>1, <3>2
  <2>3. st[t - 1].fn = "STATEMENT" /\ st[t - 1].node = st[t].node
    BY <1>1, <2>1, <2>2 DEF Framed, FrameFits
  <2>4. ASSUME d # t - 1 PROVE FALSE
    <3>1. t - 1 \in 2 .. t /\ t - 1 - 1 \in 1 .. t /\ d <= t - 1 - 1
      BY <2>1, <2>4
    <3>2. st[t - 1 - 1].node < st[t - 1].node
      BY <1>4, <2>3, <3>1
    <3>3. st[d].node <= st[t - 1 - 1].node
      BY <1>3, <2>1, <3>1
    <3>. QED  BY <1>2, <1>6, <2>1, <2>3, <3>1, <3>2, <3>3
  <2>. QED  BY <2>2, <2>4
<1>. QED  BY <1>1, <1>5, <1>6 DEF TopApart

\* A node k is added below that of the function on top, and u is the stack
\* then.
LEMMA GrowHalf ==
  ASSUME NEW a, NEW b, NEW p, NEW last, NEW k, k = Len(a) + 1,
         AddsLink(b, a, p, last), Extends(b, a), IsTree(a),
         NEW st, NEW t, t = Len(st), t \in Nat \ {0}, \A d \in 1 .. t : st[d].node \in Ids(a),
         st[t].node = p, TopApart(st),
         NEW q, Completed(a, q, st), Framed(a, q, st), Wired(a, q, tokens),
         Called(a, q, st),
         NEW r \in Facts,
         st[t].fn = "BLOCK" => r.at = 4,
         NEW up, up = [n \in Ids(b) |-> IF n = k THEN r ELSE q[n]]
  PROVE  /\ \A u : NodesOf(st) \subseteq NodesOf(u) /\ (b[k].type = "TOKEN" \/ k \in NodesOf(u)) =>
                   Completed(b, up, u)
         /\ Framed(b, up, st)
         /\ Reached(b, up, p) = r.at
         /\ up[p] = q[p]
         /\ Called(b, up, st)
<1>1. /\ Len(a) \in Nat /\ k \in Nat /\ Ids(a) = 1 .. Len(a) /\ Ids(b) = 1 .. k
      /\ p \in Ids(a) /\ k \notin Ids(a) /\ k # 0 /\ Ids(b) = Ids(a) \cup {k}
      /\ NO_NODE = 0 /\ Head_ = 1
      /\ a[p].type = "GRAMMAR"
  BY DEF AddsLink, Ids, NO_NODE, Head_
<1>2. /\ \A i \in Ids(a) :
           /\ b[i].last_child = IF i = p THEN k ELSE a[i].last_child
           /\ b[i].type = a[i].type /\ b[i].value = a[i].value
  BY DEF AddsLink, Ids, Extends
<1>3. \A i \in Ids(a) : a[i].last_child # 0 => a[i].last_child \in Ids(a)
  BY <1>1 DEF IsTree, LinksForward, NO_NODE
<1>4. /\ up[k] = r /\ \A n \in Ids(a) : up[n] = q[n]
  BY <1>1
<1>5. p \in NodesOf(st)
  BY DEF NodesOf
<1>6. ASSUME NEW u, NodesOf(st) \subseteq NodesOf(u), b[k].type = "TOKEN" \/ k \in NodesOf(u)
      PROVE  Completed(b, up, u)
  <2>. SUFFICES ASSUME NEW n \in Ids(b), b[n].type = "GRAMMAR", n \notin NodesOf(u), n # 1
       PROVE  Complete(b, up, n)
    BY <1>1 DEF Completed
  <2>1. n \in Ids(a) /\ n # p /\ n \notin NodesOf(st)
    BY <1>1, <1>5, <1>6
  <2>2. Complete(a, q, n)
    BY <1>1, <1>2, <2>1 DEF Completed
  <2>. QED  BY <1>1, <1>2, <1>3, <1>4, <2>1, <2>2 DEF Complete
<1>7. Framed(b, up, st)
  <2>1. \A d \in 1 .. t : b[st[d].node].value = a[st[d].node].value /\ up[st[d].node] = q[st[d].node]
    BY <1>2, <1>4
  <2>. QED  BY <2>1 DEF Framed, FrameFits
<1>8. Reached(b, up, p) = r.at
  BY <1>1, <1>2, <1>4 DEF Reached
<1>9. \A i \in Ids(a) : i # p => Reached(b, up, i) = Reached(a, q, i)
  BY <1>1, <1>2, <1>3, <1>4 DEF Reached
<1>10. ASSUME NEW d \in 1 .. t - 1
       PROVE  CallerAt(st[d], Reached(b, up, st[d].node))
  <2>0. d \in 1 .. t /\ t \in 1 .. t
    OBVIOUS
  <2>1. CASE st[d].node = p
    <3>1. st[t].fn = "BLOCK" /\ d = t - 1
      BY <2>1 DEF TopApart
    <3>2. st[d].fn = "STATEMENT" /\ st[d].at = 4
      BY <2>0, <3>1 DEF Framed, FrameFits
    <3>. QED  BY <1>8, <2>1, <3>1, <3>2 DEF CallerAt, Progress
  <2>2. CASE st[d].node # p
    BY <1>9, <2>0, <2>2 DEF Called
  <2>. QED  BY <2>1, <2>2
<1>. QED  BY <1>1, <1>4, <1>6, <1>7, <1>8, <1>10 DEF Called

\* The place and the piece of the input of a new node.
LEMMA FitsAt ==
  ASSUME NEW fn, NEW kw, NEW at, NEW symbol, Fits(fn, kw, at, symbol)
  PROVE  at \in Nat \ {0}
BY DEF Fits

LEMMA WiredType ==
  ASSUME NEW a, NEW q, NEW tk, Wired(a, q, tk), NEW n \in Ids(a)
  PROVE  /\ q[n] \in Facts /\ q[n].from \in Nat /\ q[n].to \in Nat /\ q[n].at \in Nat
         /\ q[n].up \in Nat /\ q[n].kw \in STATEMENT_START_KEYWORDS \cup {"none"}
BY DEF Wired, Facts

\* The token at the position becomes the last node below that of the function
\* on top.
LEMMA TokenHalf ==
  ASSUME PInv, Running, ~ Done, NEW q, Half(ast, q, stack, position),
         TopApart(stack), LastOpen(ast, stack), Top.fn # "BLOCK",
         NEW at, Joins(ast, q, Top.node, at),
         Fits(ast[Top.node].value, q[Top.node].kw, at, tokens[position])
  PROVE  \E up : /\ Half(WithToken, up, stack, position + 1)
                 /\ LastOpen(WithToken, stack)
                 /\ Reached(WithToken, up, Top.node) = at
                 /\ up[Top.node] = q[Top.node]
<1>1. PICK b, k, m, p, last : b = WithToken /\ k = Len(ast) + 1 /\ m = Len(stack)
                             /\ p = Top.node /\ last = ast[p].last_child
  OBVIOUS
<1>2. /\ Len(ast) \in Nat /\ Len(b) = k /\ b[k].type = "TOKEN" /\ b[k].value = position
  BY <1>1, TokenAdded
<1>3. AddsLink(b, ast, p, last) /\ Extends(b, ast) /\ IsTree(ast)
  BY <1>1, TokenLinks, TokenStep DEF PInv, TreeInv
<1>4. /\ m \in Nat \ {0} /\ stack[m] = Top /\ stack[m].node = p
      /\ \A d \in 1 .. m : stack[d].node \in Ids(ast)
      /\ p \in Ids(ast) /\ position \in Nat
  BY <1>1, TopFrame DEF PInv, StackOK, IsGrammar, Ids, Top
<1>5. PICK r : r = [up |-> p, at |-> at, kw |-> "none", from |-> position, to |-> position]
  OBVIOUS
<1>6. r \in Facts
  <2>1. at \in Nat /\ p \in Nat
    BY <1>4, FitsAt DEF Ids
  <2>. QED  BY <1>4, <1>5, <2>1 DEF Facts
<1>7. PICK up : up = [n \in Ids(b) |-> IF n = k THEN r ELSE q[n]]
  OBVIOUS
<1>8. /\ Wired(ast, q, tokens) /\ Completed(ast, q, stack) /\ Framed(ast, q, stack)
      /\ UpTo(ast, q, p, position)
      /\ Called(ast, q, stack)
  BY <1>1, <1>4 DEF Half
<1>9. /\ last = NO_NODE => Begins(ast[p].value, at) /\ position = q[p].from
      /\ last # NO_NODE => Follows(ast[p].value, q[p].kw, q[last].at, at) /\ position = q[last].to + 1
  <2>1. last # NO_NODE => last \in Ids(ast)
    BY <1>3, <1>4, <1>1 DEF IsTree, LinksForward, Ids
  <2>2. last # NO_NODE => q[last].to \in Nat
    BY <1>8, <2>1, WiredType
  <2>. QED  BY <1>1, <1>4, <1>8, <2>2 DEF Joins, UpTo
<1>10. SymbolOf(b, tokens, k) = tokens[position] /\ ~ IsStatement(b, k)
  BY <1>2 DEF SymbolOf, IsStatement
<1>11. /\ r.up = p /\ r.at = at /\ r.from = position /\ r.to = position
  BY <1>5
<1>12. Wired(b, up, tokens)
  BY <1>1, <1>2, <1>3, <1>6, <1>7, <1>8, <1>9, <1>10, <1>11, WiredGrows
<1>13. /\ Completed(b, up, stack) /\ Framed(b, up, stack) /\ Reached(b, up, p) = at /\ up[p] = q[p]
       /\ Called(b, up, stack)
  <2>1. stack[m].fn # "BLOCK" /\ m # 0
    BY <1>4
  <2>2. /\ \A u : NodesOf(stack) \subseteq NodesOf(u) /\ (b[k].type = "TOKEN" \/ k \in NodesOf(u)) =>
                   Completed(b, up, u)
        /\ Framed(b, up, stack) /\ Reached(b, up, p) = r.at /\ up[p] = q[p]
        /\ Called(b, up, stack)
    BY <1>1, <1>3, <1>4, <1>6, <1>7, <1>8, <2>1, GrowHalf
  <2>. QED  BY <1>2, <1>11, <2>2
<1>14. b[p].last_child = k /\ up[k] = r /\ k # NO_NODE
  BY <1>1, <1>2, <1>3, <1>4, <1>7 DEF AddsLink, Ids, NO_NODE
<1>15. UpTo(b, up, p, position + 1)
  BY <1>4, <1>11, <1>14 DEF UpTo
<1>16. LastOpen(b, stack)
  <2>. SUFFICES ASSUME m > 1, stack[m].fn # "BLOCK"
       PROVE  b[stack[m - 1].node].last_child = stack[m].node
    BY <1>1 DEF LastOpen
  <2>1. m - 1 \in 1 .. m - 1 /\ m - 1 \in 1 .. m
    BY <1>4
  <2>2. stack[m - 1].node # p
    BY <1>1, <1>4, <2>1 DEF TopApart
  <2>3. ast[stack[m - 1].node].last_child = stack[m].node
    BY <1>1 DEF LastOpen
  <2>. QED  BY <1>3, <1>4, <2>1, <2>2, <2>3 DEF AddsLink, Ids
<1>. QED  BY <1>1, <1>4, <1>12, <1>13, <1>15, <1>16 DEF Half

\* The function on top goes on at another place.
LEMMA ResumeHalf ==
  ASSUME PInv, Running, NEW a, NEW q, NEW pos, Half(a, q, stack, pos),
         NEW place \in Nat \ {0}, NEW st, st = Resume(place)
  PROVE  /\ Half(a, q, st, pos) /\ Len(st) = Len(stack)
         /\ st[Len(stack)].fn = Top.fn /\ st[Len(stack)].kw = Top.kw
         /\ st[Len(stack)].node = Top.node /\ st[Len(stack)].at = place
<1>1. PICK m : m = Len(stack)
  OBVIOUS
<1>2. /\ m \in Nat \ {0} /\ Len(st) = m /\ st \in Seq(FrameSet)
      /\ \A d \in 1 .. m - 1 : st[d] = stack[d]
      /\ st[m].fn = Top.fn /\ st[m].kw = Top.kw /\ st[m].node = Top.node /\ st[m].at = place
      /\ Top = stack[m]
  BY <1>1, ResumeAt DEF Top
<1>3. \A d \in 1 .. m : st[d].fn = stack[d].fn /\ st[d].node = stack[d].node /\ st[d].kw = stack[d].kw
  BY <1>2
<1>4. NodesOf(st) = NodesOf(stack)
  BY <1>1, <1>2, <1>3 DEF NodesOf
<1>5. Completed(a, q, st)
  BY <1>4 DEF Half, Completed
<1>6. Framed(a, q, st)
  <2>. SUFFICES ASSUME NEW d \in 1 .. m PROVE FrameFits(a, q, st, d)
    BY <1>2 DEF Framed
  <2>1. FrameFits(a, q, stack, d)
    BY <1>1 DEF Half, Framed
  <2>2. d > 1 => d - 1 \in 1 .. m - 1 /\ st[d - 1] = stack[d - 1]
    BY <1>2
  <2>. QED  BY <1>3, <2>1, <2>2 DEF FrameFits
<1>7. Called(a, q, st)
  BY <1>1, <1>2 DEF Half, Called
<1>8. UpTo(a, q, st[m].node, pos)
  BY <1>1, <1>2 DEF Half
<1>. QED  BY <1>1, <1>2, <1>5, <1>6, <1>7, <1>8 DEF Half

\* A function is called, with a node of its own below that of the caller.
LEMMA PushShaped ==
  ASSUME NEW a, NEW pos \in Nat, NEW sk, NEW N \in Nat, TreeInv(a, pos, sk, N),
         NEW st \in Seq(FrameSet), StackOK(st, a), NEW t, t = Len(st), t # 0,
         NEW p, p = st[t].node, NEW q, Half(a, q, st, pos), TopApart(st),
         LastOpen(a, st),
         NEW g \in EXPRESSIONS \cup {"STATEMENT"},
         NEW kw \in STATEMENT_START_KEYWORDS \cup {"none"},
         g = "STATEMENT" => kw # "none",
         NEW at, Joins(a, q, p, at), Fits(a[p].value, q[p].kw, at, g),
         st[t].fn = "BLOCK" => at = 4, CallerAt(st[t], at),
         NEW f, f = Frame(g, Len(a) + 1, kw)
  PROVE  \E up : Shaped(AddGrammar(a, p, g), up, Append(st, f), "none", pos, tokens)
<1>1. PICK b, k, last : b = AddGrammar(a, p, g) /\ k = Len(a) + 1 /\ last = a[p].last_child
  OBVIOUS
<1>2. t \in Nat \ {0} /\ (\A d \in 1 .. t : st[d].node \in Ids(a)) /\ p \in Ids(a) /\ IsGrammar(a, p)
  BY DEF StackOK, IsGrammar, Ids
<1>3. g \in GRAMMAR_TYPE /\ g \notin {"PROGRAM"}
  BY DEF EXPRESSIONS, GRAMMAR_TYPE
<1>4. AddsLink(b, a, p, last) /\ Extends(b, a) /\ IsTree(a)
  BY <1>1, <1>2, <1>3, GrammarLinks, GrowGrammar DEF TreeInv
<1>5. Len(a) \in Nat /\ Len(b) = k /\ b[k].type = "GRAMMAR" /\ b[k].value = g
  BY <1>1, <1>2, <1>3, GrammarAdded
<1>6. PICK r : r = [up |-> p, at |-> at, kw |-> kw, from |-> pos, to |-> pos]
  OBVIOUS
<1>7. r \in Facts /\ r.up = p /\ r.at = at /\ r.kw = kw /\ r.from = pos /\ r.to = pos
  <2>1. at \in Nat /\ p \in Nat
    BY <1>2, FitsAt DEF Ids
  <2>. QED  BY <1>6, <2>1 DEF Facts
<1>8. PICK up : up = [n \in Ids(b) |-> IF n = k THEN r ELSE q[n]]
  OBVIOUS
<1>9. /\ Wired(a, q, tokens) /\ Completed(a, q, st) /\ Framed(a, q, st)
      /\ UpTo(a, q, p, pos) /\ Called(a, q, st)
  BY DEF Half
<1>10. /\ last = NO_NODE => Begins(a[p].value, at) /\ pos = q[p].from
       /\ last # NO_NODE => Follows(a[p].value, q[p].kw, q[last].at, at) /\ pos = q[last].to + 1
  <2>1. last # NO_NODE => last \in Ids(a)
    BY <1>1, <1>2, <1>4 DEF IsTree, LinksForward, Ids
  <2>2. last # NO_NODE => q[last].to \in Nat
    BY <1>9, <2>1, WiredType
  <2>. QED  BY <1>1, <1>9, <2>2 DEF Joins, UpTo
<1>11. SymbolOf(b, tokens, k) = g /\ b[k].type # "TOKEN"
  BY <1>5 DEF SymbolOf
<1>12. IsStatement(b, k) => r.kw \in STATEMENT_START_KEYWORDS
  BY <1>5, <1>7 DEF IsStatement
<1>13. Wired(b, up, tokens)
  BY <1>1, <1>4, <1>7, <1>8, <1>9, <1>10, <1>11, <1>12, WiredGrows
<1>14. /\ \A u : NodesOf(st) \subseteq NodesOf(u) /\ (b[k].type = "TOKEN" \/ k \in NodesOf(u)) =>
                   Completed(b, up, u)
       /\ Framed(b, up, st) /\ Reached(b, up, p) = r.at /\ up[p] = q[p]
       /\ Called(b, up, st)
  BY <1>1, <1>2, <1>4, <1>7, <1>8, <1>9, GrowHalf
<1>15. PICK new : new = Append(st, f)
  OBVIOUS
<1>16. /\ Len(new) = t + 1 /\ new[t + 1] = f /\ \A d \in 1 .. t : new[d] = st[d]
       /\ f.fn = g /\ f.node = k /\ f.at = 1 /\ f.kw = kw
  BY <1>1, <1>15 DEF Frame
<1>17. NodesOf(st) \subseteq NodesOf(new) /\ k \in NodesOf(new)
  <2>1. \A d \in 1 .. t : d \in 1 .. t + 1 /\ new[d].node = st[d].node
    BY <1>2, <1>16
  <2>2. t + 1 \in 1 .. t + 1
    BY <1>2
  <2>. QED  BY <1>16, <2>1, <2>2 DEF NodesOf
<1>18. Completed(b, up, new)
  BY <1>14, <1>17
<1>19. up[k] = r /\ b[k].last_child = NO_NODE
  BY <1>1, <1>4, <1>5, <1>8 DEF AddsLink, Ids, Fresh
<1>20. UpTo(b, up, k, pos)
  BY <1>7, <1>19 DEF UpTo
<1>21. Framed(b, up, new)
  <2>. SUFFICES ASSUME NEW d \in 1 .. t + 1 PROVE FrameFits(b, up, new, d)
    BY <1>16 DEF Framed
  <2>1. CASE d = t + 1
    BY <1>5, <1>7, <1>16, <1>19, <2>1 DEF FrameFits, EXPRESSIONS
  <2>2. CASE d # t + 1
    <3>1. d \in 1 .. t /\ FrameFits(b, up, st, d)
      BY <1>2, <1>14, <2>2 DEF Framed
    <3>2. new[d] = st[d] /\ (d > 1 => d - 1 \in 1 .. t /\ new[d - 1] = st[d - 1])
      BY <1>2, <1>16, <3>1
    <3>. QED  BY <3>1, <3>2 DEF FrameFits
  <2>. QED  BY <2>1, <2>2
<1>22. Reached(b, up, k) = 0
  BY <1>19 DEF Reached
<1>23. Advanced(b, up, new, "none")
  <2>. SUFFICES ASSUME NEW d \in 1 .. t + 1
       PROVE  Progress(new[d], Reached(b, up, new[d].node), d = t + 1 /\ "none" = "none")
    BY <1>16 DEF Advanced
  <2>1. CASE d = t + 1
    BY <1>16, <1>22, <2>1 DEF Progress
  <2>2. CASE d = t
    <3>1. CallerAt(new[d], Reached(b, up, new[d].node)) /\ d # t + 1
      BY <1>2, <1>7, <1>14, <1>16, <2>2
    <3>. QED  BY <3>1 DEF CallerAt, Progress
  <2>3. CASE d # t + 1 /\ d # t
    <3>1. d \in 1 .. t - 1 /\ d \in 1 .. t
      BY <1>2, <2>3
    <3>2. CallerAt(new[d], Reached(b, up, new[d].node))
      BY <1>14, <1>16, <3>1 DEF Called
    <3>. QED  BY <2>3, <3>2 DEF CallerAt, Progress
  <2>. QED  BY <2>1, <2>2, <2>3
<1>24. CurrentOf(new) = k /\ new # <<>>
  BY <1>2, <1>15, <1>16 DEF CurrentOf
<1>. QED  BY <1>1, <1>13, <1>15, <1>18, <1>20, <1>21, <1>23, <1>24 DEF Shaped

\* What holds of every function that waits for the one that has returned.
LEMMA CallersAdvanced ==
  ASSUME NEW a, NEW q, NEW st, \A d \in 1 .. Len(st) : CallerAt(st[d], Reached(a, q, st[d].node))
  PROVE  Advanced(a, q, st, "true")
<1>. SUFFICES ASSUME NEW d \in 1 .. Len(st)
     PROVE  Progress(st[d], Reached(a, q, st[d].node), d = Len(st) /\ "true" = "none")
  BY DEF Advanced
<1>1. CallerAt(st[d], Reached(a, q, st[d].node))
  OBVIOUS
<1>. QED  BY <1>1 DEF CallerAt, Progress

\* A function that has added all it must returns to its caller.
LEMMA PopShaped ==
  ASSUME NEW a, NEW pos \in Nat, IsTree(a),
         NEW st \in Seq(FrameSet), StackOK(st, a), NEW t, t = Len(st), t > 1,
         NEW p, p = st[t].node, NEW q, Half(a, q, st, pos),
         LastOpen(a, st), st[t].fn \notin LOOPS,
         NEW c, c = a[p].last_child, c # NO_NODE, Ends(a[p].value, q[p].kw, q[c].at),
         NEW below, below = SubSeq(st, 1, t - 1)
  PROVE  \E up : Shaped(a, up, below, "true", pos, tokens)
<1>1. PICK z : z = st[t - 1].node
  OBVIOUS
<1>2. /\ t \in Nat /\ t - 1 \in 1 .. t /\ t \in 1 .. t /\ Len(below) = t - 1
      /\ \A d \in 1 .. t - 1 : below[d] = st[d] /\ d \in 1 .. t
      /\ \A d \in 1 .. t : st[d].node \in Ids(a) /\ a[st[d].node].type = "GRAMMAR"
      /\ p \in Ids(a) /\ z \in Ids(a)
  BY <1>1 DEF StackOK, IsGrammar, Ids
<1>3. /\ c \in Ids(a) /\ c # p /\ a[z].last_child = p /\ a[p].next_sibling = NO_NODE /\ p # NO_NODE
      /\ \A n \in Ids(a) : n # z => a[n].last_child # p
      /\ \A n \in Ids(a) : a[n].last_child # NO_NODE => a[n].last_child \in Ids(a)
      /\ \A n \in Ids(a) : a[n].next_sibling # NO_NODE => a[n].next_sibling \in Ids(a)
      /\ \A n \in Ids(a) : a[n].first_child # NO_NODE => a[n].first_child \in Ids(a)
  <2>1. a[z].last_child = p
    BY <1>1, <1>2 DEF LastOpen, LOOPS
  <2>2. p # NO_NODE
    BY <1>2 DEF Ids, NO_NODE
  <2>3. a[p].next_sibling = NO_NODE
    BY <1>2, <2>1, <2>2 DEF IsTree, EndsMeet
  <2>4. c \in Ids(a) /\ c # p
    BY <1>2 DEF IsTree, LinksForward, Ids, NO_NODE
  <2>5. \A n \in Ids(a) : n # z => a[n].last_child # p
    BY <1>2, <2>1, <2>2 DEF IsTree, LinksInjective
  <2>6. \A n \in Ids(a) :
          /\ a[n].last_child # NO_NODE => a[n].last_child \in Ids(a)
          /\ a[n].next_sibling # NO_NODE => a[n].next_sibling \in Ids(a)
          /\ a[n].first_child # NO_NODE => a[n].first_child \in Ids(a)
    BY DEF IsTree, LinksForward, Ids, NO_NODE
  <2>. QED  BY <2>1, <2>2, <2>3, <2>4, <2>5, <2>6
<1>4. /\ Wired(a, q, tokens) /\ Completed(a, q, st) /\ Framed(a, q, st) /\ Called(a, q, st)
      /\ q[c].to = pos - 1
  BY <1>3, <1>2 DEF Half, UpTo
<1>5. q \in [Ids(a) -> Facts]
  BY <1>4 DEF Wired
<1>6. PICK e : e = [up |-> q[p].up, at |-> q[p].at, kw |-> q[p].kw, from |-> q[p].from, to |-> q[c].to]
  OBVIOUS
<1>7. /\ e \in Facts /\ e.up = q[p].up /\ e.at = q[p].at /\ e.kw = q[p].kw /\ e.from = q[p].from
      /\ e.to = pos - 1
  <2>1. /\ q[p].up \in Nat /\ q[p].at \in Nat /\ q[p].kw \in STATEMENT_START_KEYWORDS \cup {"none"}
        /\ q[p].from \in Nat /\ q[c].to \in Nat
    BY <1>2, <1>3, <1>4, WiredType
  <2>. QED  BY <1>4, <1>6, <2>1 DEF Facts
<1>8. PICK up : up = [n \in Ids(a) |-> IF n = p THEN e ELSE q[n]]
  OBVIOUS
<1>9. /\ up \in [Ids(a) -> Facts] /\ up[p] = e /\ \A n \in Ids(a) : n # p => up[n] = q[n]
  BY <1>2, <1>5, <1>7, <1>8
<1>10. \A n \in Ids(a) :
         up[n].up = q[n].up /\ up[n].at = q[n].at /\ up[n].kw = q[n].kw /\ up[n].from = q[n].from
  BY <1>7, <1>9
<1>11. \A n \in Ids(a) : n # p => up[n].to = q[n].to
  BY <1>9
<1>12. Wired(a, up, tokens)
  <2>1. ASSUME NEW n \in Ids(a)
        PROVE  /\ a[n].first_child # NO_NODE =>
                    /\ up[a[n].first_child].up = n
                    /\ Begins(a[n].value, up[a[n].first_child].at)
                    /\ up[a[n].first_child].from = up[n].from
               /\ a[n].last_child # NO_NODE => up[a[n].last_child].up = n
    <3>1. /\ a[n].first_child # NO_NODE =>
               /\ q[a[n].first_child].up = n
               /\ Begins(a[n].value, q[a[n].first_child].at)
               /\ q[a[n].first_child].from = q[n].from
          /\ a[n].last_child # NO_NODE => q[a[n].last_child].up = n
      BY <1>4 DEF Wired
    <3>2. /\ a[n].first_child # NO_NODE => a[n].first_child \in Ids(a)
          /\ a[n].last_child # NO_NODE => a[n].last_child \in Ids(a)
      BY <1>3
    <3>. QED  BY <1>10, <3>1, <3>2
  <2>2. \A n \in Ids(a) : n # Head_ => q[n].up \in Ids(a) /\ IsGrammar(a, q[n].up) /\ q[n].up < n
    BY <1>4 DEF Wired, IsGrammar, Ids
  <2>3. ASSUME NEW n \in Ids(a), a[n].next_sibling # NO_NODE
        PROVE  /\ up[a[n].next_sibling].up = up[n].up
               /\ up[a[n].next_sibling].from = up[n].to + 1
               /\ Follows(a[up[n].up].value, up[up[n].up].kw, up[n].at, up[a[n].next_sibling].at)
    <3>1. n # p /\ n # Head_
      BY <1>3, <2>3 DEF IsTree, EndsMeet, Ids
    <3>2. PICK m, s : m = q[n].up /\ s = a[n].next_sibling
      OBVIOUS
    <3>3. m \in Ids(a) /\ s \in Ids(a)
      BY <1>3, <2>2, <2>3, <3>1, <3>2
    <3>4. /\ q[s].up = m /\ q[s].from = q[n].to + 1 /\ Follows(a[m].value, q[m].kw, q[n].at, q[s].at)
      BY <1>4, <2>3, <3>2 DEF Wired
    <3>5. /\ up[n].up = m /\ up[m].kw = q[m].kw /\ up[n].at = q[n].at /\ up[s].at = q[s].at
          /\ up[s].from = q[s].from /\ up[s].up = q[s].up /\ up[n].to = q[n].to
      BY <1>10, <1>11, <3>1, <3>2, <3>3
    <3>. QED  BY <3>2, <3>4, <3>5
  <2>4. ASSUME NEW n \in Ids(a), n # Head_
        PROVE  /\ IsGrammar(a, up[n].up) /\ up[n].up < n
               /\ Fits(a[up[n].up].value, up[up[n].up].kw, up[n].at, SymbolOf(a, tokens, n))
    <3>1. PICK m : m = q[n].up
      OBVIOUS
    <3>2. m \in Ids(a) /\ IsGrammar(a, m) /\ m < n
      BY <2>2, <2>4, <3>1
    <3>3. Fits(a[m].value, q[m].kw, q[n].at, SymbolOf(a, tokens, n))
      BY <1>4, <2>4, <3>1 DEF Wired
    <3>4. up[n].up = m /\ up[m].kw = q[m].kw /\ up[n].at = q[n].at
      BY <1>10, <3>1, <3>2
    <3>. QED  BY <3>2, <3>3, <3>4
  <2>5. ASSUME NEW n \in Ids(a)
        PROVE  /\ a[n].type = "TOKEN" => up[n].from = a[n].value /\ up[n].to = a[n].value
               /\ IsStatement(a, n) => up[n].kw \in STATEMENT_START_KEYWORDS
    <3>1. a[p].type = "GRAMMAR"
      BY <1>2
    <3>2. /\ a[n].type = "TOKEN" => q[n].from = a[n].value /\ q[n].to = a[n].value
          /\ IsStatement(a, n) => q[n].kw \in STATEMENT_START_KEYWORDS
      BY <1>4 DEF Wired
    <3>. QED  BY <1>10, <1>11, <3>1, <3>2
  <2>6. /\ up[Head_].from = 1 /\ up[Head_].up = 0
        /\ a[Head_].type = "GRAMMAR" /\ a[Head_].value = "PROGRAM"
    <3>1. Head_ \in Ids(a)
      BY <1>2 DEF Ids, Head_
    <3>. QED  BY <1>4, <1>10, <3>1 DEF Wired
  <2>7. \A n \in Ids(a) :
          n # Head_ /\ a[n].next_sibling = NO_NODE => a[up[n].up].last_child = n
    <3>1. \A n \in Ids(a) :
            n # Head_ /\ a[n].next_sibling = NO_NODE => a[q[n].up].last_child = n
      BY <1>4 DEF Wired
    <3>. QED  BY <1>10, <3>1
  <2>. QED  BY <1>9, <2>1, <2>3, <2>4, <2>5, <2>6, <2>7 DEF Wired
<1>13. Completed(a, up, below)
  <2>. SUFFICES ASSUME NEW n \in Ids(a), a[n].type = "GRAMMAR", n \notin NodesOf(below), n # Head_
       PROVE  Complete(a, up, n)
    BY DEF Completed
  <2>1. CASE n = p
    <3>1. up[c] = q[c] /\ up[p].kw = q[p].kw /\ up[p].to = pos - 1
      BY <1>2, <1>3, <1>7, <1>9
    <3>. QED  BY <1>4, <2>1, <3>1 DEF Complete
  <2>2. CASE n # p
    <3>1. n \notin NodesOf(st)
      <4>. SUFFICES ASSUME NEW d \in 1 .. t, n = st[d].node PROVE FALSE
        BY DEF NodesOf
      <4>1. d \in 1 .. t - 1
        BY <1>2, <2>2
      <4>2. below[d].node = n /\ d \in 1 .. Len(below)
        BY <1>2, <4>1
      <4>. QED  BY <4>2 DEF NodesOf
    <3>2. Complete(a, q, n)
      BY <1>4, <3>1 DEF Completed
    <3>3. n # z
      BY <1>1, <1>2, <3>1 DEF NodesOf
    <3>4. a[n].last_child # p /\ a[n].last_child \in Ids(a)
      BY <1>3, <3>2, <3>3 DEF Complete
    <3>. QED  BY <1>9, <2>2, <3>2, <3>4 DEF Complete
  <2>. QED  BY <2>1, <2>2
<1>14. UpTo(a, up, CurrentOf(below), pos)
  <2>1. CurrentOf(below) = z
    BY <1>1, <1>2 DEF CurrentOf
  <2>. QED  BY <1>3, <1>7, <1>9, <2>1 DEF UpTo
<1>15. Framed(a, up, below)
  <2>. SUFFICES ASSUME NEW d \in 1 .. t - 1 PROVE FrameFits(a, up, below, d)
    BY <1>2 DEF Framed
  <2>1. FrameFits(a, q, st, d)
    BY <1>2, <1>4 DEF Framed
  <2>2. below[d] = st[d] /\ (d > 1 => d - 1 \in 1 .. t - 1 /\ below[d - 1] = st[d - 1])
    BY <1>2
  <2>3. up[st[d].node].kw = q[st[d].node].kw
    BY <1>2, <1>10
  <2>. QED  BY <2>1, <2>2, <2>3 DEF FrameFits
<1>16. Advanced(a, up, below, "true")
  <2>. SUFFICES ASSUME NEW d \in 1 .. t - 1
       PROVE  CallerAt(below[d], Reached(a, up, below[d].node))
    BY <1>2, CallersAdvanced
  <2>1. CallerAt(st[d], Reached(a, q, st[d].node))
    BY <1>4 DEF Called
  <2>2. Reached(a, up, st[d].node) = Reached(a, q, st[d].node)
    BY <1>2, <1>3, <1>10 DEF Reached
  <2>. QED  BY <1>2, <2>1, <2>2
<1>. QED  BY <1>12, <1>13, <1>14, <1>15, <1>16 DEF Shaped

\* A loop returns: it has no node of its own.
LEMMA PopLoop ==
  ASSUME NEW a, NEW pos \in Nat,
         NEW st \in Seq(FrameSet), StackOK(st, a), NEW t, t = Len(st), t # 0,
         NEW q, Half(a, q, st, pos), st[t].fn \in LOOPS,
         NEW below, below = SubSeq(st, 1, t - 1)
  PROVE  Shaped(a, q, below, "true", pos, tokens)
<1>1. /\ t \in Nat /\ t \in 1 .. t /\ Len(below) = t - 1 /\ (t = 1 => below = <<>>)
      /\ \A d \in 1 .. t - 1 : below[d] = st[d] /\ d \in 1 .. t
  OBVIOUS
<1>2. /\ Wired(a, q, tokens) /\ Completed(a, q, st) /\ Framed(a, q, st) /\ Called(a, q, st)
      /\ UpTo(a, q, st[t].node, pos)
  BY DEF Half
<1>3. FrameFits(a, q, st, t)
  BY <1>1, <1>2 DEF Framed
<1>4. st[t].node = CurrentOf(below)
  <2>1. CASE t = 1
    BY <1>1, <1>3, <2>1 DEF CurrentOf, FrameFits, LOOPS
  <2>2. CASE t # 1
    <3>1. st[t].fn = "BLOCK" /\ st[t - 1].node = st[t].node
      BY <1>3, <2>2 DEF FrameFits, LOOPS
    <3>2. below[t - 1] = st[t - 1]
      BY <1>1, <2>2
    <3>3. below # <<>>
      <4>1. Len(below) # Len(<<>>)
        BY <1>1, <2>2
      <4>. QED  BY <4>1
    <3>. QED  BY <1>1, <3>1, <3>2, <3>3 DEF CurrentOf
  <2>. QED  BY <2>1, <2>2
<1>5. \A n \in NodesOf(st) : n \in NodesOf(below) \/ n = Head_
  <2>. SUFFICES ASSUME NEW d \in 1 .. t PROVE st[d].node \in NodesOf(below) \/ st[d].node = Head_
    BY DEF NodesOf
  <2>1. CASE d < t
    BY <1>1, <2>1 DEF NodesOf
  <2>2. CASE d = t
    <3>1. CASE below = <<>>
      BY <1>4, <2>2, <3>1 DEF CurrentOf
    <3>2. CASE below # <<>>
      <4>1. st[t].node = below[Len(below)].node /\ Len(below) \in 1 .. Len(below)
        BY <1>1, <1>4, <3>2 DEF CurrentOf
      <4>. QED  BY <2>2, <4>1 DEF NodesOf
    <3>. QED  BY <3>1, <3>2
  <2>. QED  BY <1>1, <2>1, <2>2
<1>6. Completed(a, q, below)
  BY <1>2, <1>5 DEF Completed
<1>7. Framed(a, q, below)
  <2>. SUFFICES ASSUME NEW d \in 1 .. t - 1 PROVE FrameFits(a, q, below, d)
    BY <1>1 DEF Framed
  <2>1. FrameFits(a, q, st, d)
    BY <1>1, <1>2 DEF Framed
  <2>2. below[d] = st[d] /\ (d > 1 => d - 1 \in 1 .. t - 1 /\ below[d - 1] = st[d - 1])
    BY <1>1
  <2>. QED  BY <2>1, <2>2 DEF FrameFits
<1>8. Advanced(a, q, below, "true")
  <2>. SUFFICES ASSUME NEW d \in 1 .. t - 1
       PROVE  CallerAt(below[d], Reached(a, q, below[d].node))
    BY <1>1, CallersAdvanced
  <2>. QED  BY <1>1, <1>2 DEF Called
<1>. QED  BY <1>2, <1>4, <1>6, <1>7, <1>8 DEF Shaped

\* A function is called as it stands, or after a token: the node it adds fits.
LEMMA CallShaped ==
  ASSUME PInv, Running, NEW fn \in EXPRESSIONS, NEW place \in Nat \ {0},
         NEW tree, NEW pos \in Nat, TreeInv(tree, pos, skipped, Len(tokens)), StackOK(stack, tree),
         NEW q, Half(tree, q, stack, pos), TopApart(stack), LastOpen(tree, stack),
         Call(fn, place, tree, pos), pos <= Len(tokens), Top.fn # "BLOCK",
         NEW at, Joins(tree, q, Top.node, at), Fits(tree[Top.node].value, q[Top.node].kw, at, fn),
         \A f : f.fn = Top.fn /\ f.kw = Top.kw /\ f.at = place => CallerAt(f, at)
  PROVE  ret' = "none" /\ position' = pos
         /\ \E up : Shaped(ast', up, stack', ret', position', tokens)
<1>1. PICK st, t, f : st = Resume(place) /\ t = Len(stack) /\ f = Frame(fn, Len(tree) + 1, "none")
  OBVIOUS
<1>2. /\ ast' = AddGrammar(tree, Top.node, fn) /\ stack' = Append(st, f)
      /\ ret' = "none" /\ position' = pos
  <2>1. Len(tokens) \in Nat
    BY DEF PInv
  <2>. QED  BY <1>1, <2>1 DEF Call
<1>3. /\ Half(tree, q, st, pos) /\ Len(st) = t /\ st[t].fn = Top.fn /\ st[t].kw = Top.kw
      /\ st[t].node = Top.node /\ st[t].at = place
  BY <1>1, ResumeHalf
<1>4. t \in Nat \ {0} /\ st \in Seq(FrameSet) /\ \A d \in 1 .. t - 1 : st[d] = stack[d]
  BY <1>1, TopFrame, ResumeAt DEF PInv
<1>5. \A d \in 1 .. t : st[d].node = stack[d].node /\ st[d].fn = stack[d].fn
  BY <1>1, <1>3, <1>4 DEF Top
<1>6. StackOK(st, tree)
  BY <1>1, <1>3, <1>4, <1>5 DEF StackOK
<1>7. TopApart(st)
  <2>1. \A d \in 1 .. t - 1 : d \in 1 .. t /\ t \in 1 .. t
    BY <1>4
  <2>. QED  BY <1>1, <1>3, <1>5, <2>1 DEF TopApart
<1>8. LastOpen(tree, st)
  <2>1. t > 1 => t - 1 \in 1 .. t /\ t \in 1 .. t
    BY <1>4
  <2>. QED  BY <1>1, <1>3, <1>5, <2>1 DEF LastOpen
<1>9. fn \in EXPRESSIONS \cup {"STATEMENT"} /\ "none" \in STATEMENT_START_KEYWORDS \cup {"none"}
      /\ (fn = "STATEMENT" => "none" # "none")
  BY DEF EXPRESSIONS
<1>10. CallerAt(st[t], at)
  BY <1>3
<1>11. \E up : Shaped(AddGrammar(tree, Top.node, fn), up, Append(st, f), "none", pos, tokens)
  <2>1. Len(tokens) \in Nat
    BY DEF PInv
  <2>2. PICK p : p = st[t].node
    OBVIOUS
  <2>. QED  BY <1>1, <1>3, <1>4, <1>6, <1>7, <1>8, <1>9, <1>10, <2>1, <2>2, PushShaped
<1>. QED  BY <1>2, <1>11

-----------------------------------------------------------------------------
(***************************************************************************)
(* The steps: as long as nothing has failed, the tree is shaped.           *)
(***************************************************************************)
\* Where a function may be told of a failure.
CallsFrom(f) ==
  /\ f.fn = "STATEMENT" => f.at <= Len(Form(f.kw))
  /\ f.fn \in EXPRESSIONS => f.at > 1

Calling(st) == \A d \in 1 .. Len(st) - 1 : CallsFrom(st[d])

\* A failure is on its way to the statement around it, which reports it.
Failing == Running /\ ret = "false" /\ Top.fn \notin LOOPS /\ CallsFrom(Top)

LEMMA ReachedNone ==
  ASSUME NEW a, NEW q, NEW tk, Wired(a, q, tk), LinksForward(a), NEW n \in Ids(a)
  PROVE  Reached(a, q, n) = 0 <=> a[n].last_child = NO_NODE
<1>. SUFFICES ASSUME a[n].last_child # NO_NODE PROVE q[a[n].last_child].at # 0
  BY DEF Reached
<1>1. PICK c : c = a[n].last_child
  OBVIOUS
<1>2. c \in Ids(a) /\ c # Head_
  BY <1>1 DEF LinksForward, Ids, Head_, NO_NODE
<1>3. Fits(a[q[c].up].value, q[q[c].up].kw, q[c].at, SymbolOf(a, tk, c))
  BY <1>2 DEF Wired
<1>4. q[c].at # 0
  BY <1>3, FitsAt
<1>. QED  BY <1>1, <1>4

LEMMA JoinsReached ==
  ASSUME NEW a, NEW q, NEW tk, Wired(a, q, tk), LinksForward(a), NEW n \in Ids(a), NEW at,
         \/ Reached(a, q, n) = 0 /\ Begins(a[n].value, at)
         \/ Reached(a, q, n) # 0 /\ Follows(a[n].value, q[n].kw, Reached(a, q, n), at)
  PROVE  Joins(a, q, n, at)
BY ReachedNone DEF Joins, Reached

LEMMA ShapedHalf ==
  ASSUME PInv, Running, NEW q, Shaped(ast, q, stack, ret, position, tokens)
  PROVE  /\ Half(ast, q, stack, position)
         /\ Progress(Top, Reached(ast, q, Top.node), ret = "none")
         /\ Top.fn \notin LOOPS => ast[Top.node].value = Top.fn /\ q[Top.node].kw = Top.kw
         /\ Top.fn = "STATEMENT" => Top.kw \in STATEMENT_START_KEYWORDS
         /\ Top.node \in Ids(ast)
<1>1. PICK t : t = Len(stack)
  OBVIOUS
<1>2. t \in Nat \ {0} /\ t \in 1 .. t /\ stack[t] = Top /\ CurrentOf(stack) = Top.node
  BY <1>1, TopFrame DEF PInv, Top, Running, CurrentOf
<1>3. Called(ast, q, stack)
  <2>. SUFFICES ASSUME NEW d \in 1 .. t - 1
       PROVE  CallerAt(stack[d], Reached(ast, q, stack[d].node))
    BY <1>1 DEF Called
  <2>1. d \in 1 .. t /\ d # t
    BY <1>2
  <2>2. Progress(stack[d], Reached(ast, q, stack[d].node), d = t /\ ret = "none")
    BY <1>1, <2>1 DEF Shaped, Advanced
  <2>. QED  BY <2>1, <2>2 DEF CallerAt, Progress
<1>4. Half(ast, q, stack, position)
  BY <1>1, <1>2, <1>3 DEF Shaped, Half
<1>5. Progress(Top, Reached(ast, q, Top.node), ret = "none")
  <2>1. Progress(stack[t], Reached(ast, q, stack[t].node), t = t /\ ret = "none")
    BY <1>1, <1>2 DEF Shaped, Advanced
  <2>. QED  BY <1>2, <2>1 DEF Progress
<1>6. FrameFits(ast, q, stack, t)
  BY <1>1, <1>2 DEF Shaped, Framed
<1>7. Top.node \in Ids(ast)
  BY TopFrame DEF PInv, IsGrammar, Ids
<1>. QED  BY <1>2, <1>4, <1>5, <1>6, <1>7 DEF FrameFits

LEMMA ReturnShaped ==
  ASSUME PInv, Running, RootInv(stack), Top.fn \notin LOOPS,
         Return("true"), NEW pos \in Nat, position' = pos, tokens' = tokens,
         NEW a, ast' = a, IsTree(a), StackOK(stack, a),
         NEW q, Half(a, q, stack, pos), LastOpen(a, stack), Reached(a, q, Top.node) # 0,
         Ends(a[Top.node].value, q[Top.node].kw, Reached(a, q, Top.node))
  PROVE  ret' = "true" /\ \E up : Shaped(ast', up, stack', ret', position', tokens')
<1>1. PICK t, p, c, below : t = Len(stack) /\ p = stack[t].node /\ c = a[p].last_child
                            /\ below = SubSeq(stack, 1, t - 1)
  OBVIOUS
<1>2. t \in Nat \ {0} /\ stack \in Seq(FrameSet) /\ Top = stack[t] /\ Top.node = p
  BY <1>1, TopFrame DEF PInv, StackOK, Top
<1>3. t > 1
  BY <1>2 DEF RootInv, Running, LOOPS
<1>4. stack' = below /\ ret' = "true"
  BY <1>1 DEF Return, Below
<1>5. c # NO_NODE /\ Reached(a, q, p) = q[c].at
  BY <1>1, <1>2 DEF Reached
<1>6. \E up : Shaped(a, up, below, "true", pos, tokens)
  BY <1>1, <1>2, <1>3, <1>5, PopShaped
<1>. QED  BY <1>4, <1>6

LEMMA FailsOn ==
  ASSUME PInv, Running, Nested(stack), RootInv(stack), Calling(stack), Top.fn \in EXPRESSIONS,
         Return("false")
  PROVE  Failing'
<1>1. PICK t : t = Len(stack)
  OBVIOUS
<1>2. t \in Nat /\ t > 1
  BY <1>1, TopFrame DEF PInv, RootInv, Running, Top, EXPRESSIONS
<1>3. stack' = Below /\ ret' = "false" /\ Len(Below) = t - 1 /\ Below[t - 1] = stack[t - 1]
  BY <1>1, <1>2, BelowAt DEF Return
<1>4. Below # <<>>
  <2>1. Len(Below) # Len(<<>>)
    BY <1>2, <1>3
  <2>. QED  BY <2>1
<1>5. stack[t - 1].fn \notin LOOPS
  BY <1>1, <1>2, t \in 2 .. t DEF Nested, EXPRESSIONS, LOOPS, Top
<1>6. CallsFrom(stack[t - 1])
  BY <1>1, <1>2, t - 1 \in 1 .. t - 1 DEF Calling
<1>7. PICK f : f = stack[t - 1]
  OBVIOUS
<1>8. Running' /\ Top' = f
  BY <1>3, <1>4, <1>7 DEF Running, Top
<1>. QED  BY <1>3, <1>5, <1>6, <1>7, <1>8 DEF Failing

LEMMA CallFails ==
  ASSUME PInv, Running, NEW fn, NEW place \in Nat \ {0}, NEW tree, NEW pos, pos > Len(tokens),
         Call(fn, place, tree, pos),
         (Top.fn \in EXPRESSIONS /\ place > 1) \/ (InForm /\ place = Top.at)
  PROVE  Failing'
<1>1. stack' = Resume(place) /\ ret' = "false"
  BY DEF Call
<1>2. PICK f, t : f = [Top EXCEPT !.at = place] /\ t = Len(stack)
  OBVIOUS
<1>3. /\ Len(Resume(place)) = t /\ Resume(place)[t].at = place /\ t \in Nat \ {0}
      /\ Resume(place)[t].fn = Top.fn /\ Resume(place)[t].kw = Top.kw
  BY <1>2, ResumeAt, TopFrame DEF PInv
<1>4. stack' # <<>>
  <2>1. Len(stack') # Len(<<>>)
    BY <1>1, <1>3
  <2>. QED  BY <2>1
<1>5. PICK g : g = Resume(place)[t]
  OBVIOUS
<1>6. Running' /\ Top' = g
  BY <1>1, <1>3, <1>4, <1>5 DEF Running, Top
<1>7. g.fn = Top.fn /\ g.kw = Top.kw /\ g.at = place
  BY <1>3, <1>5
<1>8. g.fn \notin LOOPS /\ CallsFrom(g)
  BY <1>7 DEF InForm, In, EXPRESSIONS, LOOPS, CallsFrom
<1>. QED  BY <1>1, <1>6, <1>8 DEF Failing

Now(q) ==
  /\ PInv /\ OInv /\ Nested(stack) /\ Calling(stack) /\ Running
  /\ ret # "false" /\ Shaped(ast, q, stack, ret, position, tokens)

After ==
  Failing' \/ (ret' # "false" /\ \E up : Shaped(ast', up, stack', ret', position', tokens'))

LEMMA NowKnown ==
  ASSUME NEW q, Now(q)
  PROVE  /\ TopApart(stack) /\ LastOpen(ast, stack)
         /\ RootInv(stack) /\ IsTree(ast) /\ LinksForward(ast) /\ StackOK(stack, ast)
         /\ TreeInv(ast, position, skipped, Len(tokens))
         /\ position \in Nat \ {0} /\ Len(tokens) \in Nat
         /\ Wired(ast, q, tokens) /\ Top.node \in Ids(ast)
         /\ Half(ast, q, stack, position)
<1>1. TreeAnd(ast, stack) /\ Spine(ast, stack)
  BY DEF Now, PInv, TreeInv, TreeAnd, OInv, SpineInv
<1>2. Framed(ast, q, stack) /\ stack # <<>> /\ Wired(ast, q, tokens)
  BY DEF Now, Shaped, Running
<1>3. TopApart(stack) /\ LastOpen(ast, stack)
  BY <1>1, <1>2, SpineApart
<1>4. Half(ast, q, stack, position) /\ Top.node \in Ids(ast)
  BY ShapedHalf DEF Now
<1>. QED  BY <1>1, <1>2, <1>3, <1>4 DEF Now, PInv, TreeInv, OInv, IsTree

\* The function on top, its node's rule and keyword, and how far it has come.
TopIs(q, own, kw, at) ==
  own = ast[Top.node].value /\ kw = q[Top.node].kw /\ at = Reached(ast, q, Top.node)

NextFits(own, kw, at, next, symbol) ==
  /\ (at = 0 /\ Begins(own, next)) \/ (at # 0 /\ Follows(own, kw, at, next))
  /\ Fits(own, kw, next, symbol)

\* The function on top may go on at a place with a node below its own.
ComesTo(place, at) ==
  /\ \A f : f.fn = Top.fn /\ f.kw = Top.kw /\ f.at = place => CallerAt(f, at)
  /\ Top.fn # "BLOCK"
  /\ (Top.fn \in EXPRESSIONS /\ place > 1) \/ (InForm /\ place = Top.at)

LEMMA PlainCall ==
  ASSUME NEW q, Now(q), NEW fn \in EXPRESSIONS, NEW place \in Nat \ {0},
         Call(fn, place, ast, position), tokens' = tokens,
         NEW own, NEW kw, NEW at, TopIs(q, own, kw, at),
         NEW next, NextFits(own, kw, at, next, fn), ComesTo(place, next)
  PROVE  After
<1>1. CASE position > Len(tokens)
  <2>1. PInv /\ Running
    BY DEF Now
  <2>2. Failing'
    <3>1. (Top.fn \in EXPRESSIONS /\ place > 1) \/ (InForm /\ place = Top.at)
      BY DEF ComesTo
    <3>. QED  BY <1>1, <2>1, <3>1, CallFails
  <2>. QED  BY <2>2 DEF After
<1>2. CASE ~ (position > Len(tokens))
  <2>1. Joins(ast, q, Top.node, next)
    BY NowKnown, JoinsReached DEF TopIs, NextFits
  <2>2. position <= Len(tokens)
    BY <1>2, NowKnown
  <2>4. /\ Fits(ast[Top.node].value, q[Top.node].kw, next, fn) /\ Top.fn # "BLOCK"
        /\ \A f : f.fn = Top.fn /\ f.kw = Top.kw /\ f.at = place => CallerAt(f, next)
    BY DEF TopIs, NextFits, ComesTo
  <2>3. ret' = "none" /\ position' = position
        /\ \E up : Shaped(ast', up, stack', ret', position', tokens)
    BY <2>1, <2>2, <2>4, NowKnown, CallShaped DEF Now
  <2>. QED  BY <2>3 DEF After
<1>. QED  BY <1>1, <1>2

LEMMA TokenCall ==
  ASSUME NEW q, Now(q), NEW fn \in EXPRESSIONS, NEW place \in Nat \ {0}, ~ Done,
         Call(fn, place, WithToken, position + 1), tokens' = tokens, Top.fn \in EXPRESSIONS,
         NEW own, NEW kw, NEW at, TopIs(q, own, kw, at),
         NEW next \in Nat \ {0}, NextFits(own, kw, at, next, tokens[position]),
         NEW after, NextFits(own, kw, next, after, fn), ComesTo(place, after)
  PROVE  After
<1>1. CASE position + 1 > Len(tokens)
  <2>1. PInv /\ Running
    BY DEF Now
  <2>2. PICK tree, pos : tree = WithToken /\ pos = position + 1
    OBVIOUS
  <2>3. Failing'
    <3>1. (Top.fn \in EXPRESSIONS /\ place > 1) \/ (InForm /\ place = Top.at)
      BY DEF ComesTo
    <3>. QED  BY <1>1, <2>1, <2>2, <3>1, CallFails
  <2>. QED  BY <2>3 DEF After
<1>2. CASE ~ (position + 1 > Len(tokens))
  <2>1. Joins(ast, q, Top.node, next)
    BY NowKnown, JoinsReached DEF TopIs, NextFits
  <2>2. position + 1 <= Len(tokens) /\ position + 1 \in Nat
    BY <1>2, NowKnown
  <2>3. Top.fn # "BLOCK" /\ Fits(ast[Top.node].value, q[Top.node].kw, next, tokens[position])
    BY DEF EXPRESSIONS, TopIs, NextFits
  <2>4. PICK up : /\ Half(WithToken, up, stack, position + 1)
                  /\ LastOpen(WithToken, stack)
                  /\ Reached(WithToken, up, Top.node) = next
                  /\ up[Top.node] = q[Top.node]
    BY <2>1, <2>3, NowKnown, TokenHalf DEF Now
  <2>5. PICK tree, p, pos : tree = WithToken /\ p = Top.node /\ pos = position + 1
    OBVIOUS
  <2>6. /\ TreeInv(tree, pos, skipped, Len(tokens)) /\ Extends(tree, ast)
        /\ Len(ast) \in Nat /\ Len(tree) \in Nat
    BY <2>5, TokenStep, TreeLen, NowKnown DEF Now
  <2>7. StackOK(stack, tree) /\ p \in Ids(tree) /\ LinksForward(tree)
    BY <2>5, <2>6, NowKnown, StackGrow DEF Extends, Ids, TreeInv, IsTree
  <2>8. tree[p].value = ast[p].value
    BY <2>5, <2>6, NowKnown DEF Extends
  <2>9. Wired(tree, up, tokens)
    BY <2>4, <2>5 DEF Half
  <2>10. /\ Reached(tree, up, p) = next /\ next # 0 /\ Follows(tree[p].value, up[p].kw, next, after)
         /\ Fits(tree[p].value, up[p].kw, after, fn)
    <3>1. Follows(own, kw, next, after) /\ Fits(own, kw, after, fn)
      BY DEF NextFits
    <3>. QED  BY <2>4, <2>5, <2>8, <3>1 DEF TopIs
  <2>11. Joins(tree, up, p, after)
    BY <2>7, <2>9, <2>10, JoinsReached
  <2>12. \A f : f.fn = Top.fn /\ f.kw = Top.kw /\ f.at = place => CallerAt(f, after)
    BY DEF ComesTo
  <2>13. ret' = "none" /\ position' = pos
         /\ \E u : Shaped(ast', u, stack', ret', position', tokens)
    BY <2>2, <2>3, <2>4, <2>5, <2>6, <2>7, <2>10, <2>11, <2>12, NowKnown, CallShaped DEF Now
  <2>. QED  BY <2>13 DEF After
<1>. QED  BY <1>1, <1>2

LEMMA PlainReturn ==
  ASSUME NEW q, Now(q), Return("true"), UNCHANGED <<tokens, position, ast>>, Top.fn \notin LOOPS,
         NEW own, NEW kw, NEW at \in Nat \ {0}, TopIs(q, own, kw, at), Ends(own, kw, at)
  PROVE  After
<1>1. PICK a, pos : a = ast /\ pos = position
  OBVIOUS
<1>2. ast' = a /\ position' = pos /\ tokens' = tokens /\ pos \in Nat
  BY <1>1, NowKnown
<1>3. ret' = "true" /\ \E up : Shaped(ast', up, stack', ret', position', tokens')
  <2>1. /\ Reached(ast, q, Top.node) # 0
        /\ Ends(ast[Top.node].value, q[Top.node].kw, Reached(ast, q, Top.node))
    BY DEF TopIs
  <2>. QED  BY <1>1, <1>2, <2>1, NowKnown, ReturnShaped DEF Now
<1>. QED  BY <1>3 DEF After

LEMMA TopKnown ==
  ASSUME NEW q, Now(q)
  PROVE  /\ Top.fn \notin LOOPS => TopIs(q, Top.fn, Top.kw, Reached(ast, q, Top.node))
         /\ Progress(Top, Reached(ast, q, Top.node), ret = "none")
         /\ Top.fn = "STATEMENT" => Top.kw \in STATEMENT_START_KEYWORDS
BY ShapedHalf DEF Now, TopIs

LEMMA TokenThenReturn ==
  ASSUME NEW q, Now(q), ~ Done, Top.fn \notin LOOPS,
         NEW own, NEW kw, NEW at, TopIs(q, own, kw, at),
         NextFits(own, kw, at, 1, tokens[position]), Ends(own, kw, 1),
         ast' = WithToken, position' = position + 1, tokens' = tokens, Return("true")
  PROVE  After
<1>1. PICK tree, p, pos : tree = WithToken /\ p = Top.node /\ pos = position + 1
  OBVIOUS
<1>2. Joins(ast, q, Top.node, 1)
  BY NowKnown, JoinsReached DEF TopIs, NextFits
<1>3. Top.fn # "BLOCK" /\ Fits(ast[Top.node].value, q[Top.node].kw, 1, tokens[position])
  BY DEF LOOPS, TopIs, NextFits
<1>4. PICK up : /\ Half(WithToken, up, stack, position + 1)
                /\ LastOpen(WithToken, stack)
                /\ Reached(WithToken, up, Top.node) = 1
                /\ up[Top.node] = q[Top.node]
  BY <1>2, <1>3, NowKnown, TokenHalf DEF Now
<1>5. /\ TreeInv(tree, pos, skipped, Len(tokens)) /\ Extends(tree, ast)
      /\ Len(ast) \in Nat /\ Len(tree) \in Nat
  BY <1>1, TokenStep, TreeLen, NowKnown DEF Now
<1>6. StackOK(stack, tree) /\ IsTree(tree)
  BY <1>1, <1>5, NowKnown, StackGrow DEF TreeInv
<1>7. tree[p].value = ast[p].value
  BY <1>1, <1>5, NowKnown DEF Extends
<1>8. pos \in Nat /\ position' = pos /\ ast' = tree
  BY <1>1, NowKnown
<1>9. Reached(tree, up, Top.node) # 0
      /\ Ends(tree[Top.node].value, up[Top.node].kw, Reached(tree, up, Top.node))
  BY <1>1, <1>4, <1>7 DEF TopIs
<1>10. Half(tree, up, stack, pos) /\ LastOpen(tree, stack)
  BY <1>1, <1>4
<1>11. ret' = "true" /\ \E u : Shaped(ast', u, stack', ret', position', tokens')
  BY <1>6, <1>8, <1>9, <1>10, NowKnown, ReturnShaped DEF Now
<1>. QED  BY <1>11 DEF After

LEMMA FailReturn ==
  ASSUME NEW q, Now(q), Top.fn \in EXPRESSIONS, Return("false")
  PROVE  After
BY NowKnown, FailsOn DEF Now, After

LEMMA PrimaryShapes == ASSUME NEW q, Now(q), ParsePrimary PROVE After
<1>1. Top.fn = "PRIMARY" /\ Top.at = 1 /\ tokens' = tokens
  BY DEF ParsePrimary, At, In
<1>2. PICK at, kw : at = Reached(ast, q, Top.node) /\ kw = Top.kw
  OBVIOUS
<1>3. /\ TopIs(q, "PRIMARY", kw, at) /\ Top.fn \notin LOOPS /\ Top.fn \in EXPRESSIONS
      /\ Progress(Top, at, ret = "none")
  BY <1>1, <1>2, TopKnown DEF LOOPS, EXPRESSIONS
<1>4. CASE Expect({"NUMBER", "IDENT"})
  <2>1. ~ Done /\ tokens[position] \in {"NUMBER", "IDENT"}
    BY <1>4 DEF Expect
  <2>2. ast' = WithToken /\ position' = position + 1 /\ Return("true")
    BY <1>4 DEF ParsePrimary
  <2>3. at = 0
    BY <1>1, <1>3 DEF Progress
  <2>4. NextFits("PRIMARY", kw, at, 1, tokens[position]) /\ Ends("PRIMARY", kw, 1)
    BY <2>1, <2>3 DEF NextFits, Fits, Begins, Ends
  <2>. QED  BY <1>1, <1>3, <2>1, <2>2, <2>4, TokenThenReturn
<1>5. CASE ~ Expect({"NUMBER", "IDENT"})
  <2>1. Return("false")
    BY <1>5 DEF ParsePrimary
  <2>. QED  BY <1>3, <2>1, FailReturn
<1>. QED  BY <1>4, <1>5

LEMMA UnaryShapes == ASSUME NEW q, Now(q), ParseUnary PROVE After
<1>1. Top.fn = "UNARY" /\ tokens' = tokens
  BY DEF ParseUnary, At, In
<1>2. PICK at, kw : at = Reached(ast, q, Top.node) /\ kw = Top.kw
  OBVIOUS
<1>3. /\ TopIs(q, "UNARY", kw, at) /\ Top.fn \notin LOOPS /\ Top.fn \in EXPRESSIONS
      /\ Progress(Top, at, ret = "none")
  BY <1>1, <1>2, TopKnown DEF LOOPS, EXPRESSIONS
<1>4. CASE Top.at = 1
  <2>1. at = 0
    BY <1>1, <1>3, <1>4 DEF Progress
  <2>2. ComesTo(2, 2)
    BY <1>1 DEF CallerAt, Progress, ComesTo, EXPRESSIONS
  <2>3. NextFits("UNARY", kw, 0, 2, "PRIMARY") /\ NextFits("UNARY", kw, 1, 2, "PRIMARY")
    BY DEF NextFits, Fits, Begins, Follows
  <2>4. "PRIMARY" \in EXPRESSIONS
    BY DEF EXPRESSIONS
  <2>5. CASE Expect(SIGNS)
    <3>1. ~ Done /\ NextFits("UNARY", kw, at, 1, tokens[position])
      BY <2>1, <2>5 DEF Expect, Fits, NextFits, Begins
    <3>2. Call("PRIMARY", 2, WithToken, position + 1)
      BY <1>4, <2>5 DEF ParseUnary, At
    <3>. QED  BY <1>1, <1>3, <2>2, <2>3, <2>4, <3>1, <3>2, TokenCall
  <2>6. CASE ~ Expect(SIGNS)
    <3>1. Call("PRIMARY", 2, ast, position)
      BY <1>4, <2>6 DEF ParseUnary, At
    <3>. QED  BY <1>1, <1>3, <2>1, <2>2, <2>3, <2>4, <3>1, PlainCall
  <2>. QED  BY <2>5, <2>6
<1>5. CASE Top.at # 1
  <2>1. Top.at = 2 /\ Return(ret) /\ UNCHANGED <<tokens, position, ast>>
    BY <1>1, <1>5 DEF ParseUnary, At
  <2>2. at = 2 /\ ret # "none"
    BY <1>1, <1>3, <2>1 DEF Progress
  <2>3. ret = "true"
    BY <2>2 DEF Now, PInv
  <2>4. Ends("UNARY", kw, at) /\ at \in Nat \ {0}
    BY <2>2 DEF Ends
  <2>. QED  BY <1>3, <2>1, <2>3, <2>4, PlainReturn
<1>. QED  BY <1>4, <1>5

LEMMA ChainShapes ==
  ASSUME NEW q, Now(q), NEW fn, NEW operand, NEW operators,
         \/ fn = "TERM" /\ operand = "UNARY" /\ operators = {"DIV", "MULT"}
         \/ fn = "EXPRESSION" /\ operand = "TERM" /\ operators = SIGNS,
         ParseChain(fn, operand, operators)
  PROVE  After
<1>1. Top.fn = fn /\ tokens' = tokens /\ fn \in {"TERM", "EXPRESSION"}
  BY DEF ParseChain, At, In
<1>2. PICK at, kw : at = Reached(ast, q, Top.node) /\ kw = Top.kw
  OBVIOUS
<1>3. /\ TopIs(q, fn, kw, at) /\ Top.fn \notin LOOPS /\ Top.fn \in EXPRESSIONS
      /\ Progress(Top, at, ret = "none")
  BY <1>1, <1>2, TopKnown DEF LOOPS, EXPRESSIONS
<1>4. /\ NextFits(fn, kw, 0, 1, operand) /\ NextFits(fn, kw, 2, 1, operand)
      /\ Ends(fn, kw, 1) /\ operand \in EXPRESSIONS
  BY <1>1 DEF Begins, Follows, Fits, Ends, NextFits, EXPRESSIONS
<1>5. ComesTo(2, 1)
  BY <1>1, <1>3 DEF ComesTo, CallerAt, Progress, EXPRESSIONS
<1>6. CASE Top.at = 1
  <2>1. at = 0 /\ Call(operand, 2, ast, position)
    BY <1>1, <1>3, <1>6 DEF Progress, ParseChain, At
  <2>. QED  BY <1>1, <1>3, <1>4, <1>5, <2>1, PlainCall
<1>7. CASE Top.at # 1
  <2>1. Top.at = 2
    BY <1>1, <1>7 DEF ParseChain, At
  <2>2. at = 1 /\ ret # "none"
    BY <1>1, <1>3, <2>1 DEF Progress
  <2>3. ret = "true"
    BY <2>2 DEF Now, PInv
  <2>4. CASE Expect(operators)
    <3>1. ~ Done /\ NextFits(fn, kw, at, 2, tokens[position])
      BY <2>2, <2>4, <1>1 DEF Expect, Fits, NextFits, Follows
    <3>2. Call(operand, 2, WithToken, position + 1)
      BY <2>1, <2>3, <2>4 DEF ParseChain, At
    <3>. QED  BY <1>1, <1>3, <1>4, <1>5, <3>1, <3>2, TokenCall
  <2>5. CASE ~ Expect(operators)
    <3>1. Return("true") /\ UNCHANGED <<tokens, position, ast>>
      BY <2>1, <2>3, <2>5 DEF ParseChain, At
    <3>. QED  BY <1>3, <1>4, <2>2, <3>1, PlainReturn
  <2>. QED  BY <2>4, <2>5
<1>. QED  BY <1>6, <1>7

LEMMA ComparisonShapes == ASSUME NEW q, Now(q), ParseComparison PROVE After
<1>1. Top.fn = "COMPARISON" /\ tokens' = tokens
  BY DEF ParseComparison, At, In
<1>2. PICK at, kw : at = Reached(ast, q, Top.node) /\ kw = Top.kw
  OBVIOUS
<1>3. /\ TopIs(q, "COMPARISON", kw, at) /\ Top.fn \notin LOOPS /\ Top.fn \in EXPRESSIONS
      /\ Progress(Top, at, ret = "none")
  BY <1>1, <1>2, TopKnown DEF LOOPS, EXPRESSIONS
<1>4. /\ NextFits("COMPARISON", kw, 0, 1, "EXPRESSION") /\ NextFits("COMPARISON", kw, 2, 3, "EXPRESSION")
      /\ Ends("COMPARISON", kw, 3) /\ "EXPRESSION" \in EXPRESSIONS
  BY DEF Begins, Follows, Fits, Ends, NextFits, EXPRESSIONS
<1>5. ComesTo(2, 1) /\ ComesTo(3, 3)
  BY <1>1, <1>3 DEF ComesTo, CallerAt, Progress, EXPRESSIONS
<1>6. CASE Top.at = 1
  <2>1. at = 0 /\ Call("EXPRESSION", 2, ast, position)
    BY <1>1, <1>3, <1>6 DEF Progress, ParseComparison, At
  <2>. QED  BY <1>1, <1>3, <1>4, <1>5, <2>1, PlainCall
<1>7. CASE Top.at = 2
  <2>1. at = 1 /\ ret # "none"
    BY <1>1, <1>3, <1>7 DEF Progress
  <2>2. ret = "true"
    BY <2>1 DEF Now, PInv
  <2>3. CASE Expect(COMPARISON_OPS)
    <3>1. ~ Done /\ NextFits("COMPARISON", kw, at, 2, tokens[position])
      BY <2>1, <2>3 DEF Expect, Fits, NextFits, Follows
    <3>2. Call("EXPRESSION", 3, WithToken, position + 1)
      BY <1>7, <2>2, <2>3 DEF ParseComparison, At
    <3>. QED  BY <1>1, <1>3, <1>4, <1>5, <3>1, <3>2, TokenCall
  <2>4. CASE ~ Expect(COMPARISON_OPS)
    <3>1. Return("false")
      BY <1>7, <2>4 DEF ParseComparison, At
    <3>. QED  BY <1>3, <3>1, FailReturn
  <2>. QED  BY <2>3, <2>4
<1>8. CASE Top.at # 1 /\ Top.at # 2
  <2>1. Top.at = 3 /\ Return(ret) /\ UNCHANGED <<tokens, position, ast>>
    BY <1>1, <1>8 DEF ParseComparison, At
  <2>2. at = 3 /\ ret # "none"
    BY <1>1, <1>3, <2>1 DEF Progress
  <2>3. ret = "true"
    BY <2>2 DEF Now, PInv
  <2>. QED  BY <1>3, <1>4, <2>1, <2>2, <2>3, PlainReturn
<1>. QED  BY <1>6, <1>7, <1>8

-----------------------------------------------------------------------------
(***************************************************************************)
(* The steps of a statement and of a loop.                                 *)
(***************************************************************************)
\* A function that goes on, with no other called at its place yet.
FreshAt(f, reached) == Progress(f, reached, TRUE)

LEMMA FreshAdvanced ==
  ASSUME NEW a, NEW q, NEW st, NEW t \in Nat \ {0}, t = Len(st), Called(a, q, st),
         FreshAt(st[t], Reached(a, q, st[t].node))
  PROVE  Advanced(a, q, st, "none")
<1>. SUFFICES ASSUME NEW d \in 1 .. t
     PROVE  Progress(st[d], Reached(a, q, st[d].node), d = t /\ "none" = "none")
  BY DEF Advanced
<1>1. CASE d = t
  BY <1>1 DEF FreshAt, Progress
<1>2. CASE d # t
  <2>1. CallerAt(st[d], Reached(a, q, st[d].node))
    BY <1>2 DEF Called
  <2>. QED  BY <1>2, <2>1 DEF CallerAt, Progress
<1>. QED  BY <1>1, <1>2

LEMMA ResumeShaped ==
  ASSUME PInv, Running, NEW a, NEW q, NEW pos, Half(a, q, stack, pos),
         NEW place \in Nat \ {0}, NEW st, st = Resume(place),
         \A f : f.fn = Top.fn /\ f.kw = Top.kw /\ f.at = place =>
           FreshAt(f, Reached(a, q, Top.node))
  PROVE  Shaped(a, q, st, "none", pos, tokens)
<1>1. PICK t : t = Len(stack)
  OBVIOUS
<1>2. /\ Half(a, q, st, pos) /\ Len(st) = t /\ st[t].fn = Top.fn /\ st[t].kw = Top.kw
      /\ st[t].node = Top.node /\ st[t].at = place
  BY <1>1, ResumeHalf
<1>3. t \in Nat \ {0}
  BY <1>1, TopFrame DEF PInv
<1>4. FreshAt(st[t], Reached(a, q, st[t].node))
  BY <1>2
<1>5. Advanced(a, q, st, "none")
  BY <1>2, <1>3, <1>4, FreshAdvanced DEF Half
<1>6. CurrentOf(st) = st[t].node
  <2>1. st # <<>>
    BY <1>2, <1>3
  <2>. QED  BY <1>2, <2>1 DEF CurrentOf
<1>. QED  BY <1>2, <1>5, <1>6 DEF Half, Shaped

LEMMA FormLength ==
  ASSUME NEW kw
  PROVE  Len(Form(kw)) \in Nat /\ Len(Form(kw)) >= 2 /\ (kw \in {"IF", "WHILE"} => Len(Form(kw)) = 5)
<1>1. CASE kw = "PRINT"
  <2>1. Form(kw) = <<Token({"PRINT"}), TokenOr({"STRING"}, "EXPRESSION")>>
    BY <1>1, FormCases
  <2>. QED  BY <1>1, <2>1
<1>2. CASE kw = "IF"
  <2>1. Form(kw) = <<Token({"IF"}), Part("COMPARISON"), Token({"THEN"}),
                     Part("BLOCK"), Token({"ENDIF"})>>
    BY <1>2, FormCases
  <2>. QED  BY <2>1
<1>3. CASE kw = "WHILE"
  <2>1. Form(kw) = <<Token({"WHILE"}), Part("COMPARISON"), Token({"REPEAT"}),
                     Part("BLOCK"), Token({"ENDWHILE"})>>
    BY <1>3, FormCases
  <2>. QED  BY <2>1
<1>4. CASE kw = "LET"
  <2>1. Form(kw) = <<Token({"LET"}), Ident, Token({"EQ"}), Part("EXPRESSION")>>
    BY <1>4, FormCases
  <2>. QED  BY <1>4, <2>1
<1>5. CASE kw \notin {"PRINT", "IF", "WHILE", "LET"}
  <2>1. Form(kw) = <<Token({kw}), Ident>>
    BY <1>5, FormCases
  <2>. QED  BY <1>5, <2>1
<1>. QED  BY <1>1, <1>2, <1>3, <1>4, <1>5

\* The statement that is running, and what it has added last.
LEMMA StatementTop ==
  ASSUME NEW q, Now(q), In("STATEMENT"), NEW at, at = Top.at, NEW kw, kw = Top.kw,
         NEW reached, reached = Reached(ast, q, Top.node)
  PROVE  /\ TopIs(q, "STATEMENT", kw, reached)
         /\ Top.fn = "STATEMENT" /\ Top.fn \notin LOOPS /\ Top.fn # "BLOCK"
         /\ at \in Nat \ {0} /\ kw \in STATEMENT_START_KEYWORDS
         /\ reached \in 0 .. Len(Form(kw))
         /\ ret = "none" => reached = at - 1 \/ (at = 5 /\ kw \in {"IF", "WHILE"} /\ reached = 3)
         /\ ret = "true" => reached = at \/ (at = 4 /\ kw \in {"IF", "WHILE"} /\ reached = 3)
<1>1. Top.fn = "STATEMENT" /\ Top.fn \notin LOOPS
  BY DEF In, LOOPS
<1>2. TopIs(q, "STATEMENT", kw, reached) /\ Progress(Top, reached, ret = "none")
      /\ kw \in STATEMENT_START_KEYWORDS
  BY <1>1, TopKnown
<1>3. at \in Nat \ {0}
  BY TopFrame DEF Now, PInv, FrameSet
<1>4. PICK p, c : p = Top.node /\ c = ast[p].last_child
  OBVIOUS
<1>5. reached \in 0 .. Len(Form(kw))
  <2>1. CASE c = NO_NODE
    BY <1>4, <2>1, FormLength DEF Reached
  <2>2. CASE c # NO_NODE
    <3>1. c \in Ids(ast) /\ c # Head_ /\ Wired(ast, q, tokens) /\ p \in Ids(ast)
      BY <1>4, <2>2, NowKnown DEF LinksForward, Ids, Head_, NO_NODE
    <3>2. q[c].up = p /\ Fits(ast[q[c].up].value, q[q[c].up].kw, q[c].at, SymbolOf(ast, tokens, c))
      BY <1>4, <2>2, <3>1 DEF Wired
    <3>3. Fits("STATEMENT", kw, q[c].at, SymbolOf(ast, tokens, c))
      BY <1>2, <1>4, <3>2 DEF TopIs
    <3>4. q[c].at \in 1 .. Len(Form(kw))
      BY <3>3 DEF Fits
    <3>5. reached = q[c].at
      BY <1>4, <2>2 DEF Reached
    <3>. QED  BY <3>4, <3>5, FormLength
  <2>. QED  BY <2>1, <2>2
<1>6. ret = "none" => reached = at - 1 \/ (at = 5 /\ kw \in {"IF", "WHILE"} /\ reached = 3)
  BY <1>1, <1>2 DEF Progress, LOOPS, EXPRESSIONS
<1>7. ret = "true" => reached = at \/ (at = 4 /\ kw \in {"IF", "WHILE"} /\ reached = 3)
  BY <1>1, <1>2 DEF Progress, LOOPS, EXPRESSIONS
<1>. QED  BY <1>1, <1>2, <1>3, <1>5, <1>6, <1>7

\* A symbol stands at the place of the running statement.
LEMMA StatementFits ==
  ASSUME NEW kw \in STATEMENT_START_KEYWORDS, NEW at \in Nat \ {0}, at <= Len(Form(kw)), NEW reached,
         reached = at - 1 \/ (at = 5 /\ kw \in {"IF", "WHILE"} /\ reached = 3),
         NEW symbol, \/ symbol \in Form(kw)[at].expect
                     \/ symbol \in {"COMPARISON", "EXPRESSION"} /\ symbol = Form(kw)[at].call
  PROVE  NextFits("STATEMENT", kw, reached, at, symbol)
<1>1. Fits("STATEMENT", kw, at, symbol)
  BY FormLength DEF Fits
<1>2. (reached = 0 /\ Begins("STATEMENT", at)) \/ (reached # 0 /\ Follows("STATEMENT", kw, reached, at))
  BY DEF Begins, Follows
<1>. QED  BY <1>1, <1>2 DEF NextFits

LEMMA StatementTokenShapes == ASSUME NEW q, Now(q), StatementToken PROVE After
<1>1. PICK at, kw, reached : at = Top.at /\ kw = Top.kw /\ reached = Reached(ast, q, Top.node)
  OBVIOUS
<1>2. /\ In("STATEMENT") /\ at <= Len(Form(kw)) /\ ret = "none" /\ ~ Done
      /\ tokens[position] \in Form(kw)[at].expect
      /\ ast' = WithToken /\ position' = position + 1 /\ stack' = Resume(at + 1)
      /\ tokens' = tokens /\ ret' = "none"
  BY <1>1 DEF StatementToken, InForm, Expect, Item
<1>3. /\ TopIs(q, "STATEMENT", kw, reached) /\ Top.fn = "STATEMENT" /\ Top.fn # "BLOCK"
      /\ at \in Nat \ {0} /\ kw \in STATEMENT_START_KEYWORDS
      /\ reached = at - 1 \/ (at = 5 /\ kw \in {"IF", "WHILE"} /\ reached = 3)
  BY <1>1, <1>2, StatementTop
<1>4. NextFits("STATEMENT", kw, reached, at, tokens[position])
  BY <1>2, <1>3, StatementFits
<1>5. Joins(ast, q, Top.node, at)
  BY <1>3, <1>4, NowKnown, JoinsReached DEF TopIs, NextFits
<1>6. Fits(ast[Top.node].value, q[Top.node].kw, at, tokens[position])
  BY <1>3, <1>4 DEF TopIs, NextFits
<1>7. PICK tree, pos : tree = WithToken /\ pos = position + 1
  OBVIOUS
<1>8. PICK up : Half(tree, up, stack, pos) /\ Reached(tree, up, Top.node) = at
  BY <1>2, <1>3, <1>5, <1>6, <1>7, NowKnown, TokenHalf DEF Now
<1>9. at + 1 \in Nat \ {0}
  BY <1>3
<1>10. \A f : f.fn = Top.fn /\ f.kw = Top.kw /\ f.at = at + 1 =>
              FreshAt(f, Reached(tree, up, Top.node))
  BY <1>3, <1>8 DEF FreshAt, Progress
<1>11. Shaped(tree, up, stack', "none", pos, tokens)
  BY <1>2, <1>8, <1>9, <1>10, ResumeShaped DEF Now
<1>. QED  BY <1>2, <1>7, <1>11 DEF After

LEMMA StatementCallShapes == ASSUME NEW q, Now(q), StatementCall PROVE After
<1>1. PICK at, kw, reached : at = Top.at /\ kw = Top.kw /\ reached = Reached(ast, q, Top.node)
  OBVIOUS
<1>2. PICK fn : fn = Form(kw)[at].call
  OBVIOUS
<1>3. /\ In("STATEMENT") /\ InForm /\ at <= Len(Form(kw)) /\ ret = "none"
      /\ fn \in {"COMPARISON", "EXPRESSION"} /\ Call(fn, at, ast, position) /\ tokens' = tokens
  BY <1>1, <1>2 DEF StatementCall, InForm, Item
<1>4. /\ TopIs(q, "STATEMENT", kw, reached) /\ Top.fn = "STATEMENT" /\ Top.fn # "BLOCK"
      /\ at \in Nat \ {0} /\ kw \in STATEMENT_START_KEYWORDS
      /\ reached = at - 1 \/ (at = 5 /\ kw \in {"IF", "WHILE"} /\ reached = 3)
  BY <1>1, <1>3, StatementTop
<1>5. NextFits("STATEMENT", kw, reached, at, fn)
  BY <1>2, <1>3, <1>4, StatementFits
<1>6. ComesTo(at, at)
  BY <1>1, <1>3, <1>4 DEF ComesTo, CallerAt, Progress
<1>7. fn \in EXPRESSIONS
  BY <1>3 DEF EXPRESSIONS
<1>. QED  BY <1>3, <1>4, <1>5, <1>6, <1>7, PlainCall

LEMMA StatementResumeShapes == ASSUME NEW q, Now(q), StatementResume PROVE After
<1>1. PICK at, kw, reached : at = Top.at /\ kw = Top.kw /\ reached = Reached(ast, q, Top.node)
  OBVIOUS
<1>2. /\ In("STATEMENT") /\ ret = "true"
      /\ ast' = ast /\ position' = position /\ stack' = Resume(at + 1)
      /\ tokens' = tokens /\ ret' = "none"
  BY <1>1 DEF StatementResume, InForm
<1>3. /\ Top.fn = "STATEMENT" /\ at \in Nat \ {0}
      /\ reached = at \/ (at = 4 /\ kw \in {"IF", "WHILE"} /\ reached = 3)
  BY <1>1, <1>2, StatementTop
<1>4. \A f : f.fn = Top.fn /\ f.kw = Top.kw /\ f.at = at + 1 =>
              FreshAt(f, Reached(ast, q, Top.node))
  BY <1>1, <1>3 DEF FreshAt, Progress
<1>5. at + 1 \in Nat \ {0}
  BY <1>3
<1>6. PICK a, pos : a = ast /\ pos = position
  OBVIOUS
<1>7. Shaped(a, q, stack', "none", pos, tokens)
  BY <1>2, <1>4, <1>5, <1>6, NowKnown, ResumeShaped DEF Now
<1>. QED  BY <1>2, <1>6, <1>7 DEF After

LEMMA StatementEndShapes == ASSUME NEW q, Now(q), StatementEnd PROVE After
<1>1. PICK at, kw, reached : at = Top.at /\ kw = Top.kw /\ reached = Reached(ast, q, Top.node)
  OBVIOUS
<1>2. /\ In("STATEMENT") /\ at > Len(Form(kw)) /\ Return("true")
      /\ UNCHANGED <<tokens, position, ast>>
  BY <1>1 DEF StatementEnd
<1>3. /\ TopIs(q, "STATEMENT", kw, reached) /\ Top.fn \notin LOOPS
      /\ at \in Nat \ {0} /\ kw \in STATEMENT_START_KEYWORDS
      /\ reached \in 0 .. Len(Form(kw))
      /\ ret = "none" => reached = at - 1 \/ (at = 5 /\ kw \in {"IF", "WHILE"} /\ reached = 3)
      /\ ret = "true" => reached = at \/ (at = 4 /\ kw \in {"IF", "WHILE"} /\ reached = 3)
  BY <1>1, <1>2, StatementTop
<1>4. ret \in {"none", "true"}
  BY DEF Now, PInv
<1>5. reached = Len(Form(kw)) /\ reached \in Nat \ {0}
  <2>1. PICK n : n = Len(Form(kw))
    OBVIOUS
  <2>2. n \in Nat /\ n >= 2 /\ (kw \in {"IF", "WHILE"} => n = 5) /\ at > n
    BY <1>2, <2>1, FormLength
  <2>3. CASE ret = "none"
    <3>1. reached = at - 1
      BY <1>3, <2>2, <2>3
    <3>2. reached \in 0 .. n /\ at \in Nat
      BY <1>3, <2>1
    <3>. QED  BY <2>1, <2>2, <3>1, <3>2
  <2>4. CASE ret = "true"
    BY <1>3, <2>1, <2>2, <2>4
  <2>. QED  BY <1>4, <2>3, <2>4
<1>6. Ends("STATEMENT", kw, reached)
  BY <1>5 DEF Ends
<1>. QED  BY <1>2, <1>3, <1>5, <1>6, PlainReturn

\* The stack of a block: the loop adds to the node of its statement.
LEMMA StatementBlockShapes == ASSUME NEW q, Now(q), StatementBlock PROVE After
<1>1. PICK at, kw, reached, t, f : /\ at = Top.at /\ kw = Top.kw /\ reached = Reached(ast, q, Top.node)
                                   /\ t = Len(stack) /\ f = Frame("BLOCK", Top.node, "none")
  OBVIOUS
<1>2. PICK st : st = Append(stack, f)
  OBVIOUS
<1>3. /\ In("STATEMENT") /\ at <= Len(Form(kw)) /\ ret = "none" /\ Form(kw)[at].call = "BLOCK"
      /\ stack' = st /\ UNCHANGED <<tokens, position, ast, ret>>
  BY <1>1, <1>2 DEF StatementBlock, InForm, Item
<1>4. /\ Top.fn = "STATEMENT" /\ at \in Nat \ {0} /\ kw \in STATEMENT_START_KEYWORDS
      /\ ret = "none" => reached = at - 1 \/ (at = 5 /\ kw \in {"IF", "WHILE"} /\ reached = 3)
  BY <1>1, <1>3, StatementTop
<1>5. kw \in {"IF", "WHILE"} /\ at = 4
  BY <1>3, <1>4, FormCalls
<1>6. reached = 3
  BY <1>3, <1>4, <1>5
<1>7. /\ t \in Nat \ {0} /\ stack[t] = Top /\ Len(st) = t + 1 /\ st[t + 1] = f
      /\ \A d \in 1 .. t : st[d] = stack[d]
      /\ f.fn = "BLOCK" /\ f.node = Top.node /\ f.at = 1
  BY <1>1, <1>2, TopFrame DEF Now, PInv, StackOK, Top, Frame
<1>8. /\ Wired(ast, q, tokens) /\ Completed(ast, q, stack) /\ Framed(ast, q, stack)
      /\ UpTo(ast, q, Top.node, position) /\ Called(ast, q, stack)
  BY <1>1, <1>7, NowKnown DEF Half
<1>9. Completed(ast, q, st)
  <2>1. NodesOf(stack) \subseteq NodesOf(st)
    <3>1. \A d \in 1 .. t : d \in 1 .. t + 1 /\ st[d].node = stack[d].node
      BY <1>7
    <3>. QED  BY <1>1, <1>7, <3>1 DEF NodesOf
  <2>. QED  BY <1>8, <2>1 DEF Completed
<1>10. Framed(ast, q, st)
  <2>. SUFFICES ASSUME NEW d \in 1 .. t + 1 PROVE FrameFits(ast, q, st, d)
    BY <1>7 DEF Framed
  <2>1. CASE d = t + 1
    <3>1. d > 1 /\ d - 1 = t /\ st[d - 1] = Top /\ st[d] = f
      BY <1>7, <2>1
    <3>. QED  BY <1>1, <1>4, <1>5, <1>7, <3>1 DEF FrameFits, LOOPS
  <2>2. CASE d # t + 1
    <3>1. d \in 1 .. t /\ FrameFits(ast, q, stack, d)
      BY <1>1, <1>7, <1>8, <2>2 DEF Framed
    <3>2. st[d] = stack[d] /\ (d > 1 => d - 1 \in 1 .. t /\ st[d - 1] = stack[d - 1])
      BY <1>7, <3>1
    <3>. QED  BY <3>1, <3>2 DEF FrameFits
  <2>. QED  BY <2>1, <2>2
<1>11. Called(ast, q, st)
  <2>. SUFFICES ASSUME NEW d \in 1 .. t PROVE CallerAt(st[d], Reached(ast, q, st[d].node))
    BY <1>7 DEF Called
  <2>1. CASE d = t
    <3>1. st[d] = Top
      BY <1>7, <2>1
    <3>. QED  BY <1>1, <1>4, <1>5, <1>6, <3>1 DEF CallerAt, Progress
  <2>2. CASE d # t
    <3>1. d \in 1 .. t - 1 /\ st[d] = stack[d]
      BY <1>7, <2>2
    <3>. QED  BY <1>1, <1>8, <3>1 DEF Called
  <2>. QED  BY <2>1, <2>2
<1>12. Advanced(ast, q, st, "none")
  <2>1. FreshAt(f, Reached(ast, q, f.node))
    BY <1>7 DEF FreshAt, Progress, LOOPS
  <2>2. t + 1 \in Nat \ {0} /\ t + 1 = Len(st) /\ st[t + 1] = f
    BY <1>7
  <2>. QED  BY <1>11, <2>1, <2>2, FreshAdvanced
<1>13. CurrentOf(st) = Top.node
  <2>1. Len(st) # Len(<<>>)
    BY <1>7
  <2>. QED  BY <1>7, <2>1 DEF CurrentOf
<1>14. Shaped(ast, q, st, "none", position, tokens)
  BY <1>8, <1>9, <1>10, <1>12, <1>13 DEF Shaped
<1>. QED  BY <1>3, <1>14 DEF After

LEMMA StarReturnShapes == ASSUME NEW q, Now(q), StarReturn PROVE After
<1>1. PICK a, pos, below, t : a = ast /\ pos = position /\ t = Len(stack) /\ below = SubSeq(stack, 1, t - 1)
  OBVIOUS
<1>2. /\ Top.fn \in LOOPS /\ ast' = a /\ position' = pos /\ tokens' = tokens
      /\ stack' = below /\ ret' = "true"
  BY <1>1 DEF StarReturn, AtLoop, InLoop, In, LOOPS, Return, Below
<1>3. t \in Nat \ {0} /\ stack[t] = Top /\ stack \in Seq(FrameSet)
  BY <1>1, TopFrame DEF Now, PInv, StackOK, Top
<1>4. Shaped(a, q, below, "true", pos, tokens)
  BY <1>1, <1>2, <1>3, NowKnown, PopLoop
<1>. QED  BY <1>2, <1>4 DEF After

\* The node of a loop, and where a statement goes below it.
LEMMA LoopPlace ==
  ASSUME NEW q, Now(q), InLoop, NEW p, p = Top.node
  PROVE  \E at : /\ Joins(ast, q, p, at)
                 /\ Fits(ast[p].value, q[p].kw, at, "STATEMENT")
                 /\ Top.fn = "BLOCK" => at = 4
<1>1. PICK t, reached : t = Len(stack) /\ reached = Reached(ast, q, p)
  OBVIOUS
<1>2. t \in Nat \ {0} /\ t \in 1 .. t /\ stack[t] = Top
  BY <1>1, TopFrame DEF Now, PInv, StackOK, Top
<1>3. Half(ast, q, stack, position) /\ Wired(ast, q, tokens) /\ LinksForward(ast) /\ p \in Ids(ast)
  BY NowKnown
<1>4. FrameFits(ast, q, stack, t)
  BY <1>1, <1>2, <1>3 DEF Half, Framed
<1>5. CASE In("STAR")
  <2>1. p = Head_ /\ ast[p].value = "PROGRAM"
    BY <1>2, <1>3, <1>4, <1>5 DEF FrameFits, In, Wired
  <2>2. reached = 0 \/ reached = 1
    <3>. SUFFICES ASSUME ast[p].last_child # NO_NODE PROVE q[ast[p].last_child].at = 1
      BY <1>1 DEF Reached
    <3>1. PICK c : c = ast[p].last_child
      OBVIOUS
    <3>2. c \in Ids(ast) /\ c # Head_ /\ q[c].up = p
      BY <1>3, <3>1 DEF LinksForward, Ids, Head_, NO_NODE, Wired
    <3>3. Fits(ast[q[c].up].value, q[q[c].up].kw, q[c].at, SymbolOf(ast, tokens, c))
      BY <1>3, <3>2 DEF Wired
    <3>4. Fits("PROGRAM", q[p].kw, q[c].at, SymbolOf(ast, tokens, c))
      BY <2>1, <3>2, <3>3
    <3>5. q[c].at = 1
      BY <3>4 DEF Fits
    <3>. QED  BY <3>1, <3>5
  <2>3. Joins(ast, q, p, 1)
    <3>1. (reached = 0 /\ Begins("PROGRAM", 1)) \/ (reached # 0 /\ Follows("PROGRAM", q[p].kw, reached, 1))
      BY <2>2 DEF Begins, Follows
    <3>. QED  BY <1>1, <1>3, <2>1, <3>1, JoinsReached
  <2>4. Fits("PROGRAM", q[p].kw, 1, "STATEMENT") /\ Top.fn # "BLOCK"
    BY <1>5 DEF Fits, In
  <2>. QED  BY <2>1, <2>3, <2>4
<1>6. CASE In("BLOCK")
  <2>1. PICK g : g = stack[t - 1]
    OBVIOUS
  <2>2. /\ t > 1 /\ g.fn = "STATEMENT" /\ g.node = p /\ g.at = 4 /\ g.kw \in {"IF", "WHILE"}
    BY <1>2, <1>4, <1>6, <2>1 DEF FrameFits, In
  <2>3. t - 1 \in 1 .. t - 1 /\ t - 1 \in 1 .. t
    BY <1>2, <2>2
  <2>4. ast[p].value = "STATEMENT" /\ q[p].kw = g.kw
    <3>1. FrameFits(ast, q, stack, t - 1)
      BY <1>1, <1>3, <2>3 DEF Half, Framed
    <3>. QED  BY <2>1, <2>2, <3>1 DEF FrameFits, LOOPS
  <2>5. reached = 4 \/ reached = 3
    <3>1. CallerAt(g, reached)
      BY <1>1, <1>3, <2>1, <2>2, <2>3 DEF Half, Called
    <3>. QED  BY <2>2, <3>1 DEF CallerAt, Progress, LOOPS, EXPRESSIONS
  <2>6. Joins(ast, q, p, 4)
    <3>1. reached # 0 /\ Follows("STATEMENT", g.kw, reached, 4)
      BY <2>2, <2>5 DEF Follows
    <3>. QED  BY <1>1, <1>3, <2>4, <3>1, JoinsReached
  <2>7. Fits("STATEMENT", g.kw, 4, "STATEMENT")
    <3>1. CASE g.kw = "IF"
      <4>1. Form(g.kw) = <<Token({"IF"}), Part("COMPARISON"), Token({"THEN"}),
                           Part("BLOCK"), Token({"ENDIF"})>>
        BY <3>1, FormCases
      <4>2. Len(Form(g.kw)) = 5 /\ Form(g.kw)[4].call = "BLOCK"
        BY <4>1 DEF Part
      <4>. QED  BY <4>2 DEF Fits
    <3>2. CASE g.kw = "WHILE"
      <4>1. Form(g.kw) = <<Token({"WHILE"}), Part("COMPARISON"), Token({"REPEAT"}),
                           Part("BLOCK"), Token({"ENDWHILE"})>>
        BY <3>2, FormCases
      <4>2. Len(Form(g.kw)) = 5 /\ Form(g.kw)[4].call = "BLOCK"
        BY <4>1 DEF Part
      <4>. QED  BY <4>2 DEF Fits
    <3>. QED  BY <2>2, <3>1, <3>2
  <2>. QED  BY <2>4, <2>6, <2>7
<1>. QED  BY <1>5, <1>6 DEF InLoop

LEMMA StarStatementShapes == ASSUME NEW q, Now(q), StarStatement PROVE After
<1>1. PICK a, p, t, kw, f : /\ a = ast /\ p = Top.node /\ t = Len(stack) /\ kw = tokens[position]
                            /\ f = Frame("STATEMENT", Len(a) + 1, kw)
  OBVIOUS
<1>2. /\ InLoop /\ kw \in STATEMENT_START_KEYWORDS
      /\ ast' = AddGrammar(a, p, "STATEMENT") /\ stack' = Append(stack, f)
      /\ ret' = "none" /\ UNCHANGED <<tokens, position>>
  BY <1>1 DEF StarStatement, AtLoop, Expect
<1>3. PICK at : /\ Joins(a, q, p, at)
                /\ Fits(a[p].value, q[p].kw, at, "STATEMENT")
                /\ Top.fn = "BLOCK" => at = 4
  BY <1>1, <1>2, LoopPlace
<1>4. t \in Nat \ {0} /\ stack[t] = Top /\ stack \in Seq(FrameSet) /\ p = stack[t].node /\ t # 0
  BY <1>1, TopFrame DEF Now, PInv, StackOK, Top
<1>5. CallerAt(stack[t], at)
  BY <1>2, <1>4 DEF InLoop, In, LOOPS, CallerAt, Progress
<1>6. kw \in STATEMENT_START_KEYWORDS \cup {"none"} /\ kw # "none"
      /\ "STATEMENT" \in EXPRESSIONS \cup {"STATEMENT"}
  BY <1>2 DEF STATEMENT_START_KEYWORDS
<1>7. PICK pos : pos = position
  OBVIOUS
<1>8. \E up : Shaped(AddGrammar(a, p, "STATEMENT"), up, Append(stack, f), "none", pos, tokens)
  BY <1>1, <1>3, <1>4, <1>5, <1>6, <1>7, NowKnown, PushShaped
<1>. QED  BY <1>2, <1>7, <1>8 DEF After

-----------------------------------------------------------------------------
(***************************************************************************)
(* The functions that wait are where a failure may come back to them.      *)
(***************************************************************************)
LEMMA CallingSame ==
  ASSUME NEW st, NEW up, NEW t \in Nat, Len(st) = t, Calling(st),
         NEW u \in Nat, Len(up) = u, u <= t, \A d \in 1 .. u - 1 : up[d] = st[d]
  PROVE  Calling(up)
BY DEF Calling

LEMMA CallingPush ==
  ASSUME NEW st \in Seq(FrameSet), NEW t \in Nat \ {0}, Len(st) = t, Calling(st), CallsFrom(st[t]),
         NEW f, NEW up, up = Append(st, f)
  PROVE  Calling(up)
<1>1. Len(up) = t + 1 /\ \A d \in 1 .. t : up[d] = st[d]
  OBVIOUS
<1>. SUFFICES ASSUME NEW d \in 1 .. t PROVE CallsFrom(up[d])
  BY <1>1 DEF Calling
<1>2. CASE d = t
  BY <1>1, <1>2
<1>3. CASE d # t
  <2>1. d \in 1 .. t - 1
    BY <1>3
  <2>. QED  BY <1>1, <2>1 DEF Calling
<1>. QED  BY <1>2, <1>3

LEMMA ReturnCalls ==
  ASSUME PInv, Running, Calling(stack), NEW result, Return(result)
  PROVE  Calling(stack')
<1>1. PICK t, below : t = Len(stack) /\ below = Below
  OBVIOUS
<1>2. stack' = below /\ Len(below) = t - 1 /\ t \in Nat \ {0} /\ \A d \in 1 .. t - 1 : below[d] = stack[d]
  BY <1>1, BelowAt DEF Return
<1>3. t - 1 \in Nat /\ t - 1 <= t /\ \A d \in 1 .. (t - 1) - 1 : below[d] = stack[d]
  BY <1>2
<1>4. Calling(below)
  BY <1>1, <1>2, <1>3, CallingSame
<1>. QED  BY <1>2, <1>4

LEMMA ResumeCalls ==
  ASSUME PInv, Running, Calling(stack), NEW place \in Nat \ {0}, NEW up, up = Resume(place)
  PROVE  Calling(up)
<1>1. PICK t : t = Len(stack)
  OBVIOUS
<1>2. t \in Nat /\ Len(up) = t /\ \A d \in 1 .. t - 1 : up[d] = stack[d]
  BY <1>1, ResumeAt
<1>. QED  BY <1>1, <1>2, CallingSame

LEMMA CallCalls ==
  ASSUME PInv, Running, Calling(stack), NEW fn, NEW place \in Nat \ {0}, NEW tree, NEW pos,
         Call(fn, place, tree, pos),
         (Top.fn \in EXPRESSIONS /\ place > 1) \/ (InForm /\ place = Top.at)
  PROVE  Calling(stack')
<1>1. PICK up, t : up = Resume(place) /\ t = Len(stack)
  OBVIOUS
<1>2. Calling(up)
  BY <1>1, ResumeCalls
<1>3. /\ t \in Nat \ {0} /\ Len(up) = t /\ up \in Seq(FrameSet)
      /\ up[t].fn = Top.fn /\ up[t].kw = Top.kw /\ up[t].at = place
  BY <1>1, ResumeAt
<1>4. CallsFrom(up[t])
  BY <1>3 DEF CallsFrom, InForm, In, EXPRESSIONS
<1>5. stack' = up \/ \E f : stack' = Append(up, f)
  BY <1>1 DEF Call
<1>. QED  BY <1>2, <1>3, <1>4, <1>5, CallingPush

LEMMA NextCalls == ASSUME PInv, Calling(stack), Next, ~ Finished PROVE Calling(stack')
<1>1. CASE ParsePrimary
  <2>1. Running
    BY <1>1 DEF ParsePrimary, At, In
  <2>2. Return("true") \/ Return("false")
    BY <1>1 DEF ParsePrimary
  <2>. QED  BY <2>1, <2>2, ReturnCalls
<1>2. CASE ParseUnary
  <2>1. Running /\ Top.fn \in EXPRESSIONS
    BY <1>2 DEF ParseUnary, At, In, EXPRESSIONS
  <2>2. Return(ret) \/ \E tree, pos : Call("PRIMARY", 2, tree, pos)
    BY <1>2 DEF ParseUnary
  <2>. QED  BY <2>1, <2>2, ReturnCalls, CallCalls
<1>3. ASSUME NEW fn \in {"TERM", "EXPRESSION"}, NEW operand, NEW operators,
             ParseChain(fn, operand, operators)
      PROVE  Calling(stack')
  <2>1. Running /\ Top.fn \in EXPRESSIONS
    BY <1>3 DEF ParseChain, At, In, EXPRESSIONS
  <2>2. Return(ret) \/ \E tree, pos : Call(operand, 2, tree, pos)
    BY <1>3 DEF ParseChain
  <2>. QED  BY <2>1, <2>2, ReturnCalls, CallCalls
<1>4. CASE ParseComparison
  <2>1. Running /\ Top.fn \in EXPRESSIONS
    BY <1>4 DEF ParseComparison, At, In, EXPRESSIONS
  <2>2. \/ Return(ret) \/ Return("false")
        \/ \E tree, pos : Call("EXPRESSION", 2, tree, pos) \/ Call("EXPRESSION", 3, tree, pos)
    BY <1>4 DEF ParseComparison
  <2>. QED  BY <2>1, <2>2, ReturnCalls, CallCalls
<1>5. CASE StatementToken \/ StatementResume
  <2>1. Running /\ stack' = Resume(Top.at + 1)
    BY <1>5 DEF StatementToken, StatementResume, InForm, In
  <2>2. Top.at + 1 \in Nat \ {0}
    BY <2>1, TopFrame DEF PInv, FrameSet
  <2>. QED  BY <2>1, <2>2, ResumeCalls
<1>6. CASE StatementCall
  <2>1. Running /\ InForm /\ Call(Item.call, Top.at, ast, position)
    BY <1>6 DEF StatementCall, InForm, In
  <2>2. Top.at \in Nat \ {0}
    BY <2>1, TopFrame DEF PInv, FrameSet
  <2>3. PICK fn, tree, pos, place : fn = Item.call /\ tree = ast /\ pos = position /\ place = Top.at
    OBVIOUS
  <2>. QED  BY <2>1, <2>2, <2>3, CallCalls
<1>7. CASE StatementBlock \/ StarStatement
  <2>1. PICK t : t = Len(stack)
    OBVIOUS
  <2>2. Running /\ \E f : stack' = Append(stack, f)
    BY <1>7 DEF StatementBlock, StarStatement, InForm, AtLoop, InLoop, In
  <2>3. CallsFrom(Top)
    BY <1>7 DEF StatementBlock, StarStatement, InForm, AtLoop, InLoop, In, CallsFrom, EXPRESSIONS
  <2>4. t \in Nat \ {0} /\ stack[t] = Top /\ stack \in Seq(FrameSet)
    BY <2>1, <2>2, TopFrame DEF PInv, StackOK, Top
  <2>. QED  BY <2>1, <2>2, <2>3, <2>4, CallingPush
<1>8. CASE StatementFail \/ StatementEnd \/ StarReturn
  <2>1. Running /\ (Return("true") \/ Return("false"))
    BY <1>8 DEF StatementFail, StatementEnd, StarReturn, InForm, AtLoop, InLoop, In
  <2>. QED  BY <2>1, ReturnCalls
<1>9. CASE StarUnknown \/ StarRecover
  BY <1>9 DEF StarUnknown, StarRecover
<1>. QED  BY <1>1, <1>2, <1>3, <1>4, <1>5, <1>6, <1>7, <1>8, <1>9 DEF Next, ParseTerm, ParseExpression

-----------------------------------------------------------------------------
(***************************************************************************)
(* The invariant.                                                          *)
(***************************************************************************)
ShapeNow == \E q : Shaped(ast, q, stack, ret, position, tokens)

ShapeInv ==
  /\ Calling(stack)
  /\ errors # <<>> \/ Failing \/ (ret # "false" /\ ShapeNow)

LEMMA InitShape == ASSUME Init PROVE ShapeInv
<1>1. /\ ast = <<GrammarNode("PROGRAM")>> /\ position = 1 /\ ret = "none"
      /\ stack = <<Frame("STAR", Head_, "none")>>
  BY DEF Init, Start
<1>2. /\ Len(ast) = 1 /\ Ids(ast) = {1} /\ ast[1].type = "GRAMMAR" /\ ast[1].value = "PROGRAM"
      /\ ast[1].first_child = 0 /\ ast[1].last_child = 0 /\ ast[1].next_sibling = 0
  BY <1>1 DEF Ids, GrammarNode, NO_NODE
<1>3. /\ Len(stack) = 1 /\ stack[1].fn = "STAR" /\ stack[1].node = 1
  BY <1>1 DEF Frame, Head_
<1>4. PICK r : r = [up |-> 0, at |-> 0, kw |-> "none", from |-> 1, to |-> 0]
  OBVIOUS
<1>5. r \in Facts /\ r.up = 0 /\ r.from = 1
  BY <1>4 DEF Facts
<1>6. PICK q : q = [n \in Ids(ast) |-> r]
  OBVIOUS
<1>7. q \in [Ids(ast) -> Facts] /\ q[1] = r
  BY <1>2, <1>5, <1>6
<1>8. Wired(ast, q, tokens)
  BY <1>2, <1>5, <1>7 DEF Wired, NO_NODE, Head_, IsStatement
<1>9. Completed(ast, q, stack)
  BY <1>2 DEF Completed, Head_
<1>10. CurrentOf(stack) = 1 /\ UpTo(ast, q, 1, position)
  <2>1. stack # <<>>
    BY <1>3
  <2>. QED  BY <1>1, <1>2, <1>3, <1>5, <1>7, <2>1 DEF CurrentOf, UpTo, NO_NODE
<1>11. Framed(ast, q, stack)
  BY <1>3 DEF Framed, FrameFits, Head_, LOOPS
<1>12. Called(ast, q, stack) /\ FreshAt(stack[1], Reached(ast, q, stack[1].node))
  BY <1>3 DEF Called, FreshAt, Progress, LOOPS
<1>13. Advanced(ast, q, stack, "none")
  <2>1. 1 \in Nat \ {0}
    OBVIOUS
  <2>. QED  BY <1>3, <1>12, <2>1, FreshAdvanced
<1>14. Shaped(ast, q, stack, ret, position, tokens)
  BY <1>1, <1>8, <1>9, <1>10, <1>11, <1>13 DEF Shaped
<1>15. Calling(stack)
  BY <1>3 DEF Calling
<1>. QED  BY <1>1, <1>14, <1>15 DEF ShapeInv, ShapeNow

LEMMA NowSteps == ASSUME NEW q, Now(q), Next, ~ Finished PROVE errors' # <<>> \/ After
<1>1. ~ StarRecover
  BY DEF StarRecover, Now
<1>2. ParseTerm => After
  BY ChainShapes DEF ParseTerm
<1>3. ParseExpression => After
  BY ChainShapes DEF ParseExpression
<1>4. StatementFail \/ StarUnknown => errors' # <<>>
  <2>1. \A e : Append(errors, e) # <<>>
    BY DEF Now, PInv
  <2>. QED  BY <2>1 DEF StatementFail, StarUnknown
<1>. QED  BY <1>1, <1>2, <1>3, <1>4, PrimaryShapes, UnaryShapes, ComparisonShapes,
             StatementTokenShapes, StatementCallShapes, StatementBlockShapes,
             StatementResumeShapes, StatementEndShapes, StarReturnShapes, StarStatementShapes
  DEF Next

LEMMA FailingSteps ==
  ASSUME PInv, OInv, Nested(stack), Calling(stack), Failing, Next
  PROVE  errors' # <<>> \/ Failing'
<1>1. /\ Running /\ ret = "false" /\ Top.fn \notin LOOPS
      /\ Top.fn = "STATEMENT" => Top.at <= Len(Form(Top.kw))
      /\ Top.fn \in EXPRESSIONS => Top.at > 1
      /\ RootInv(stack)
  BY DEF Failing, CallsFrom, OInv
<1>2. ASSUME Return("false"), Top.fn \in EXPRESSIONS PROVE Failing'
  BY <1>1, <1>2, FailsOn
<1>3. ~ Finished /\ ~ ParsePrimary
  BY <1>1 DEF Finished, Running, ParsePrimary, At, In, EXPRESSIONS
<1>4. CASE ParseUnary
  BY <1>1, <1>2, <1>4 DEF ParseUnary, At, In, EXPRESSIONS
<1>5. CASE ParseTerm \/ ParseExpression
  <2>1. ASSUME NEW fn \in {"TERM", "EXPRESSION"}, NEW operand, NEW operators,
               ParseChain(fn, operand, operators)
        PROVE  Return("false") /\ Top.fn \in EXPRESSIONS
    BY <1>1, <2>1 DEF ParseChain, At, In, EXPRESSIONS
  <2>. QED  BY <1>2, <1>5, <2>1 DEF ParseTerm, ParseExpression
<1>6. CASE ParseComparison
  BY <1>1, <1>2, <1>6 DEF ParseComparison, At, In, EXPRESSIONS
<1>7. CASE StatementFail
  BY <1>7 DEF StatementFail, PInv
<1>8. ~ StatementToken /\ ~ StatementCall /\ ~ StatementBlock /\ ~ StatementResume
  BY <1>1 DEF StatementToken, StatementCall, StatementBlock, StatementResume
<1>9. ~ StatementEnd
  BY <1>1, TopFrame, FormLength DEF StatementEnd, In, PInv, FrameSet
<1>10. ~ StarReturn /\ ~ StarUnknown /\ ~ StarStatement /\ ~ StarRecover
  BY <1>1 DEF StarReturn, StarUnknown, StarStatement, StarRecover, AtLoop, InLoop, In, LOOPS
<1>. QED  BY <1>3, <1>4, <1>5, <1>6, <1>7, <1>8, <1>9, <1>10 DEF Next

LEMMA StepShape == PInv /\ OInv /\ RInv /\ ShapeInv /\ [Next]_vars => ShapeInv'
<1>. SUFFICES ASSUME PInv, OInv, RInv, ShapeInv, [Next]_vars PROVE ShapeInv'
  OBVIOUS
<1>1. Nested(stack) /\ Calling(stack)
  BY DEF RInv, ShapeInv
<1>2. CASE UNCHANGED vars
  <2>1. /\ tokens' = tokens /\ position' = position /\ ast' = ast /\ stack' = stack
        /\ ret' = ret /\ errors' = errors
    BY <1>2 DEF vars
  <2>2. Failing' <=> Failing
    BY <2>1 DEF Failing, Running, Top
  <2>. QED  BY <2>1, <2>2, Zenon DEF ShapeInv, ShapeNow
<1>3. CASE Next /\ ~ Finished
  <2>1. Calling(stack')
    BY <1>1, <1>3, NextCalls
  <2>2. CASE errors # <<>>
    <3>1. ErrorsGrow
      BY <1>3, NextErrors
    <3>2. errors' # <<>>
      BY <2>2, <3>1 DEF ErrorsGrow, PInv
    <3>. QED  BY <2>1, <3>2 DEF ShapeInv
  <2>3. CASE Failing
    <3>1. errors' # <<>> \/ Failing'
      BY <1>1, <1>3, <2>3, FailingSteps
    <3>. QED  BY <2>1, <3>1 DEF ShapeInv
  <2>4. CASE ret # "false" /\ ShapeNow
    <3>1. Running
      BY <1>3 DEF Next, ParsePrimary, ParseUnary, ParseTerm, ParseExpression, ParseChain,
         ParseComparison, StatementToken, StatementCall, StatementBlock, StatementResume,
         StatementFail, StatementEnd, StarReturn, StarUnknown, StarStatement, StarRecover,
         AtLoop, InLoop, InForm, At, In
    <3>2. PICK q : Now(q)
      BY <1>1, <2>4, <3>1 DEF Now, ShapeNow
    <3>3. errors' # <<>> \/ After
      BY <1>3, <3>2, NowSteps
    <3>. QED  BY <2>1, <3>3 DEF After, ShapeInv, ShapeNow
  <2>. QED  BY <2>2, <2>3, <2>4 DEF ShapeInv
<1>. QED  BY <1>2, <1>3 DEF Finished

-----------------------------------------------------------------------------
\* A finished tree: wired by the rules of the grammar, nothing missing in any
\* node, over the whole input.
WholeTree(a, q, tk) ==
  /\ Wired(a, q, tk)
  /\ \A n \in Ids(a) : a[n].type = "GRAMMAR" /\ n # Head_ => Complete(a, q, n)
  /\ IF a[Head_].last_child = NO_NODE THEN tk = <<>> ELSE q[a[Head_].last_child].to = Len(tk)

LEMMA ShapeEnds == PInv /\ OInv /\ ShapeInv /\ stack = <<>> /\ errors = <<>> =>
                     \E q : WholeTree(ast, q, tokens)
<1>. SUFFICES ASSUME PInv, OInv, ShapeInv, stack = <<>>, errors = <<>>
     PROVE  \E q : WholeTree(ast, q, tokens)
  OBVIOUS
<1>1. ~ Failing
  BY DEF Failing, Running
<1>2. PICK q : Shaped(ast, q, stack, ret, position, tokens)
  BY <1>1 DEF ShapeInv, ShapeNow
<1>3. NodesOf(stack) = {}
  BY DEF NodesOf
<1>4. \A n \in Ids(ast) : ast[n].type = "GRAMMAR" /\ n # Head_ => Complete(ast, q, n)
  BY <1>2, <1>3 DEF Shaped, Completed
<1>5. position = Len(tokens) + 1 /\ tokens \in Seq(TOKEN) /\ Len(tokens) \in Nat
  BY DEF OInv, EndInv, Done, PInv
<1>6. UpTo(ast, q, Head_, position) /\ Wired(ast, q, tokens)
  BY <1>2 DEF Shaped, CurrentOf
<1>7. CASE ast[Head_].last_child = NO_NODE
  <2>1. q[Head_].from = position /\ q[Head_].from = 1
    BY <1>6, <1>7 DEF UpTo, Wired
  <2>2. Len(tokens) = 0
    BY <1>5, <2>1
  <2>3. tokens = <<>>
    BY <1>5, <2>2
  <2>. QED  BY <1>4, <1>6, <1>7, <2>3 DEF WholeTree
<1>8. CASE ast[Head_].last_child # NO_NODE
  <2>1. PICK c : c = ast[Head_].last_child
    OBVIOUS
  <2>2. q[c].to = position - 1
    BY <1>6, <1>8, <2>1 DEF UpTo
  <2>3. q[c].to = Len(tokens)
    BY <1>5, <2>2
  <2>. QED  BY <1>4, <1>6, <1>8, <2>1, <2>3 DEF WholeTree
<1>. QED  BY <1>7, <1>8

\* An input without an error is parsed to its derivation: the nodes are put
\* together as the rules of the grammar ask for, none lacks a part, and each
\* stands for a piece of the input of its own, right after that of its sibling,
\* up to all of it (parser.c:144-432).
THEOREM AcceptedIsDerived ==
  Spec => [](stack = <<>> /\ errors = <<>> => \E q : WholeTree(ast, q, tokens))
<1>1. PInv /\ OInv /\ RInv /\ ShapeInv => (stack = <<>> /\ errors = <<>> => \E q : WholeTree(ast, q, tokens))
  BY ShapeEnds
<1>2. Init => PInv /\ OInv /\ RInv /\ ShapeInv
  BY InitPInv, InitOInv, InitRInv, InitShape
<1>3. PInv /\ OInv /\ RInv /\ ShapeInv /\ [Next]_vars => (PInv /\ OInv /\ RInv /\ ShapeInv)'
  BY StepPInv, StepOInv, StepRInv, StepShape
<1>. QED  BY <1>1, <1>2, <1>3, PTL DEF Spec

-----------------------------------------------------------------------------
(***************************************************************************)
(* What the functions that are running have still to read.                 *)
(***************************************************************************)
\* What a function has to read that goes on at its place, r being what the one
\* it has called has returned, and then s.
Todo(f, r, s) ==
  CASE f.fn \in LOOPS -> {Then("statements", s)}
    [] f.fn = "STATEMENT" -> StatementTodo(f.kw, IF r = "true" THEN f.at + 1 ELSE f.at, s)
    [] f.fn = "COMPARISON" /\ f.at = 2 -> {Then("operator", Then("EXPRESSION", s))}
    [] f.fn = "EXPRESSION" /\ f.at = 2 -> {Then("terms", s)}
    [] f.fn = "TERM" /\ f.at = 2 -> {Then("unaries", s)}
    [] f.fn \in EXPRESSIONS /\ f.at = 1 -> {Then(f.fn, s)}
    [] OTHER -> {s}

\* The function f has called g and has to read s after itself; u is what is
\* read after g.
Returns(f, g, s, u) ==
  \/ f.fn \in LOOPS /\ g.fn = "STATEMENT" /\ u = Then("statements", s)
  \/ /\ f.fn = "STATEMENT" /\ f.kw \in STATEMENT_START_KEYWORDS
     /\ f.at \in 1 .. Len(Form(f.kw))
     /\ Form(f.kw)[f.at].call = g.fn /\ g.fn # "none"
     /\ StatementTodo(f.kw, f.at + 1, s) = {u}
  \/ f.fn = "COMPARISON" /\ f.at = 2 /\ g.fn = "EXPRESSION" /\ u = Then("operator", Then("EXPRESSION", s))
  \/ f.fn = "COMPARISON" /\ f.at = 3 /\ g.fn = "EXPRESSION" /\ u = s
  \/ f.fn = "EXPRESSION" /\ f.at = 2 /\ g.fn = "TERM" /\ u = Then("terms", s)
  \/ f.fn = "TERM" /\ f.at = 2 /\ g.fn = "UNARY" /\ u = Then("unaries", s)
  \/ f.fn = "UNARY" /\ f.at = 2 /\ g.fn = "PRIMARY" /\ u = s

\* rest[d] is read after the d-th function that is running.
Linked(st, rest) ==
  /\ rest \in Seq(Seq(SYMBOL)) /\ Len(rest) = Len(st)
  /\ \A d \in 2 .. Len(st) : Returns(st[d - 1], st[d], rest[d - 1], rest[d])
  /\ \A d \in 1 .. Len(st) : Calm(st[d].fn, rest[d])

\* The running functions read what the grammar lets follow.
Reading(st, rest, r, pos, tk) ==
  /\ Linked(st, rest)
  /\ Standing(st[Len(st)], r)
  /\ Agree(AfterTokens(tk, pos - 1), Todo(st[Len(st)], r, rest[Len(st)]), tk, pos)
  /\ AfterTokens(tk, pos - 1) # {}

ReadingInv ==
  \/ errors # <<>> /\ FirstWrong(tokens, errors[1])
  \/ errors = <<>> /\ Failing /\ Stuck(tokens, position)
  \/ /\ errors = <<>> /\ ret # "false"
     /\ IF stack = <<>> THEN MayEnd(AfterTokens(tokens, Len(tokens)), TOKEN)
        ELSE \E rest : Reading(stack, rest, ret, position, tokens)

-----------------------------------------------------------------------------
(***************************************************************************)
(* How a step of the parser goes on.                                       *)
(***************************************************************************)
\* What a function goes on with that the one it has called returns to.
LEMMA ReturnsTodo ==
  ASSUME NEW f, NEW g, NEW s, NEW u, Returns(f, g, s, u)
  PROVE  Todo(f, "true", s) = {u} /\ Standing(f, "true")
<1>1. CASE f.fn \in LOOPS
  <2>1. u = Then("statements", s)
    BY <1>1 DEF Returns, LOOPS
  <2>2. Todo(f, "true", s) = {Then("statements", s)}
    BY <1>1 DEF Todo, LOOPS, EXPRESSIONS
  <2>3. Standing(f, "true")
    BY <1>1 DEF Standing, LOOPS
  <2>. QED  BY <2>1, <2>2, <2>3
<1>2. CASE f.fn = "STATEMENT"
  <2>1. /\ f.kw \in STATEMENT_START_KEYWORDS
        /\ f.at \in 1 .. Len(Form(f.kw))
        /\ Form(f.kw)[f.at].call = g.fn /\ g.fn # "none"
        /\ StatementTodo(f.kw, f.at + 1, s) = {u}
    BY <1>2 DEF Returns, LOOPS
  <2>2. Todo(f, "true", s) = StatementTodo(f.kw, f.at + 1, s)
    BY <1>2 DEF Todo, LOOPS, EXPRESSIONS
  <2>3. Standing(f, "true")
    <3>1. PICK k : k = Len(Form(f.kw))
      OBVIOUS
    <3>2. f.at \in 1 .. k + 1 /\ f.at <= k
      BY <2>1, <3>1, FormCases
    <3>. QED  BY <1>2, <2>1, <3>1, <3>2 DEF Standing
  <2>. QED  BY <2>1, <2>2, <2>3
<1>3. CASE f.fn \in {"COMPARISON", "EXPRESSION", "TERM", "UNARY"}
  BY <1>3 DEF Returns, Todo, Standing, LOOPS, EXPRESSIONS
<1>. QED  BY <1>1, <1>2, <1>3 DEF Returns

LEMMA LinkedAt ==
  ASSUME NEW st, NEW rest, Linked(st, rest), NEW d \in 1 .. Len(st)
  PROVE  rest[d] \in Seq(SYMBOL) /\ Calm(st[d].fn, rest[d])
<1>1. rest \in Seq(Seq(SYMBOL)) /\ d \in 1 .. Len(rest)
  BY DEF Linked
<1>. QED  BY <1>1 DEF Linked

\* A function is called, and the caller goes on at a place.
Pushes(st, rest, new, u, t) ==
  /\ st \in Seq(FrameSet) /\ t = Len(st) /\ t # 0 /\ Linked(st, rest)
  /\ new[t].fn = st[t].fn /\ u \in Seq(SYMBOL)
  /\ Returns(new[t], new[t + 1], rest[t], u) /\ Calm(new[t + 1].fn, u)
  /\ Len(new) = t + 1 /\ \A d \in 1 .. t - 1 : new[d] = st[d]

LEMMA LinkedPush ==
  ASSUME NEW st, NEW rest, NEW new, NEW u, NEW t, Pushes(st, rest, new, u, t)
  PROVE  \E more : Linked(new, more) /\ more[t + 1] = u
<1>. PICK f, g : f = new[t] /\ g = new[t + 1]
  OBVIOUS
<1>. /\ st \in Seq(FrameSet) /\ t = Len(st) /\ t # 0 /\ Linked(st, rest)
     /\ f.fn = st[t].fn /\ u \in Seq(SYMBOL) /\ Returns(f, g, rest[t], u) /\ Calm(g.fn, u)
     /\ Len(new) = t + 1 /\ \A d \in 1 .. t - 1 : new[d] = st[d]
  BY DEF Pushes
<1>1. t \in Nat \ {0} /\ rest \in Seq(Seq(SYMBOL)) /\ Len(rest) = t
  BY DEF Linked
<1>2. PICK more : more = Append(rest, u)
  OBVIOUS
<1>3. /\ more \in Seq(Seq(SYMBOL)) /\ Len(more) = t + 1 /\ more[t + 1] = u
      /\ \A d \in 1 .. t : more[d] = rest[d]
  BY <1>1, <1>2
<1>4. ASSUME NEW d \in 2 .. t + 1 PROVE Returns(new[d - 1], new[d], more[d - 1], more[d])
  <2>1. CASE d = t + 1
    BY <1>1, <1>3, <2>1
  <2>2. CASE d = t
    <3>1. d - 1 \in 1 .. t - 1 /\ d - 1 \in 1 .. t /\ d \in 1 .. t /\ d \in 2 .. Len(st)
      BY <1>1, <1>4, <2>2
    <3>2. Returns(st[d - 1], st[d], rest[d - 1], rest[d])
      BY <3>1 DEF Linked
    <3>3. Returns(st[d - 1], f, rest[d - 1], rest[d])
      BY <2>2, <3>2 DEF Returns
    <3>4. new[d - 1] = st[d - 1] /\ new[d] = f /\ more[d - 1] = rest[d - 1] /\ more[d] = rest[d]
      BY <1>3, <2>2, <3>1
    <3>. QED  BY <3>3, <3>4
  <2>3. CASE d # t + 1 /\ d # t
    <3>1. d - 1 \in 1 .. t - 1 /\ d - 1 \in 1 .. t /\ d \in 1 .. t - 1 /\ d \in 1 .. t /\ d \in 2 .. Len(st)
      BY <1>1, <1>4, <2>3
    <3>2. Returns(st[d - 1], st[d], rest[d - 1], rest[d])
      BY <3>1 DEF Linked
    <3>3. new[d - 1] = st[d - 1] /\ new[d] = st[d] /\ more[d - 1] = rest[d - 1] /\ more[d] = rest[d]
      BY <1>3, <3>1
    <3>. QED  BY <3>2, <3>3
  <2>. QED  BY <2>1, <2>2, <2>3
<1>5. ASSUME NEW d \in 1 .. t + 1 PROVE Calm(new[d].fn, more[d])
  <2>1. CASE d = t + 1
    BY <1>3, <2>1
  <2>2. CASE d # t + 1
    <3>1. d \in 1 .. t /\ d \in 1 .. Len(st) /\ (d = t \/ d \in 1 .. t - 1)
      BY <1>1, <2>2
    <3>2. Calm(st[d].fn, rest[d]) /\ more[d] = rest[d] /\ new[d].fn = st[d].fn
      BY <1>3, <3>1 DEF Linked
    <3>. QED  BY <3>2
  <2>. QED  BY <2>1, <2>2
<1>. QED  BY <1>3, <1>4, <1>5 DEF Linked

\* The function on top goes on at another place.
LEMMA LinkedResume ==
  ASSUME NEW st \in Seq(FrameSet), NEW t, t = Len(st), t # 0, NEW rest, Linked(st, rest),
         NEW f, f.fn = st[t].fn,
         NEW new, Len(new) = t, \A d \in 1 .. t - 1 : new[d] = st[d], new[t] = f
  PROVE  Linked(new, rest)
<1>1. t \in Nat \ {0}
  OBVIOUS
<1>2. ASSUME NEW d \in 2 .. t PROVE Returns(new[d - 1], new[d], rest[d - 1], rest[d])
  <2>1. d - 1 \in 1 .. t - 1 /\ Returns(st[d - 1], st[d], rest[d - 1], rest[d])
    BY <1>1 DEF Linked
  <2>2. new[d - 1] = st[d - 1]
    BY <2>1
  <2>3. CASE d = t
    <3>1. Returns(st[d - 1], f, rest[d - 1], rest[d])
      BY <2>1, <2>3 DEF Returns
    <3>. QED  BY <2>2, <2>3, <3>1
  <2>4. CASE d # t
    <3>1. d \in 1 .. t - 1
      BY <1>1, <2>4
    <3>. QED  BY <2>1, <2>2, <3>1
  <2>. QED  BY <2>3, <2>4
<1>3. ASSUME NEW d \in 1 .. t PROVE Calm(new[d].fn, rest[d])
  <2>1. Calm(st[d].fn, rest[d]) /\ (d = t \/ d \in 1 .. t - 1)
    BY <1>1 DEF Linked
  <2>. QED  BY <2>1
<1>. QED  BY <1>1, <1>2, <1>3 DEF Linked

\* The function on top returns.
LEMMA LinkedPop ==
  ASSUME NEW st \in Seq(FrameSet), NEW t, t = Len(st), t > 1, NEW rest, Linked(st, rest),
         NEW new, Len(new) = t - 1, \A d \in 1 .. t - 1 : new[d] = st[d]
  PROVE  \E less : /\ Linked(new, less)
                   /\ Todo(new[t - 1], "true", less[t - 1]) = {rest[t]}
                   /\ Standing(new[t - 1], "true")
<1>1. t \in Nat /\ t - 1 \in 1 .. t - 1 /\ rest \in Seq(Seq(SYMBOL)) /\ Len(rest) = t
  BY DEF Linked
<1>2. PICK less : less = SubSeq(rest, 1, t - 1)
  OBVIOUS
<1>3. less \in Seq(Seq(SYMBOL)) /\ Len(less) = t - 1 /\ \A d \in 1 .. t - 1 : less[d] = rest[d]
  BY <1>1, <1>2
<1>4. ASSUME NEW d \in 2 .. t - 1 PROVE Returns(new[d - 1], new[d], less[d - 1], less[d])
  <2>1. d - 1 \in 1 .. t - 1 /\ d \in 1 .. t - 1 /\ d \in 2 .. Len(st)
    BY <1>1
  <2>2. Returns(st[d - 1], st[d], rest[d - 1], rest[d])
    BY <2>1 DEF Linked
  <2>. QED  BY <1>3, <2>1, <2>2
<1>5. ASSUME NEW d \in 1 .. t - 1 PROVE Calm(new[d].fn, less[d])
  <2>1. d \in 1 .. Len(st)
    BY <1>1
  <2>2. Calm(st[d].fn, rest[d])
    BY <2>1 DEF Linked
  <2>. QED  BY <1>3, <2>2
<1>6. Linked(new, less)
  BY <1>1, <1>3, <1>4, <1>5 DEF Linked
<1>7. Returns(st[t - 1], st[t], rest[t - 1], rest[t])
  <2>1. t \in 2 .. Len(st)
    BY <1>1
  <2>. QED  BY <2>1 DEF Linked
<1>8. Todo(st[t - 1], "true", rest[t - 1]) = {rest[t]} /\ Standing(st[t - 1], "true")
  BY <1>7, ReturnsTodo
<1>. QED  BY <1>1, <1>3, <1>6, <1>8

Reads(rest) ==
  /\ PInv /\ RootInv(stack) /\ Nested(stack) /\ Calling(stack) /\ Running /\ ret # "false"
  /\ Reading(stack, rest, ret, position, tokens)

ReadsOn ==
  /\ ret' # "false"
  /\ IF stack' = <<>> THEN MayEnd(AfterTokens(tokens, Len(tokens)), TOKEN)
     ELSE \E rest : Reading(stack', rest, ret', position', tokens)

StuckOn == Failing' /\ Stuck(tokens, position')

LEMMA TopReads ==
  ASSUME NEW rest, Reads(rest), NEW s, s = rest[Len(stack)]
  PROVE  /\ s \in Seq(SYMBOL) /\ Calm(Top.fn, s) /\ Standing(Top, ret)
         /\ Open(Todo(Top, ret, s), position)
         /\ tokens \in Seq(TOKEN) /\ Len(tokens) \in Nat /\ position \in 1 .. Len(tokens) + 1
         /\ Top \in FrameSet /\ Len(stack) \in Nat \ {0} /\ Linked(stack, rest)
         /\ stack \in Seq(FrameSet) /\ Len(stack) \in 1 .. Len(stack) /\ stack[Len(stack)] = Top
<1>1. PICK t : t = Len(stack)
  OBVIOUS
<1>2. /\ Top \in FrameSet /\ t \in Nat \ {0} /\ t \in 1 .. Len(stack) /\ stack[t] = Top
      /\ stack \in Seq(FrameSet)
  BY <1>1, TopFrame DEF Reads, PInv, StackOK, Top
<1>3. /\ Linked(stack, rest) /\ Standing(stack[t], ret)
      /\ Agree(AfterTokens(tokens, position - 1), Todo(stack[t], ret, rest[t]), tokens, position)
      /\ AfterTokens(tokens, position - 1) # {}
  BY <1>1 DEF Reads, Reading
<1>4. rest[t] \in Seq(SYMBOL) /\ Calm(stack[t].fn, rest[t])
  BY <1>2, <1>3, LinkedAt
<1>5. tokens \in Seq(TOKEN) /\ position \in 1 .. Len(tokens) + 1
  BY DEF Reads, PInv
<1>. QED  BY <1>1, <1>2, <1>3, <1>4, <1>5 DEF Open

LEMMA ReturnReads ==
  ASSUME NEW rest, Reads(rest), NEW s, s = rest[Len(stack)], Return("true"),
         NEW pos, position' = pos, Open({s}, pos),
         Top.fn = "STAR" => s = <<>> /\ pos = Len(tokens) + 1
  PROVE  ReadsOn
<1>1. PICK t, new : t = Len(stack) /\ new = stack'
  OBVIOUS
<1>2. /\ t \in Nat \ {0} /\ stack[t] = Top /\ stack \in Seq(FrameSet) /\ Linked(stack, rest)
      /\ Len(tokens) \in Nat
  BY <1>1, TopReads
<1>3. /\ new = Below /\ ret' = "true"
      /\ Len(Below) = t - 1 /\ \A d \in 1 .. t - 1 : Below[d] = stack[d]
  BY <1>1, BelowAt DEF Return, Reads
<1>4. CASE t = 1
  <2>1. Top.fn = "STAR"
    BY <1>2, <1>4 DEF Reads, RootInv, Running
  <2>2. new = <<>>
    <3>1. Len(new) = 0 /\ new \in Seq(FrameSet)
      BY <1>3, <1>4, BelowAt DEF Reads
    <3>. QED  BY <3>1
  <2>3. Agree(AfterTokens(tokens, pos - 1), {s}, tokens, pos) /\ pos > Len(tokens) /\ pos - 1 = Len(tokens)
    BY <1>2, <2>1 DEF Open
  <2>4. MayEnd({s}, TOKEN)
    BY <2>1, MayEndMembers, NothingLeft
  <2>5. MayEnd(AfterTokens(tokens, Len(tokens)), TOKEN)
    BY <2>3, <2>4 DEF Agree
  <2>. QED  BY <1>1, <1>3, <2>2, <2>5 DEF ReadsOn
<1>5. CASE t > 1
  <2>1. PICK less : /\ Linked(new, less)
                    /\ Todo(new[t - 1], "true", less[t - 1]) = {rest[t]}
                    /\ Standing(new[t - 1], "true")
    <3>1. Len(new) = t - 1 /\ \A d \in 1 .. t - 1 : new[d] = stack[d]
      BY <1>3
    <3>. QED  BY <1>1, <1>2, <1>5, <3>1, LinkedPop
  <2>2. Len(new) = t - 1 /\ new # <<>>
    <3>1. Len(new) # Len(<<>>)
      BY <1>2, <1>3, <1>5
    <3>. QED  BY <1>3, <3>1
  <2>3. PICK f, u : f = new[t - 1] /\ u = less[t - 1]
    OBVIOUS
  <2>4. Todo(f, "true", u) = {s} /\ Standing(f, "true")
    BY <1>1, <2>1, <2>3
  <2>5. Agree(AfterTokens(tokens, pos - 1), Todo(f, "true", u), tokens, pos) /\ AfterTokens(tokens, pos - 1) # {}
    BY <2>4 DEF Open
  <2>6. Reading(new, less, "true", pos, tokens)
    BY <2>1, <2>2, <2>3, <2>4, <2>5 DEF Reading
  <2>. QED  BY <1>1, <1>3, <2>2, <2>6 DEF ReadsOn
<1>. QED  BY <1>2, <1>4, <1>5

LEMMA ResumeReads ==
  ASSUME NEW rest, Reads(rest), NEW s, s = rest[Len(stack)],
         NEW place \in Nat \ {0}, stack' = Resume(place),
         NEW pos, position' = pos, NEW r, ret' = r, r # "false",
         \A f : f.fn = Top.fn /\ f.kw = Top.kw /\ f.at = place =>
           Standing(f, r) /\ Open(Todo(f, r, s), pos)
  PROVE  ReadsOn
<1>1. PICK t, new : t = Len(stack) /\ new = stack'
  OBVIOUS
<1>2. t \in Nat \ {0} /\ stack[t] = Top /\ stack \in Seq(FrameSet) /\ Linked(stack, rest)
  BY <1>1, TopReads
<1>3. /\ Len(new) = t /\ \A d \in 1 .. t - 1 : new[d] = stack[d]
      /\ new[t].fn = Top.fn /\ new[t].kw = Top.kw /\ new[t].at = place
  BY <1>1, ResumeAt DEF Reads
<1>4. PICK f : f = new[t]
  OBVIOUS
<1>5. f.fn = stack[t].fn /\ Standing(f, r) /\ Open(Todo(f, r, s), pos)
  BY <1>2, <1>3, <1>4
<1>6. Linked(new, rest)
  BY <1>1, <1>2, <1>3, <1>4, <1>5, LinkedResume
<1>7. new # <<>>
  <2>1. Len(new) # Len(<<>>)
    BY <1>2, <1>3
  <2>. QED  BY <2>1
<1>8. Reading(new, rest, r, pos, tokens)
  BY <1>1, <1>3, <1>4, <1>5, <1>6 DEF Reading, Open
<1>. QED  BY <1>1, <1>7, <1>8 DEF ReadsOn

\* A function that is called reads what comes next.
LEMMA PushReads ==
  ASSUME NEW rest, Reads(rest), NEW s, s = rest[Len(stack)],
         NEW up \in Seq(FrameSet), Len(up) = Len(stack),
         \A d \in 1 .. Len(stack) - 1 : up[d] = stack[d],
         NEW f, f = up[Len(stack)], f.fn = Top.fn,
         NEW g \in FrameSet, NEW u \in Seq(SYMBOL), Returns(f, g, s, u), Calm(g.fn, u),
         Standing(g, "none"), stack' = Append(up, g), ret' = "none",
         NEW pos, position' = pos, Open(Todo(g, "none", u), pos)
  PROVE  ReadsOn
<1>1. PICK t, new : t = Len(stack) /\ new = stack'
  OBVIOUS
<1>2. t \in Nat \ {0} /\ stack[t] = Top /\ stack \in Seq(FrameSet) /\ Linked(stack, rest)
  BY <1>1, TopReads
<1>3. Len(new) = t + 1 /\ new[t + 1] = g /\ \A d \in 1 .. t : new[d] = up[d]
  BY <1>1, <1>2
<1>4. new[t] = f /\ \A d \in 1 .. t - 1 : new[d] = stack[d]
  BY <1>1, <1>2, <1>3
<1>5. \E more : Linked(new, more) /\ more[t + 1] = u
  <2>1. f.fn = stack[t].fn /\ Returns(f, g, rest[t], u) /\ t # 0 /\ Calm(g.fn, u)
    BY <1>1, <1>2
  <2>2. Pushes(stack, rest, new, u, t)
    BY <1>1, <1>2, <1>3, <1>4, <2>1 DEF Pushes
  <2>. QED  BY <2>2, LinkedPush
<1>6. PICK more : Linked(new, more) /\ more[t + 1] = u
  BY <1>5
<1>7. new # <<>>
  <2>1. Len(new) # Len(<<>>)
    BY <1>2, <1>3
  <2>. QED  BY <2>1
<1>8. Reading(new, more, "none", pos, tokens)
  BY <1>3, <1>6 DEF Reading, Open
<1>. QED  BY <1>1, <1>7, <1>8 DEF ReadsOn

\* The function on top may call another one and go on at a place; u is what is
\* read after the callee.
MayCall(fn, place, s, u) ==
  /\ fn \in EXPRESSIONS /\ place \in Nat \ {0} /\ u \in Seq(SYMBOL) /\ Calm(fn, u)
  /\ \A f, g : f.fn = Top.fn /\ f.kw = Top.kw /\ f.at = place /\ g.fn = fn => Returns(f, g, s, u)
  /\ (Top.fn \in EXPRESSIONS /\ place > 1) \/ (InForm /\ place = Top.at)

LEMMA CallReads ==
  ASSUME NEW rest, Reads(rest), NEW s, s = rest[Len(stack)],
         NEW fn, NEW place, NEW u, MayCall(fn, place, s, u),
         NEW tree, Len(tree) \in Nat,
         NEW pos \in 1 .. Len(tokens) + 1, Call(fn, place, tree, pos),
         Open({Then(fn, u)}, pos)
  PROVE  ReadsOn \/ StuckOn
<1>. /\ fn \in EXPRESSIONS /\ place \in Nat \ {0} /\ u \in Seq(SYMBOL) /\ Calm(fn, u)
     /\ \A f, g : f.fn = Top.fn /\ f.kw = Top.kw /\ f.at = place /\ g.fn = fn => Returns(f, g, s, u)
     /\ (Top.fn \in EXPRESSIONS /\ place > 1) \/ (InForm /\ place = Top.at)
  BY DEF MayCall
<1>1. CASE pos > Len(tokens)
  <2>1. Failing' /\ position' = pos
    BY <1>1, CallFails DEF Reads, Call
  <2>2. ~ MayEnd({Then(fn, u)}, TOKEN)
    BY MayEndMembers, PrimaryLeft, UnaryLeft, ExpressionsLeft DEF EXPRESSIONS
  <2>3. Stuck(tokens, pos)
    BY <1>1, <2>2, OpenStuck
  <2>. QED  BY <2>1, <2>3 DEF StuckOn
<1>2. CASE ~ (pos > Len(tokens))
  <2>1. PICK up, g, f : up = Resume(place) /\ g = Frame(fn, Len(tree) + 1, "none") /\ f = up[Len(stack)]
    OBVIOUS
  <2>2. stack' = Append(up, g) /\ ret' = "none" /\ position' = pos
    BY <1>2, <2>1 DEF Call
  <2>3. /\ Len(up) = Len(stack) /\ up \in Seq(FrameSet)
        /\ \A d \in 1 .. Len(stack) - 1 : up[d] = stack[d]
        /\ f.fn = Top.fn /\ f.kw = Top.kw /\ f.at = place
    BY <2>1, ResumeAt DEF Reads
  <2>4. g.fn = fn /\ g.at = 1 /\ g.kw = "none" /\ g \in FrameSet
    BY <2>1 DEF Frame, FrameSet, EXPRESSIONS, GRAMMAR_TYPE
  <2>5. Returns(f, g, s, u)
    BY <2>3, <2>4
  <2>6. Todo(g, "none", u) = {Then(fn, u)} /\ Standing(g, "none")
    BY <2>4 DEF Todo, Standing, EXPRESSIONS, LOOPS
  <2>7. Open(Todo(g, "none", u), pos) /\ Calm(g.fn, u)
    BY <2>4, <2>6
  <2>. QED  BY <2>1, <2>2, <2>3, <2>4, <2>5, <2>6, <2>7, PushReads
<1>. QED  BY <1>1, <1>2

LEMMA StuckAtPart ==
  ASSUME NEW rest, Reads(rest), Top.fn \in EXPRESSIONS, Return("false"), position' = position,
         NEW f, Open({f}, position),
         Done => ~ Empty(f), ~ Done => Left(f, tokens[position]) = {}
  PROVE  StuckOn
<1>1. Failing'
  BY FailsOn DEF Reads
<1>2. MayEnd({f}, TOKEN) <=> Empty(f)
  BY MayEndMembers
<1>3. Read({f}, tokens[position], TOKEN) = Left(f, tokens[position])
  BY ReadOne
<1>4. Stuck(tokens, position)
  BY <1>2, <1>3, OpenStuck DEF Done
<1>. QED  BY <1>1, <1>4 DEF StuckOn

LEMMA PlainCallReads ==
  ASSUME NEW rest, Reads(rest), NEW s, s = rest[Len(stack)],
         NEW fn, NEW place, NEW u, MayCall(fn, place, s, u),
         Call(fn, place, ast, position),
         NEW f, Open({f}, position), ~ Empty(f), ~ Empty(Then(fn, u)),
         ~ Done => Left(f, tokens[position]) = Left(Then(fn, u), tokens[position])
  PROVE  ReadsOn \/ StuckOn
<1>1. Open({Then(fn, u)}, position)
  BY OpenOne DEF Done
<1>2. Len(ast) \in Nat /\ position \in 1 .. Len(tokens) + 1
  BY TreeLens DEF Reads, PInv
<1>. QED  BY <1>1, <1>2, CallReads

LEMMA TokenCallReads ==
  ASSUME NEW rest, Reads(rest), NEW s, s = rest[Len(stack)],
         NEW fn, NEW place, NEW u, MayCall(fn, place, s, u),
         Call(fn, place, WithToken, position + 1), ~ Done,
         NEW f, Open({f}, position), Left(f, tokens[position]) = {Then(fn, u)}
  PROVE  ReadsOn \/ StuckOn
<1>1. /\ tokens \in Seq(TOKEN) /\ position \in 1 .. Len(tokens)
      /\ position + 1 \in 1 .. Len(tokens) + 1
  BY TopReads DEF Done
<1>2. Read({f}, tokens[position], TOKEN) = {Then(fn, u)}
  BY ReadOne
<1>3. Open({Then(fn, u)}, position + 1)
  BY <1>1, <1>2, OpenToken
<1>4. Len(WithToken) \in Nat
  BY TreeLens DEF Reads
<1>. QED  BY <1>1, <1>3, <1>4, CallReads

LEMMA TokenReturnReads ==
  ASSUME NEW rest, Reads(rest), NEW s, s = rest[Len(stack)], Top.fn \notin LOOPS,
         Return("true"), position' = position + 1, ~ Done,
         NEW f, Open({f}, position), Left(f, tokens[position]) = {s}
  PROVE  ReadsOn
<1>1. tokens \in Seq(TOKEN) /\ position \in 1 .. Len(tokens)
  BY TopReads DEF Done
<1>2. Read({f}, tokens[position], TOKEN) = {s}
  BY ReadOne
<1>3. Open({s}, position + 1)
  BY <1>1, <1>2, OpenToken
<1>. QED  BY <1>3, ReturnReads DEF LOOPS

LEMMA PrimaryReads == ASSUME NEW rest, Reads(rest), ParsePrimary PROVE ReadsOn \/ StuckOn
<1>1. PICK s, f : s = rest[Len(stack)] /\ f = Then("PRIMARY", s)
  OBVIOUS
<1>2. /\ s \in Seq(SYMBOL) /\ Open(Todo(Top, ret, s), position)
      /\ tokens \in Seq(TOKEN) /\ Len(tokens) \in Nat /\ position \in 1 .. Len(tokens) + 1
  BY <1>1, TopReads
<1>3. Top.fn = "PRIMARY" /\ Top.at = 1 /\ Top.fn \in EXPRESSIONS
  BY DEF ParsePrimary, At, In, EXPRESSIONS
<1>4. Open({f}, position)
  <2>1. Todo(Top, ret, s) = {f}
    BY <1>1, <1>3 DEF Todo, LOOPS, EXPRESSIONS
  <2>. QED  BY <1>2, <2>1
<1>5. \A t : Left(f, t) = IF t \in {"NUMBER", "IDENT"} THEN {s} ELSE {}
  BY <1>1, <1>2, PrimaryLeft
<1>6. ~ Empty(f)
  BY <1>1, <1>2, PrimaryLeft
<1>7. CASE Expect({"NUMBER", "IDENT"})
  <2>1. Left(f, tokens[position]) = {s} /\ ~ Done
    BY <1>5, <1>7 DEF Expect
  <2>2. position' = position + 1 /\ Return("true") /\ Top.fn \notin LOOPS
    BY <1>3, <1>7 DEF ParsePrimary, LOOPS
  <2>. QED  BY <1>1, <1>4, <2>1, <2>2, TokenReturnReads
<1>8. CASE ~ Expect({"NUMBER", "IDENT"})
  <2>1. position' = position /\ Return("false")
    BY <1>8 DEF ParsePrimary
  <2>2. ~ Done => Left(f, tokens[position]) = {}
    BY <1>5, <1>8 DEF Expect
  <2>. QED  BY <1>3, <1>4, <1>6, <2>1, <2>2, StuckAtPart
<1>. QED  BY <1>7, <1>8

LEMMA UnaryReads == ASSUME NEW rest, Reads(rest), ParseUnary PROVE ReadsOn \/ StuckOn
<1>1. PICK s, f, g : s = rest[Len(stack)] /\ f = Then("UNARY", s) /\ g = Then("PRIMARY", s)
  OBVIOUS
<1>2. /\ s \in Seq(SYMBOL) /\ Open(Todo(Top, ret, s), position) /\ Standing(Top, ret)
      /\ tokens \in Seq(TOKEN) /\ Len(tokens) \in Nat /\ position \in 1 .. Len(tokens) + 1
  BY <1>1, TopReads
<1>3. Top.fn = "UNARY" /\ Top.fn \in EXPRESSIONS
  BY DEF ParseUnary, At, In, EXPRESSIONS
<1>4. /\ \A t \in SIGNS : Left(f, t) = {g}
      /\ \A t : t \notin SIGNS => Left(f, t) = Left(g, t)
      /\ ~ Empty(f) /\ ~ Empty(g)
  BY <1>1, <1>2, UnaryLeft, PrimaryLeft
<1>5. MayCall("PRIMARY", 2, s, s)
  BY <1>2, <1>3 DEF MayCall, Returns, Calm, EXPRESSIONS
<1>6. CASE Top.at = 1
  <2>1. Open({f}, position)
    <3>1. Todo(Top, ret, s) = {f}
      BY <1>1, <1>3, <1>6 DEF Todo, LOOPS, EXPRESSIONS
    <3>. QED  BY <1>2, <3>1
  <2>2. CASE Expect(SIGNS)
    <3>1. ~ Done /\ Left(f, tokens[position]) = {g}
      BY <1>4, <2>2 DEF Expect
    <3>2. Call("PRIMARY", 2, WithToken, position + 1)
      BY <1>6, <2>2 DEF ParseUnary, At, In
    <3>. QED  BY <1>1, <1>5, <2>1, <3>1, <3>2, TokenCallReads
  <2>3. CASE ~ Expect(SIGNS)
    <3>1. ~ Done => Left(f, tokens[position]) = Left(g, tokens[position])
      BY <1>4, <2>3 DEF Expect
    <3>2. Call("PRIMARY", 2, ast, position)
      BY <1>6, <2>3 DEF ParseUnary, At, In
    <3>. QED  BY <1>1, <1>4, <1>5, <2>1, <3>1, <3>2, PlainCallReads
  <2>. QED  BY <2>2, <2>3
<1>7. CASE Top.at # 1
  <2>1. Top.at = 2 /\ ret = "true"
    BY <1>2, <1>3, <1>7 DEF Standing
  <2>2. Return("true") /\ position' = position
    BY <1>7, <2>1 DEF ParseUnary, At
  <2>3. Open({s}, position)
    <3>1. Todo(Top, ret, s) = {s}
      BY <1>3, <2>1 DEF Todo, LOOPS, EXPRESSIONS
    <3>. QED  BY <1>2, <3>1
  <2>. QED  BY <1>1, <1>3, <2>2, <2>3, ReturnReads
<1>. QED  BY <1>6, <1>7

\* What the loop of an expression or a term rests on: it may go on with an
\* operand, and ends where no operator follows.
ChainRules(fn, operand, operators, tail, s) ==
  /\ Then(tail, s) \in Seq(SYMBOL)
  /\ fn \in EXPRESSIONS
  /\ \A f, r : f.fn = fn /\ f.at = 1 => Todo(f, r, s) = {Then(fn, s)}
  /\ \A f, r : f.fn = fn /\ f.at = 2 => Todo(f, r, s) = {Then(tail, s)}
  /\ \A f, r : f.fn = fn /\ Standing(f, r) => f.at = 1 \/ (f.at = 2 /\ r = "true")
  /\ \A f, g : f.fn = fn /\ f.at = 2 /\ g.fn = operand => Returns(f, g, s, Then(tail, s))
  /\ operand \in EXPRESSIONS /\ Calm(operand, Then(tail, s))
  /\ \A t : Left(Then(fn, s), t) = Left(Then(operand, Then(tail, s)), t)
  /\ ~ Empty(Then(fn, s)) /\ ~ Empty(Then(operand, Then(tail, s)))
  /\ \A t \in operators : Left(Then(tail, s), t) = {Then(operand, Then(tail, s))}
  /\ \A t : t \notin operators => Left(Then(tail, s), t) = Left(s, t)
  /\ Empty(Then(tail, s)) <=> Empty(s)

LEMMA ChainReads ==
  ASSUME NEW rest, Reads(rest), NEW s, s = rest[Len(stack)],
         NEW fn, NEW operand, NEW operators, NEW tail, Top.fn = fn,
         ChainRules(fn, operand, operators, tail, s), ParseChain(fn, operand, operators)
  PROVE  ReadsOn \/ StuckOn
<1>1. PICK f, u, g : f = Then(fn, s) /\ u = Then(tail, s) /\ g = Then(operand, u)
  OBVIOUS
<1>2. /\ s \in Seq(SYMBOL) /\ Open(Todo(Top, ret, s), position) /\ Standing(Top, ret)
      /\ tokens \in Seq(TOKEN) /\ Len(tokens) \in Nat /\ position \in 1 .. Len(tokens) + 1
  BY TopReads
<1>3. MayCall(operand, 2, s, u)
  BY <1>1 DEF MayCall, ChainRules
<1>4. Top.at = 1 \/ (Top.at = 2 /\ ret = "true")
  BY <1>2 DEF ChainRules
<1>5. CASE Top.at = 1
  <2>1. Todo(Top, ret, s) = {f}
    BY <1>1, <1>5 DEF ChainRules
  <2>2. Open({f}, position)
    BY <1>2, <2>1
  <2>3. ~ Empty(f) /\ ~ Empty(g) /\ (~ Done => Left(f, tokens[position]) = Left(g, tokens[position]))
    BY <1>1 DEF ChainRules
  <2>4. Call(operand, 2, ast, position)
    BY <1>5 DEF ParseChain, At, In
  <2>. QED  BY <1>1, <1>3, <2>2, <2>3, <2>4, PlainCallReads
<1>6. CASE Top.at = 2 /\ ret = "true"
  <2>1. Todo(Top, ret, s) = {u}
    BY <1>1, <1>6 DEF ChainRules
  <2>2. Open({u}, position)
    BY <1>2, <2>1
  <2>3. CASE Expect(operators)
    <3>1. ~ Done /\ Left(u, tokens[position]) = {g}
      BY <1>1, <2>3 DEF Expect, ChainRules
    <3>2. Call(operand, 2, WithToken, position + 1)
      BY <1>6, <2>3 DEF ParseChain, At, In
    <3>. QED  BY <1>1, <1>3, <2>2, <3>1, <3>2, TokenCallReads
  <2>4. CASE ~ Expect(operators)
    <3>1. Return("true") /\ position' = position
      BY <1>6, <2>4 DEF ParseChain, At, In
    <3>2. Open({s}, position)
      <4>1. ~ (position > Len(tokens)) => Left(u, tokens[position]) = Left(s, tokens[position])
        BY <1>1, <2>4 DEF Expect, Done, ChainRules
      <4>2. Empty(u) <=> Empty(s)
        BY <1>1 DEF ChainRules
      <4>. QED  BY <2>2, <4>1, <4>2, OpenOne
    <3>3. Top.fn # "STAR"
      BY DEF ChainRules, EXPRESSIONS
    <3>. QED  BY <3>1, <3>2, <3>3, ReturnReads
  <2>. QED  BY <2>3, <2>4
<1>. QED  BY <1>4, <1>5, <1>6

LEMMA TermReads == ASSUME NEW rest, Reads(rest), ParseTerm PROVE ReadsOn \/ StuckOn
<1>1. PICK s, u : s = rest[Len(stack)] /\ u = Then("unaries", s)
  OBVIOUS
<1>2. Top.fn = "TERM"
  BY DEF ParseTerm, ParseChain, At, In
<1>3. s \in Seq(SYMBOL) /\ Calm("TERM", s) /\ u \in Seq(SYMBOL)
  BY <1>1, <1>2, TopReads, ThenSymbols DEF RULES
<1>4. /\ \A t \in {"DIV", "MULT"} : Left(u, t) = {Then("UNARY", u)}
      /\ \A t : t \notin {"DIV", "MULT"} => Left(u, t) = Left(s, t)
      /\ Empty(u) <=> Empty(s)
  <2>1. \A t \in {"DIV", "MULT"} : Left(s, t) = {}
    BY <1>3 DEF Calm
  <2>. QED  BY <1>1, <1>3, <2>1, UnariesLeft
<1>5. /\ \A t : Left(Then("TERM", s), t) = Left(Then("UNARY", u), t)
      /\ ~ Empty(Then("TERM", s)) /\ ~ Empty(Then("UNARY", u))
  BY <1>1, <1>3, ExpressionsLeft, UnaryLeft
<1>6. /\ \A f, r : f.fn = "TERM" /\ f.at = 1 => Todo(f, r, s) = {Then("TERM", s)}
      /\ \A f, r : f.fn = "TERM" /\ f.at = 2 => Todo(f, r, s) = {u}
      /\ \A f, r : f.fn = "TERM" /\ Standing(f, r) => f.at = 1 \/ (f.at = 2 /\ r = "true")
  BY <1>1 DEF Todo, Standing, LOOPS, EXPRESSIONS
<1>7. /\ \A f, g : f.fn = "TERM" /\ f.at = 2 /\ g.fn = "UNARY" => Returns(f, g, s, u)
      /\ Calm("UNARY", u) /\ "UNARY" \in EXPRESSIONS /\ "TERM" \in EXPRESSIONS
  BY <1>1 DEF Returns, Calm, EXPRESSIONS
<1>8. ChainRules("TERM", "UNARY", {"DIV", "MULT"}, "unaries", s)
  BY <1>1, <1>3, <1>4, <1>5, <1>6, <1>7, Zenon DEF ChainRules
<1>. QED  BY <1>1, <1>2, <1>8, ChainReads DEF ParseTerm

LEMMA ExpressionReads == ASSUME NEW rest, Reads(rest), ParseExpression PROVE ReadsOn \/ StuckOn
<1>1. PICK s, u : s = rest[Len(stack)] /\ u = Then("terms", s)
  OBVIOUS
<1>2. Top.fn = "EXPRESSION"
  BY DEF ParseExpression, ParseChain, At, In
<1>3. s \in Seq(SYMBOL) /\ Calm("EXPRESSION", s) /\ u \in Seq(SYMBOL)
  BY <1>1, <1>2, TopReads, ThenSymbols DEF RULES
<1>4. /\ \A t \in SIGNS : Left(u, t) = {Then("TERM", u)}
      /\ \A t : t \notin SIGNS => Left(u, t) = Left(s, t)
      /\ Empty(u) <=> Empty(s)
  <2>1. \A t \in SIGNS : Left(s, t) = {}
    BY <1>3 DEF Calm
  <2>. QED  BY <1>1, <1>3, <2>1, TermsLeft
<1>5. /\ \A t : Left(Then("EXPRESSION", s), t) = Left(Then("TERM", u), t)
      /\ ~ Empty(Then("EXPRESSION", s)) /\ ~ Empty(Then("TERM", u))
  BY <1>1, <1>3, ExpressionsLeft
<1>6. /\ \A f, r : f.fn = "EXPRESSION" /\ f.at = 1 => Todo(f, r, s) = {Then("EXPRESSION", s)}
      /\ \A f, r : f.fn = "EXPRESSION" /\ f.at = 2 => Todo(f, r, s) = {u}
      /\ \A f, r : f.fn = "EXPRESSION" /\ Standing(f, r) => f.at = 1 \/ (f.at = 2 /\ r = "true")
  BY <1>1 DEF Todo, Standing, LOOPS, EXPRESSIONS
<1>7. /\ \A f, g : f.fn = "EXPRESSION" /\ f.at = 2 /\ g.fn = "TERM" => Returns(f, g, s, u)
      /\ "TERM" \in EXPRESSIONS /\ "EXPRESSION" \in EXPRESSIONS
  BY <1>1 DEF Returns, EXPRESSIONS
<1>8. Calm("TERM", u)
  <2>1. \A t \in {"DIV", "MULT"} : Left(s, t) = {} /\ t \notin SIGNS
    BY <1>3 DEF Calm, SIGNS
  <2>2. \A t \in {"DIV", "MULT"} : Left(u, t) = {}
    BY <1>4, <2>1
  <2>. QED  BY <2>2 DEF Calm
<1>9. ChainRules("EXPRESSION", "TERM", SIGNS, "terms", s)
  BY <1>1, <1>3, <1>4, <1>5, <1>6, <1>7, <1>8, Zenon DEF ChainRules
<1>. QED  BY <1>1, <1>2, <1>9, ChainReads DEF ParseExpression

LEMMA ComparisonReads == ASSUME NEW rest, Reads(rest), ParseComparison PROVE ReadsOn \/ StuckOn
<1>1. PICK s, f, v, u : /\ s = rest[Len(stack)] /\ f = Then("COMPARISON", s)
                        /\ v = Then("EXPRESSION", s) /\ u = Then("operator", v)
  OBVIOUS
<1>2. /\ Open(Todo(Top, ret, s), position) /\ Standing(Top, ret)
      /\ tokens \in Seq(TOKEN) /\ Len(tokens) \in Nat /\ position \in 1 .. Len(tokens) + 1
  BY <1>1, TopReads
<1>3. Top.fn = "COMPARISON" /\ Top.fn \in EXPRESSIONS
  BY DEF ParseComparison, At, In, EXPRESSIONS
<1>4. s \in Seq(SYMBOL) /\ Calm("COMPARISON", s) /\ v \in Seq(SYMBOL) /\ u \in Seq(SYMBOL)
  <2>1. s \in Seq(SYMBOL) /\ Calm("COMPARISON", s)
    BY <1>1, <1>3, TopReads
  <2>2. v \in Seq(SYMBOL)
    BY <1>1, <2>1, ThenSymbols DEF RULES
  <2>3. u \in Seq(SYMBOL)
    BY <1>1, <2>2, ThenSymbols DEF RULES
  <2>. QED  BY <2>1, <2>2, <2>3
<1>5. /\ \A t : Left(u, t) = IF t \in COMPARISON_OPS THEN {v} ELSE {}
      /\ ~ Empty(u)
  BY <1>1, <1>4, OperatorLeft
<1>6. /\ \A t : Left(f, t) = Left(Then("EXPRESSION", u), t)
      /\ ~ Empty(f) /\ ~ Empty(Then("EXPRESSION", u)) /\ ~ Empty(v)
  BY <1>1, <1>4, ExpressionsLeft
<1>7. MayCall("EXPRESSION", 2, s, u)
  <2>1. Calm("EXPRESSION", u)
    BY <1>5 DEF Calm, COMPARISON_OPS, SIGNS
  <2>2. \A x, y : x.fn = Top.fn /\ x.kw = Top.kw /\ x.at = 2 /\ y.fn = "EXPRESSION" => Returns(x, y, s, u)
    BY <1>1, <1>3 DEF Returns
  <2>. QED  BY <1>3, <1>4, <2>1, <2>2 DEF MayCall, EXPRESSIONS
<1>8. MayCall("EXPRESSION", 3, s, s)
  <2>1. Calm("EXPRESSION", s)
    BY <1>4 DEF Calm
  <2>2. \A x, y : x.fn = Top.fn /\ x.kw = Top.kw /\ x.at = 3 /\ y.fn = "EXPRESSION" => Returns(x, y, s, s)
    BY <1>3 DEF Returns
  <2>. QED  BY <1>3, <1>4, <2>1, <2>2 DEF MayCall, EXPRESSIONS
<1>9. Top.at = 1 \/ (Top.at \in {2, 3} /\ ret = "true")
  BY <1>2, <1>3 DEF Standing
<1>10. CASE Top.at = 1
  <2>1. Todo(Top, ret, s) = {f}
    BY <1>1, <1>3, <1>10 DEF Todo, LOOPS, EXPRESSIONS
  <2>2. Open({f}, position)
    BY <1>2, <2>1
  <2>3. Call("EXPRESSION", 2, ast, position)
    BY <1>10 DEF ParseComparison, At, In
  <2>. QED  BY <1>1, <1>6, <1>7, <2>2, <2>3, PlainCallReads
<1>11. CASE Top.at = 2 /\ ret = "true"
  <2>1. Todo(Top, ret, s) = {u}
    BY <1>1, <1>3, <1>11 DEF Todo, LOOPS, EXPRESSIONS
  <2>2. Open({u}, position)
    BY <1>2, <2>1
  <2>3. CASE Expect(COMPARISON_OPS)
    <3>1. ~ Done /\ Left(u, tokens[position]) = {v}
      BY <1>5, <2>3 DEF Expect
    <3>2. Call("EXPRESSION", 3, WithToken, position + 1)
      BY <1>11, <2>3 DEF ParseComparison, At, In
    <3>. QED  BY <1>1, <1>8, <2>2, <3>1, <3>2, TokenCallReads
  <2>4. CASE ~ Expect(COMPARISON_OPS)
    <3>1. Return("false") /\ position' = position
      BY <1>11, <2>4 DEF ParseComparison, At, In
    <3>2. ~ Done => Left(u, tokens[position]) = {}
      BY <1>5, <2>4 DEF Expect
    <3>. QED  BY <1>3, <1>5, <2>2, <3>1, <3>2, StuckAtPart
  <2>. QED  BY <2>3, <2>4
<1>12. CASE Top.at = 3 /\ ret = "true"
  <2>1. Todo(Top, ret, s) = {s}
    BY <1>3, <1>12 DEF Todo, LOOPS, EXPRESSIONS
  <2>2. Open({s}, position)
    BY <1>2, <2>1
  <2>3. Return("true") /\ position' = position
    BY <1>12 DEF ParseComparison, At, In
  <2>. QED  BY <1>1, <1>3, <2>2, <2>3, ReturnReads
<1>. QED  BY <1>9, <1>10, <1>11, <1>12

-----------------------------------------------------------------------------
(***************************************************************************)
(* The steps of a statement and of a loop, as they read on.                *)
(***************************************************************************)
\* What is read after a loop does not begin with a statement.
LEMMA LoopCalm ==
  ASSUME NEW fn \in LOOPS, NEW s \in Seq(SYMBOL), Calm(fn, s), NEW t,
         t \notin CONTROL_FLOW_TOKENS \/ fn = "STAR"
  PROVE  Left(s, t) = {}
<1>1. CASE fn = "STAR"
  BY <1>1, NothingLeft DEF Calm
<1>2. CASE fn = "BLOCK" /\ t \notin CONTROL_FLOW_TOKENS
  <2>1. PICK x \in {"ENDIF", "ENDWHILE"}, v \in Seq(SYMBOL) : s = Then(x, v)
    BY <1>2 DEF Calm
  <2>2. x \in TOKEN /\ t # x
    BY <1>2 DEF TOKEN, CONTROL_FLOW_TOKENS
  <2>. QED  BY <2>1, <2>2, TokenLeft
<1>. QED  BY <1>1, <1>2 DEF LOOPS

\* The item that a statement is at.
LEMMA ItemTop ==
  ASSUME NEW rest, Reads(rest), NEW s, s = rest[Len(stack)], InForm
  PROVE  /\ Top.fn = "STATEMENT" /\ Top.kw \in STATEMENT_START_KEYWORDS
         /\ s \in Seq(SYMBOL) /\ Calm("STATEMENT", s)
         /\ Top.at \in 1 .. Len(Form(Top.kw)) /\ Len(Form(Top.kw)) \in Nat
         /\ ItemOK(Item.expect, Item.call, StatementTodo(Top.kw, Top.at, s), StatementTodo(Top.kw, Top.at + 1, s))
         /\ ret = "none" => Open(StatementTodo(Top.kw, Top.at, s), position)
         /\ ret = "true" => Open(StatementTodo(Top.kw, Top.at + 1, s), position)
         /\ ret = "true" => Item.call # "none"
<1>1. Top.fn = "STATEMENT" /\ Top.at <= Len(Form(Top.kw))
  BY DEF InForm, In
<1>2. /\ s \in Seq(SYMBOL) /\ Calm("STATEMENT", s) /\ Standing(Top, ret)
      /\ Open(Todo(Top, ret, s), position)
  BY <1>1, TopReads
<1>3. /\ Top.kw \in STATEMENT_START_KEYWORDS /\ Top.at \in 1 .. Len(Form(Top.kw)) + 1
      /\ ret = "true" => Item.call # "none"
  BY <1>1, <1>2 DEF Standing, Item
<1>4. Len(Form(Top.kw)) \in Nat
  BY FormLength
<1>5. Top.at \in 1 .. Len(Form(Top.kw))
  BY <1>1, <1>3, <1>4
<1>6. ItemOK(Item.expect, Item.call, StatementTodo(Top.kw, Top.at, s), StatementTodo(Top.kw, Top.at + 1, s))
  <2>1. PICK kw, at : kw = Top.kw /\ at = Top.at
    OBVIOUS
  <2>2. ItemOK(Form(kw)[at].expect, Form(kw)[at].call, StatementTodo(kw, at, s), StatementTodo(kw, at + 1, s))
    BY <1>2, <1>3, <1>5, <2>1, ItemsRead
  <2>. QED  BY <2>1, <2>2 DEF Item
<1>7. Todo(Top, ret, s) = StatementTodo(Top.kw, IF ret = "true" THEN Top.at + 1 ELSE Top.at, s)
  BY <1>1 DEF Todo, LOOPS, EXPRESSIONS
<1>8. ret = "none" => Open(StatementTodo(Top.kw, Top.at, s), position)
  BY <1>2, <1>7
<1>9. ret = "true" => Open(StatementTodo(Top.kw, Top.at + 1, s), position)
  BY <1>2, <1>7
<1>. QED  BY <1>1, <1>2, <1>3, <1>4, <1>5, <1>6, <1>8, <1>9

\* A statement goes on at its next item.
LEMMA ItemResumes ==
  ASSUME NEW rest, Reads(rest), NEW s, s = rest[Len(stack)], InForm,
         stack' = Resume(Top.at + 1), ret' = "none", NEW pos, position' = pos,
         Open(StatementTodo(Top.kw, Top.at + 1, s), pos)
  PROVE  ReadsOn
<1>1. PICK place : place = Top.at + 1
  OBVIOUS
<1>2. place \in 1 .. Len(Form(Top.kw)) + 1 /\ place \in Nat \ {0} /\ Top.fn = "STATEMENT"
      /\ Top.kw \in STATEMENT_START_KEYWORDS
  BY <1>1, ItemTop
<1>3. ASSUME NEW f, f.fn = Top.fn /\ f.kw = Top.kw /\ f.at = place
      PROVE  Standing(f, "none") /\ Open(Todo(f, "none", s), pos)
  <2>1. Standing(f, "none")
    BY <1>2, <1>3 DEF Standing
  <2>2. Todo(f, "none", s) = StatementTodo(Top.kw, place, s)
    BY <1>2, <1>3 DEF Todo, LOOPS, EXPRESSIONS
  <2>. QED  BY <1>1, <2>1, <2>2
<1>. QED  BY <1>1, <1>2, <1>3, ResumeReads

LEMMA StatementTokenReads == ASSUME NEW rest, Reads(rest), StatementToken PROVE ReadsOn
<1>1. PICK s, t, G : /\ s = rest[Len(stack)] /\ t = tokens[position]
                     /\ G = StatementTodo(Top.kw, Top.at + 1, s)
  OBVIOUS
<1>2. InForm /\ ret = "none" /\ ~ Done /\ t \in Item.expect
  BY <1>1 DEF StatementToken, Expect
<1>3. PICK F : F = StatementTodo(Top.kw, Top.at, s)
  OBVIOUS
<1>4. ItemOK(Item.expect, Item.call, F, G) /\ Open(F, position)
  BY <1>1, <1>2, <1>3, ItemTop
<1>5. Read(F, t, TOKEN) = G /\ G # {}
  BY <1>2, <1>4 DEF ItemOK
<1>6. tokens \in Seq(TOKEN) /\ position \in 1 .. Len(tokens)
  BY <1>1, <1>2, TopReads DEF Done
<1>7. Open(G, position + 1)
  BY <1>1, <1>4, <1>5, <1>6, OpenToken
<1>8. stack' = Resume(Top.at + 1) /\ ret' = "none" /\ position' = position + 1
  BY <1>2 DEF StatementToken
<1>. QED  BY <1>1, <1>2, <1>7, <1>8, ItemResumes

LEMMA StatementResumeReads == ASSUME NEW rest, Reads(rest), StatementResume PROVE ReadsOn
<1>1. PICK s : s = rest[Len(stack)]
  OBVIOUS
<1>2. InForm /\ ret = "true" /\ stack' = Resume(Top.at + 1) /\ ret' = "none" /\ position' = position
  BY DEF StatementResume
<1>3. Open(StatementTodo(Top.kw, Top.at + 1, s), position)
  BY <1>1, <1>2, ItemTop
<1>. QED  BY <1>1, <1>2, <1>3, ItemResumes

LEMMA StatementCallReads == ASSUME NEW rest, Reads(rest), StatementCall PROVE ReadsOn \/ StuckOn
<1>1. PICK s, F, G, call : /\ s = rest[Len(stack)] /\ F = StatementTodo(Top.kw, Top.at, s)
                           /\ G = StatementTodo(Top.kw, Top.at + 1, s) /\ call = Item.call
  OBVIOUS
<1>2. /\ InForm /\ ret = "none" /\ ~ Expect(Item.expect) /\ call \in {"COMPARISON", "EXPRESSION"}
      /\ Call(call, Top.at, ast, position)
  BY <1>1 DEF StatementCall
<1>3. /\ ItemOK(Item.expect, call, F, G) /\ Open(F, position)
      /\ Top.fn = "STATEMENT" /\ Top.kw \in STATEMENT_START_KEYWORDS
      /\ Top.at \in 1 .. Len(Form(Top.kw)) /\ Len(Form(Top.kw)) \in Nat
  BY <1>1, <1>2, ItemTop
<1>4. PICK u \in Seq(SYMBOL) :
        /\ G = {u} /\ Calm(call, u) /\ ~ MayEnd(F, TOKEN)
        /\ \A t : t \notin Item.expect => Read(F, t, TOKEN) = Left(Then(call, u), t)
  BY <1>2, <1>3 DEF ItemOK
<1>5. PICK f : f = Then(call, u)
  OBVIOUS
<1>6. ~ Empty(f)
  BY <1>2, <1>5, ExpressionsLeft
<1>7. Agree(F, {f}, tokens, position)
  <2>1. ~ MayEnd({f}, TOKEN)
    BY <1>6, MayEndMembers
  <2>2. Read({f}, tokens[position], TOKEN) = Left(f, tokens[position])
    BY ReadOne
  <2>3. ~ Done => tokens[position] \notin Item.expect
    BY <1>2 DEF Expect
  <2>. QED  BY <1>4, <1>5, <2>1, <2>2, <2>3 DEF Agree, Done
<1>8. Open({f}, position)
  BY <1>3, <1>7, OpenAlike
<1>9. MayCall(call, Top.at, s, u)
  <2>1. call # "none" /\ call \in EXPRESSIONS /\ Top.at \in Nat \ {0}
    BY <1>2, <1>3 DEF EXPRESSIONS
  <2>2. ASSUME NEW x, NEW y, x.fn = Top.fn /\ x.kw = Top.kw /\ x.at = Top.at /\ y.fn = call
        PROVE  Returns(x, y, s, u)
    <3>1. PICK kw, at : kw = Top.kw /\ at = Top.at
      OBVIOUS
    <3>2. /\ x.fn = "STATEMENT" /\ x.kw = kw /\ x.at = at /\ kw \in STATEMENT_START_KEYWORDS
          /\ at \in 1 .. Len(Form(kw)) /\ Form(kw)[at].call = call
          /\ StatementTodo(kw, at + 1, s) = {u}
      BY <1>1, <1>3, <1>4, <2>2, <3>1 DEF Item
    <3>. QED  BY <2>1, <2>2, <3>2 DEF Returns
  <2>. QED  BY <1>2, <1>4, <2>1, <2>2 DEF MayCall
<1>10. Len(ast) \in Nat /\ position \in 1 .. Len(tokens) + 1
  BY TreeLens DEF Reads, PInv
<1>. QED  BY <1>1, <1>2, <1>5, <1>8, <1>9, <1>10, CallReads

LEMMA StatementBlockReads == ASSUME NEW rest, Reads(rest), StatementBlock PROVE ReadsOn
<1>1. PICK s, F, G, g : /\ s = rest[Len(stack)] /\ F = StatementTodo(Top.kw, Top.at, s)
                        /\ G = StatementTodo(Top.kw, Top.at + 1, s)
                        /\ g = Frame("BLOCK", Top.node, "none")
  OBVIOUS
<1>2. /\ InForm /\ ret = "none" /\ Item.call = "BLOCK"
      /\ stack' = Append(stack, g) /\ ret' = "none" /\ position' = position
  BY <1>1 DEF StatementBlock
<1>3. /\ ItemOK(Item.expect, Item.call, F, G) /\ Open(F, position)
      /\ Top.fn = "STATEMENT" /\ Top.kw \in STATEMENT_START_KEYWORDS
      /\ Top.at \in 1 .. Len(Form(Top.kw)) /\ Len(Form(Top.kw)) \in Nat
  BY <1>1, <1>2, ItemTop
<1>4. PICK u \in Seq(SYMBOL) : F = {Then("statements", u)} /\ G = {u} /\ Calm("BLOCK", u)
  BY <1>2, <1>3 DEF ItemOK
<1>5. /\ Top \in FrameSet /\ stack \in Seq(FrameSet) /\ stack[Len(stack)] = Top
  BY TopReads
<1>6. g.fn = "BLOCK" /\ g.at = 1 /\ g.kw = "none" /\ g \in FrameSet
  BY <1>1, <1>5 DEF Frame, FrameSet
<1>7. Todo(g, "none", u) = F /\ Standing(g, "none")
  BY <1>4, <1>6 DEF Todo, Standing, LOOPS, EXPRESSIONS
<1>8. PICK f : f = Top
  OBVIOUS
<1>9. Returns(f, g, s, u)
  <2>1. PICK kw, at : kw = Top.kw /\ at = Top.at
    OBVIOUS
  <2>2. /\ f.fn = "STATEMENT" /\ f.kw = kw /\ f.at = at /\ kw \in STATEMENT_START_KEYWORDS
        /\ at \in 1 .. Len(Form(kw)) /\ Form(kw)[at].call = "BLOCK"
        /\ StatementTodo(kw, at + 1, s) = {u}
    BY <1>1, <1>2, <1>3, <1>4, <1>8, <2>1 DEF Item
  <2>. QED  BY <1>6, <2>2 DEF Returns
<1>10. Open(Todo(g, "none", u), position) /\ Calm(g.fn, u)
  BY <1>3, <1>4, <1>6, <1>7
<1>. QED  BY <1>1, <1>2, <1>5, <1>6, <1>7, <1>8, <1>9, <1>10, PushReads

LEMMA StatementEndReads == ASSUME NEW rest, Reads(rest), StatementEnd PROVE ReadsOn
<1>1. PICK s, k : s = rest[Len(stack)] /\ k = Len(Form(Top.kw))
  OBVIOUS
<1>2. Top.fn = "STATEMENT" /\ Top.at > k /\ Return("true") /\ position' = position
  BY <1>1 DEF StatementEnd, In
<1>3. /\ s \in Seq(SYMBOL) /\ Calm("STATEMENT", s) /\ Standing(Top, ret)
      /\ Open(Todo(Top, ret, s), position)
  BY <1>1, <1>2, TopReads
<1>4. /\ Top.kw \in STATEMENT_START_KEYWORDS /\ Top.at \in 1 .. k + 1
      /\ ret = "true" => Top.at <= k
  BY <1>1, <1>2, <1>3 DEF Standing
<1>5. k \in Nat
  BY <1>1, FormLength
<1>6. Top.at = k + 1 /\ ret # "true"
  BY <1>2, <1>4, <1>5
<1>7. StatementTodo(Top.kw, k + 1, s) = {s}
  <2>1. PICK kw : kw = Top.kw
    OBVIOUS
  <2>2. StatementTodo(kw, Len(Form(kw)) + 1, s) = {s}
    BY <1>3, <1>4, <2>1, ItemsRead
  <2>. QED  BY <1>1, <2>1, <2>2
<1>8. Todo(Top, ret, s) = StatementTodo(Top.kw, k + 1, s)
  BY <1>2, <1>6 DEF Todo, LOOPS, EXPRESSIONS
<1>9. Open({s}, position)
  BY <1>3, <1>7, <1>8
<1>. QED  BY <1>1, <1>2, <1>9, ReturnReads

\* The first error names the place where nothing may follow.
WrongOn == errors' # <<>> /\ FirstWrong(tokens, errors'[1])

LEMMA ErrorPlaced ==
  ASSUME PInv, errors = <<>>, errors' = Append(errors, Here), Stuck(tokens, position)
  PROVE  WrongOn
<1>1. errors' # <<>> /\ errors'[1] = Here
  <2>1. Here \in {FILE_START} \cup 1 .. Len(tokens)
    BY DEF PInv, Here, Done
  <2>2. PICK new : new = errors'
    OBVIOUS
  <2>3. Len(new) = 1 /\ new[1] = Here
    BY <2>2, <2>1
  <2>4. new # <<>>
    BY <2>3
  <2>. QED  BY <2>2, <2>3, <2>4
<1>2. FirstWrong(tokens, Here)
  <2>1. CASE Done
    <3>1. Here = FILE_START /\ position = Len(tokens) + 1 /\ Len(tokens) \in Nat
      BY <2>1 DEF Here, PInv, Done
    <3>. QED  BY <3>1 DEF FirstWrong
  <2>2. CASE ~ Done
    <3>1. Here = position /\ position \in 1 .. Len(tokens) + 1 /\ ~ (position > Len(tokens))
      BY <2>2 DEF Here, PInv, Done
    <3>. QED  BY <3>1 DEF FirstWrong
  <2>. QED  BY <2>1, <2>2
<1>. QED  BY <1>1, <1>2 DEF WrongOn

LEMMA StatementFailReads ==
  ASSUME NEW rest, Reads(rest), StatementFail, errors = <<>> PROVE WrongOn
<1>1. PICK s, F, G : /\ s = rest[Len(stack)] /\ F = StatementTodo(Top.kw, Top.at, s)
                     /\ G = StatementTodo(Top.kw, Top.at + 1, s)
  OBVIOUS
<1>2. /\ InForm /\ ~ Expect(Item.expect) /\ Item.call = "none"
      /\ errors' = Append(errors, Here)
  BY DEF StatementFail, Reads
<1>3. ret = "none"
  BY <1>1, <1>2, ItemTop DEF Reads, PInv
<1>4. ItemOK(Item.expect, Item.call, F, G) /\ Open(F, position)
  BY <1>1, <1>2, <1>3, ItemTop
<1>5. ~ MayEnd(F, TOKEN) /\ \A t : t \notin Item.expect => Read(F, t, TOKEN) = {}
  BY <1>2, <1>4 DEF ItemOK
<1>6. Stuck(tokens, position)
  BY <1>2, <1>4, <1>5, OpenStuck DEF Expect, Done
<1>. QED  BY <1>2, <1>6, ErrorPlaced DEF Reads

\* What a loop may read.
LEMMA LoopTop ==
  ASSUME NEW rest, Reads(rest), NEW s, s = rest[Len(stack)], InLoop
  PROVE  /\ Top.fn \in LOOPS /\ s \in Seq(SYMBOL) /\ Calm(Top.fn, s)
         /\ Open({Then("statements", s)}, position)
<1>1. Top.fn \in LOOPS
  BY DEF InLoop, In, LOOPS
<1>2. Todo(Top, ret, s) = {Then("statements", s)}
  BY <1>1 DEF Todo, LOOPS, EXPRESSIONS
<1>. QED  BY <1>1, <1>2, TopReads

LEMMA StarReturnReads == ASSUME NEW rest, Reads(rest), StarReturn PROVE ReadsOn
<1>1. PICK s, t : s = rest[Len(stack)] /\ t = tokens[position]
  OBVIOUS
<1>2. InLoop /\ (Done \/ AtBlockEnd) /\ Return("true") /\ position' = position
  BY DEF StarReturn, AtLoop
<1>3. s \in Seq(SYMBOL) /\ Calm(Top.fn, s) /\ Open({Then("statements", s)}, position)
  BY <1>1, <1>2, LoopTop
<1>4. Empty(Then("statements", s)) <=> Empty(s)
  BY <1>3, StatementsLeft
<1>5. ~ Done => Left(Then("statements", s), t) = Left(s, t)
  <2>1. ~ Done => t \notin STATEMENT_START_KEYWORDS
    BY <1>1, <1>2 DEF AtBlockEnd, Expect, CONTROL_FLOW_TOKENS, STATEMENT_START_KEYWORDS
  <2>. QED  BY <1>3, <2>1, StatementsLeft
<1>6. Open({s}, position)
  BY <1>1, <1>3, <1>4, <1>5, OpenOne DEF Done
<1>7. Top.fn = "STAR" => s = <<>> /\ position = Len(tokens) + 1
  BY <1>2, <1>3, TopReads DEF Calm, AtBlockEnd, In, Done
<1>. QED  BY <1>1, <1>2, <1>6, <1>7, ReturnReads

LEMMA StarUnknownReads ==
  ASSUME NEW rest, Reads(rest), StarUnknown, errors = <<>> PROVE WrongOn
<1>1. PICK s, t, f : s = rest[Len(stack)] /\ t = tokens[position] /\ f = Then("statements", s)
  OBVIOUS
<1>2. /\ InLoop /\ ~ Done /\ ~ AtBlockEnd /\ t \notin STATEMENT_START_KEYWORDS
      /\ errors' = Append(errors, Here)
  BY <1>1 DEF StarUnknown, AtLoop, Expect
<1>3. Top.fn \in LOOPS /\ s \in Seq(SYMBOL) /\ Calm(Top.fn, s) /\ Open({f}, position)
  BY <1>1, <1>2, LoopTop
<1>4. t \notin CONTROL_FLOW_TOKENS \/ Top.fn = "STAR"
  BY <1>1, <1>2, <1>3 DEF AtBlockEnd, In, Expect, LOOPS, Reads
<1>5. Left(f, t) = {}
  <2>1. Left(f, t) = Left(s, t)
    BY <1>1, <1>2, <1>3, StatementsLeft
  <2>2. Left(s, t) = {}
    BY <1>3, <1>4, LoopCalm
  <2>. QED  BY <2>1, <2>2
<1>6. Read({f}, t, TOKEN) = {}
  BY <1>5, ReadOne
<1>7. Stuck(tokens, position)
  BY <1>1, <1>2, <1>3, <1>6, OpenStuck DEF Done
<1>. QED  BY <1>2, <1>7, ErrorPlaced DEF Reads

LEMMA StarStatementReads == ASSUME NEW rest, Reads(rest), StarStatement PROVE ReadsOn
<1>1. PICK s, t, u, f, g : /\ s = rest[Len(stack)] /\ t = tokens[position] /\ u = Then("statements", s)
                           /\ f = Top /\ g = Frame("STATEMENT", Len(ast) + 1, t)
  OBVIOUS
<1>2. /\ InLoop /\ ~ Done /\ t \in STATEMENT_START_KEYWORDS
      /\ stack' = Append(stack, g) /\ ret' = "none" /\ position' = position
  BY <1>1 DEF StarStatement, AtLoop, Expect
<1>3. Top.fn \in LOOPS /\ s \in Seq(SYMBOL) /\ Calm(Top.fn, s) /\ Open({u}, position)
  BY <1>1, <1>2, LoopTop
<1>4. u \in Seq(SYMBOL)
  BY <1>1, <1>3, ThenSymbols DEF RULES
<1>5. \A x : x \notin CONTROL_FLOW_TOKENS => Left(s, x) = {}
  BY <1>3, LoopCalm
<1>6. t \notin CONTROL_FLOW_TOKENS /\ t \in TOKEN
  BY <1>2 DEF CONTROL_FLOW_TOKENS, STATEMENT_START_KEYWORDS, TOKEN
<1>7. Left(u, t) = AfterKeyword(t, u)
  <2>1. Left(Then("statements", s), t) = Left(s, t) \cup AfterKeyword(t, Then("statements", s))
    BY <1>2, <1>3, StatementsLeft
  <2>2. Left(s, t) = {}
    BY <1>5, <1>6
  <2>3. Left(u, t) = Left(s, t) \cup AfterKeyword(t, u)
    BY <1>1, <2>1
  <2>. QED  BY <2>2, <2>3
<1>8. Calm("STATEMENT", u)
  <2>1. \A x \in {"DIV", "MULT"} \cup SIGNS : x \notin CONTROL_FLOW_TOKENS /\ x \notin STATEMENT_START_KEYWORDS
    BY DEF SIGNS, CONTROL_FLOW_TOKENS, STATEMENT_START_KEYWORDS
  <2>2. \A x \in {"DIV", "MULT"} \cup SIGNS : Left(u, x) = {}
    BY <1>1, <1>3, <1>5, <2>1, StatementsLeft
  <2>. QED  BY <2>2 DEF Calm
<1>9. PICK A, F : A = AfterKeyword(t, u) /\ F = Prefixed(t, A)
  OBVIOUS
<1>10. A \subseteq Seq(SYMBOL)
  BY <1>2, <1>4, <1>9, TodoSymbols
<1>11. Agree({u}, F, tokens, position)
  <2>1. Read({u}, t, TOKEN) = Left(u, t)
    BY ReadOne
  <2>2. Read(F, t, TOKEN) = A
    BY <1>6, <1>9, <1>10, ReadKeyword
  <2>. QED  BY <1>1, <1>2, <1>7, <1>9, <2>1, <2>2 DEF Agree, Done
<1>12. g.fn = "STATEMENT" /\ g.at = 1 /\ g.kw = t /\ g \in FrameSet
  BY <1>1, <1>2, TreeLens DEF Frame, FrameSet, GRAMMAR_TYPE, Reads
<1>13. Standing(g, "none")
  BY <1>2, <1>12, FormLength DEF Standing
<1>14. Todo(g, "none", u) = F
  <2>1. Todo(g, "none", u) = StatementTodo(t, 1, u)
    BY <1>12 DEF Todo, LOOPS, EXPRESSIONS
  <2>2. StatementTodo(t, 1, u) = F
    BY <1>9 DEF StatementTodo
  <2>. QED  BY <2>1, <2>2
<1>15. Open(Todo(g, "none", u), position) /\ Calm(g.fn, u)
  BY <1>3, <1>8, <1>11, <1>12, <1>14, OpenAlike
<1>16. Returns(f, g, s, u)
  BY <1>1, <1>3, <1>12 DEF Returns
<1>17. stack \in Seq(FrameSet) /\ stack[Len(stack)] = f
  BY <1>1, TopReads
<1>. QED  BY <1>1, <1>2, <1>4, <1>12, <1>13, <1>15, <1>16, <1>17, PushReads

-----------------------------------------------------------------------------
(***************************************************************************)
(* The invariant.                                                          *)
(***************************************************************************)
LEMMA InitReading == ASSUME Init PROVE ReadingInv
<1>1. /\ tokens \in Seq(TOKEN) /\ position = 1 /\ ret = "none" /\ errors = <<>>
      /\ stack = <<Frame("STAR", Head_, "none")>>
  BY ParserAssumption DEF Init, Start
<1>2. PICK st : st = stack
  OBVIOUS
<1>3. Len(st) = 1 /\ st[1].fn = "STAR" /\ st[Len(st)] = st[1] /\ st # <<>>
  BY <1>1, <1>2 DEF Frame
<1>4. PICK e, rest : e = <<>> /\ rest = <<e>>
  OBVIOUS
<1>5. e \in Seq(SYMBOL) /\ rest \in Seq(Seq(SYMBOL)) /\ Len(rest) = 1 /\ rest[1] = e
  BY <1>4
<1>6. Linked(st, rest)
  <2>1. Calm("STAR", e)
    BY <1>4 DEF Calm
  <2>2. \A d \in 1 .. 1 : Calm(st[d].fn, rest[d])
    BY <1>3, <1>5, <2>1
  <2>. QED  BY <1>3, <1>5, <2>2 DEF Linked
<1>7. Todo(st[1], "none", e) = {Then("statements", e)} /\ Standing(st[1], "none")
  BY <1>3 DEF Todo, Standing, LOOPS, EXPRESSIONS
<1>8. AfterTokens(tokens, position - 1) = {Then("PROGRAM", e)}
  <2>1. Then("PROGRAM", e) = <<"PROGRAM">>
    <3>1. "PROGRAM" \in SYMBOL
      BY DEF SYMBOL, GRAMMAR_TYPE
    <3>. QED  BY <1>4, <3>1 DEF Then
  <2>2. position - 1 = 0
    BY <1>1
  <2>. QED  BY <1>1, <2>1, <2>2, AfterSteps
<1>9. Open({Then("PROGRAM", e)}, position)
  BY <1>8 DEF Open, Agree
<1>10. Open({Then("statements", e)}, position)
  <2>1. Empty(Then("PROGRAM", e)) <=> Empty(Then("statements", e))
    BY <1>5, ProgramRule
  <2>2. Left(Then("PROGRAM", e), tokens[position]) = Left(Then("statements", e), tokens[position])
    BY <1>5, ProgramRule
  <2>. QED  BY <1>9, <2>1, <2>2, OpenOne
<1>11. Reading(st, rest, "none", position, tokens)
  BY <1>3, <1>5, <1>6, <1>7, <1>10 DEF Reading, Open
<1>. QED  BY <1>1, <1>2, <1>3, <1>11 DEF ReadingInv

\* On its way to the statement that reports it, a failure stays where it was.
LEMMA FailingStays ==
  ASSUME PInv, OInv, Nested(stack), Calling(stack), Failing, Next
  PROVE  \/ errors' = Append(errors, Here)
         \/ Failing' /\ position' = position /\ errors' = errors
<1>1. /\ Running /\ ret = "false" /\ Top.fn \notin LOOPS
      /\ Top.fn = "STATEMENT" => Top.at <= Len(Form(Top.kw))
      /\ Top.fn \in EXPRESSIONS => Top.at > 1
      /\ RootInv(stack)
  BY DEF Failing, CallsFrom, OInv
<1>2. ASSUME Return("false"), Top.fn \in EXPRESSIONS PROVE Failing'
  BY <1>1, <1>2, FailsOn
<1>3. ~ Finished /\ ~ ParsePrimary
  BY <1>1 DEF Finished, Running, ParsePrimary, At, In, EXPRESSIONS
<1>4. CASE ParseUnary
  BY <1>1, <1>2, <1>4 DEF ParseUnary, At, In, EXPRESSIONS
<1>5. CASE ParseTerm \/ ParseExpression
  <2>1. ASSUME NEW fn \in {"TERM", "EXPRESSION"}, NEW operand, NEW operators,
               ParseChain(fn, operand, operators)
        PROVE  Return("false") /\ Top.fn \in EXPRESSIONS /\ position' = position /\ errors' = errors
    BY <1>1, <2>1 DEF ParseChain, At, In, EXPRESSIONS
  <2>. QED  BY <1>2, <1>5, <2>1 DEF ParseTerm, ParseExpression
<1>6. CASE ParseComparison
  BY <1>1, <1>2, <1>6 DEF ParseComparison, At, In, EXPRESSIONS
<1>7. CASE StatementFail
  BY <1>7 DEF StatementFail
<1>8. ~ StatementToken /\ ~ StatementCall /\ ~ StatementBlock /\ ~ StatementResume
  BY <1>1 DEF StatementToken, StatementCall, StatementBlock, StatementResume
<1>9. ~ StatementEnd
  BY <1>1, TopFrame, FormLength DEF StatementEnd, In, PInv, FrameSet
<1>10. ~ StarReturn /\ ~ StarUnknown /\ ~ StarStatement /\ ~ StarRecover
  BY <1>1 DEF StarReturn, StarUnknown, StarStatement, StarRecover, AtLoop, InLoop, In, LOOPS
<1>. QED  BY <1>3, <1>4, <1>5, <1>6, <1>7, <1>8, <1>9, <1>10 DEF Next

LEMMA ReadsSteps ==
  ASSUME NEW rest, Reads(rest), errors = <<>>, Next, ~ Finished
  PROVE  WrongOn \/ (errors' = errors /\ (ReadsOn \/ StuckOn))
<1>1. ~ StarRecover
  BY DEF StarRecover, Reads
<1>2. CASE StatementFail \/ StarUnknown
  BY <1>2, StatementFailReads, StarUnknownReads
<1>3. CASE ~ StatementFail /\ ~ StarUnknown
  <2>1. errors' = errors
    BY <1>1, <1>3 DEF Next, ParsePrimary, ParseUnary, ParseTerm, ParseExpression, ParseChain,
       ParseComparison, StatementToken, StatementCall, StatementBlock, StatementResume,
       StatementEnd, StarReturn, StarStatement
  <2>2. ReadsOn \/ StuckOn
    BY <1>1, <1>3, PrimaryReads, UnaryReads, TermReads, ExpressionReads, ComparisonReads,
       StatementTokenReads, StatementCallReads, StatementBlockReads, StatementResumeReads,
       StatementEndReads, StarReturnReads, StarStatementReads
    DEF Next
  <2>. QED  BY <2>1, <2>2
<1>. QED  BY <1>2, <1>3

LEMMA StepReading ==
  PInv /\ OInv /\ RInv /\ ShapeInv /\ ReadingInv /\ [Next]_vars => ReadingInv'
<1>. SUFFICES ASSUME PInv, OInv, RInv, ShapeInv, ReadingInv, [Next]_vars PROVE ReadingInv'
  OBVIOUS
<1>1. Nested(stack) /\ Calling(stack)
  BY DEF RInv, ShapeInv
<1>2. CASE UNCHANGED vars
  <2>1. /\ tokens' = tokens /\ position' = position /\ ast' = ast /\ stack' = stack
        /\ ret' = ret /\ errors' = errors
    BY <1>2 DEF vars
  <2>2. Failing' <=> Failing
    BY <2>1 DEF Failing, Running, Top
  <2>. QED  BY <2>1, <2>2, Zenon DEF ReadingInv
<1>3. CASE Next /\ ~ Finished
  <2>1. tokens' = tokens /\ Running
    BY <1>3 DEF Next, ParsePrimary, ParseUnary, ParseTerm, ParseExpression, ParseChain,
       ParseComparison, StatementToken, StatementCall, StatementBlock, StatementResume,
       StatementFail, StatementEnd, StarReturn, StarUnknown, StarStatement, StarRecover,
       AtLoop, InLoop, InForm, At, In
  <2>2. CASE errors # <<>> /\ FirstWrong(tokens, errors[1])
    <3>1. ErrorsGrow
      BY <1>3, NextErrors
    <3>2. errors' # <<>> /\ errors'[1] = errors[1]
      BY <2>2, <3>1 DEF ErrorsGrow, PInv
    <3>. QED  BY <2>1, <2>2, <3>2 DEF ReadingInv
  <2>3. CASE errors = <<>> /\ Failing /\ Stuck(tokens, position)
    <3>1. CASE errors' = Append(errors, Here)
      <4>1. WrongOn
        BY <2>3, <3>1, ErrorPlaced
      <4>. QED  BY <2>1, <4>1 DEF WrongOn, ReadingInv
    <3>2. CASE Failing' /\ position' = position /\ errors' = errors
      BY <2>1, <2>3, <3>2 DEF ReadingInv
    <3>. QED  BY <1>1, <1>3, <2>3, <3>1, <3>2, FailingStays
  <2>4. CASE /\ errors = <<>> /\ ret # "false"
             /\ \E rest : Reading(stack, rest, ret, position, tokens)
    <3>1. PICK rest : Reads(rest)
      BY <1>1, <2>1, <2>4 DEF Reads, OInv
    <3>2. WrongOn \/ (errors' = errors /\ (ReadsOn \/ StuckOn))
      BY <1>3, <2>4, <3>1, ReadsSteps
    <3>3. CASE WrongOn
      BY <2>1, <3>3 DEF WrongOn, ReadingInv
    <3>4. CASE errors' = errors /\ StuckOn
      BY <2>1, <2>4, <3>4 DEF StuckOn, ReadingInv
    <3>5. CASE errors' = errors /\ ReadsOn
      BY <2>1, <2>4, <3>5 DEF ReadsOn, ReadingInv
    <3>. QED  BY <3>2, <3>3, <3>4, <3>5
  <2>. QED  BY <2>1, <2>2, <2>3, <2>4 DEF ReadingInv, Running
<1>. QED  BY <1>2, <1>3 DEF Finished

LEMMA ReadingEnds == PInv /\ ReadingInv => ErrorsExact
<1>. SUFFICES ASSUME PInv, ReadingInv, stack = <<>> PROVE ErrorsExact
  BY DEF ErrorsExact, AcceptsTheGrammar, FirstErrorExact, Finished_
<1>1. PICK n : n = Len(tokens)
  OBVIOUS
<1>2. n \in Nat /\ tokens \in Seq(TOKEN) /\ errors \in Seq({FILE_START} \cup 1 .. n)
  BY <1>1 DEF PInv
<1>3. \A k : FollowTokens[k] = AfterTokens(tokens, k)
  BY DEF FollowTokens, AfterTokens
<1>4. ~ Failing
  BY DEF Failing, Running
<1>5. CASE errors = <<>> /\ MayEnd(AfterTokens(tokens, n), TOKEN)
  <2>1. AcceptsTheGrammar
    BY <1>1, <1>3, <1>5 DEF AcceptsTheGrammar
  <2>2. FirstErrorExact
    BY <1>5 DEF FirstErrorExact
  <2>. QED  BY <2>1, <2>2 DEF ErrorsExact
<1>6. CASE errors # <<>> /\ FirstWrong(tokens, errors[1])
  <2>1. PICK first \in 1 .. n + 1 :
          /\ Stuck(tokens, first)
          /\ errors[1] = IF first > n THEN FILE_START ELSE first
    BY <1>1, <1>6 DEF FirstWrong
  <2>2. first \in 1 .. n + 1 /\ (~ (first > n) => first \in 1 .. n)
    BY <1>2
  <2>3. AfterTokens(tokens, first - 1) # {}
    BY <2>1 DEF Stuck
  <2>4. ~ (first > n) => AfterTokens(tokens, first) = {}
    <3>. SUFFICES ASSUME ~ (first > n) PROVE AfterTokens(tokens, first) = {}
      OBVIOUS
    <3>1. first \in 1 .. n /\ ~ (first > n)
      BY <1>2, <2>2
    <3>2. Read(AfterTokens(tokens, first - 1), tokens[first], TOKEN) = {}
      BY <1>1, <2>1, <3>1 DEF Stuck
    <3>. QED  BY <1>1, <1>2, <3>1, <3>2, AfterSteps
  <2>5. ~ MayEnd(AfterTokens(tokens, n), TOKEN)
    <3>1. CASE first > n
      <4>1. first > n /\ first - 1 = n
        BY <1>2, <2>2, <3>1
      <4>. QED  BY <1>1, <2>1, <4>1 DEF Stuck
    <3>2. CASE ~ (first > n)
      <4>1. first \in 0 .. Len(tokens) /\ AfterTokens(tokens, first) = {}
        BY <1>1, <1>2, <2>2, <2>4, <3>2
      <4>2. AfterTokens(tokens, n) = {}
        BY <1>1, <1>2, <4>1, NothingFollows
      <4>. QED  BY <4>2, MayEndMembers
    <3>. QED  BY <3>1, <3>2
  <2>6. AcceptsTheGrammar
    BY <1>1, <1>3, <1>6, <2>5 DEF AcceptsTheGrammar
  <2>7. FirstErrorExact
    BY <1>1, <1>3, <2>1, <2>3, <2>4 DEF FirstErrorExact
  <2>. QED  BY <2>6, <2>7 DEF ErrorsExact
<1>. QED  BY <1>1, <1>4, <1>5, <1>6 DEF ReadingInv

\* For every input, the parser reports no error exactly if the input is a
\* program of the grammar, and the first error is about the first mistake: it
\* names the first token that no program could have there or, if the input lacks
\* a continuation, the start of the file (parser.c:84-415).
THEOREM ErrorsExactForAll == Spec => []ErrorsExact
<1>1. PInv /\ OInv /\ RInv /\ ShapeInv /\ ReadingInv => ErrorsExact
  BY ReadingEnds
<1>2. Init => PInv /\ OInv /\ RInv /\ ShapeInv /\ ReadingInv
  BY InitPInv, InitOInv, InitRInv, InitShape, InitReading
<1>3. PInv /\ OInv /\ RInv /\ ShapeInv /\ ReadingInv /\ [Next]_vars
        => (PInv /\ OInv /\ RInv /\ ShapeInv /\ ReadingInv)'
  BY StepPInv, StepOInv, StepRInv, StepShape, StepReading
<1>. QED  BY <1>1, <1>2, <1>3, PTL DEF Spec

-----------------------------------------------------------------------------
(***************************************************************************)
(* The tree read back.                                                     *)
(***************************************************************************)
\* The children of a node are a chain from its first child.
LEMMA ChildrenChain ==
  ASSUME IsTree(ast), NEW n \in Ids(ast)
  PROVE  IF FirstChild(ast, n) = 0 THEN Children(n) = <<>>
                                   ELSE Chain(Children(n), ast, FirstChild(ast, n))
<1>. DEFINE v == CHOOSE g : Lister(g, ast)
<1>1. Lister(v, ast)
  <2>1. \E g : Lister(g, ast)
    BY ListerExists
  <2>. QED  BY <2>1, Zenon
<1>2. Children(n) = v[FirstChild(ast, n)]
  BY Zenon DEF Children, Lister
<1>. HIDE DEF v
<1>3. Len(ast) \in Nat /\ FirstChild(ast, n) \in 0 .. Len(ast)
  BY Links
<1>4. v[0] = <<>>
  <2>1. \A m \in 0 .. Len(ast) : v[m] = IF m = NO_NODE THEN <<>> ELSE <<m>> \o v[NextSibling(ast, m)]
    BY <1>1, Zenon DEF Lister
  <2>2. 0 \in 0 .. Len(ast)
    BY <1>3
  <2>. QED  BY <2>1, <2>2 DEF NO_NODE
<1>5. \A m \in 1 .. Len(ast) : Chain(v[m], ast, m)
  BY <1>1, ListerChains
<1>. QED  BY <1>2, <1>3, <1>4, <1>5

-----------------------------------------------------------------------------
(***************************************************************************)
(* The children of a node begin, go on and end as its rule does.           *)
(***************************************************************************)
\* The first child of a node begins one of its productions.
LEMMA RuleBegins ==
  ASSUME NEW fn \in GRAMMAR_TYPE, NEW kw, NEW at, NEW x,
         fn = "STATEMENT" => kw \in STATEMENT_START_KEYWORDS,
         Begins(fn, at), Fits(fn, kw, at, x)
  PROVE  Remaining(fn, kw, at) \subseteq Read(Productions(fn), x, NODE)
<1>1. PICK e \in Seq(SYMBOL) : e = <<>>
  <2>1. <<>> \in Seq(SYMBOL)
    OBVIOUS
  <2>. QED  BY <2>1
<1>2. Len(e) = 0
  BY <1>1
<1>3. /\ {"statements", "operator", "terms", "unaries", "EXPRESSION", "TERM", "UNARY", "PRIMARY", "PLUS",
          "MINUS", "NUMBER", "IDENT"} \subseteq SYMBOL
      /\ {"EXPRESSION", "TERM", "UNARY", "PRIMARY", "PLUS", "MINUS", "NUMBER", "IDENT"} \subseteq NODE
      /\ STATEMENT_START_KEYWORDS \subseteq NODE
  BY DEF SYMBOL, NODE, TOKEN, GRAMMAR_TYPE, SIGNS
<1>4. \A y, z \in SYMBOL : <<y>> = Then(y, e) /\ <<y, z>> = Then(y, Then(z, e))
  BY <1>2, ShortForms
<1>5. \A y \in SYMBOL : \A s \in Seq(SYMBOL) : Then(y, s) \in Seq(SYMBOL)
  BY ThenForm
<1>6. CASE fn = "PROGRAM"
  <2>1. x = "STATEMENT" /\ Remaining(fn, kw, at) = {Then("statements", e)}
    BY <1>1, <1>6, RemainingCases DEF Fits
  <2>2. Then("statements", e) \in Productions(fn)
    BY <1>3, <1>4, <1>6, RuleList
  <2>3. Then("statements", e) \in Read(Productions(fn), "STATEMENT", NODE)
    BY <2>2, StatementsRead
  <2>. QED  BY <2>1, <2>3
<1>7. CASE fn = "STATEMENT"
  <2>1. at = 1 /\ x = kw
    BY <1>7, StatementPlaces DEF Begins
  <2>2. Remaining(fn, kw, at) = AfterKeyword(kw, e)
    BY <1>1, <1>7, <2>1, RemainingStatement
  <2>3. \A f \in AfterKeyword(kw, e) : f \in Seq(SYMBOL) /\ Then(kw, f) \in Productions(fn)
    BY <1>2, <1>7, KeywordForms, StatementForms
  <2>. QED  BY <1>3, <1>7, <2>1, <2>2, <2>3, AtomRead
<1>8. CASE fn = "COMPARISON"
  <2>1. at = 1 /\ x = "EXPRESSION" /\ Remaining(fn, kw, at) = {Then("operator", Then("EXPRESSION", e))}
    BY <1>1, <1>8, RemainingCases DEF Fits, Begins
  <2>2. Then("EXPRESSION", Then("operator", Then("EXPRESSION", e))) \in Productions(fn)
    <3>1. <<"EXPRESSION", "operator", "EXPRESSION">> = Then("EXPRESSION", Then("operator", Then("EXPRESSION", e)))
      <4>1. "EXPRESSION" \in SYMBOL /\ "operator" \in SYMBOL
        BY <1>3
      <4>2. \A y, z, w \in SYMBOL : <<y, z, w>> = Then(y, Then(z, Then(w, e)))
        <5>1. \A y, z, w \in SYMBOL : /\ <<y>> = Then(y, e)
                                       /\ <<y, z>> = Then(y, Then(z, e))
                                       /\ <<y, z, w>> = Then(y, Then(z, Then(w, e)))
          BY <1>2, ShortForms, ZenonT(40)
        <5>. QED  BY <5>1, Zenon
      <4>. QED  BY <4>1, <4>2, Zenon
    <3>. QED  BY <1>8, <3>1, RuleList, Zenon
  <2>3. Then("operator", Then("EXPRESSION", e)) \in Seq(SYMBOL)
    BY <1>3, <1>5
  <2>. QED  BY <1>3, <2>1, <2>2, <2>3, AtomRead
<1>9. CASE fn = "EXPRESSION"
  <2>1. at = 1 /\ x = "TERM" /\ Remaining(fn, kw, at) = {Then("terms", e)}
    BY <1>1, <1>9, RemainingCases DEF Fits, Begins
  <2>2. Then("TERM", Then("terms", e)) \in Productions(fn) /\ Then("terms", e) \in Seq(SYMBOL)
    BY <1>3, <1>4, <1>5, <1>9, RuleList
  <2>. QED  BY <1>3, <2>1, <2>2, AtomRead
<1>10. CASE fn = "TERM"
  <2>1. at = 1 /\ x = "UNARY" /\ Remaining(fn, kw, at) = {Then("unaries", e)}
    BY <1>1, <1>10, RemainingCases DEF Fits, Begins
  <2>2. Then("UNARY", Then("unaries", e)) \in Productions(fn) /\ Then("unaries", e) \in Seq(SYMBOL)
    BY <1>3, <1>4, <1>5, <1>10, RuleList
  <2>. QED  BY <1>3, <2>1, <2>2, AtomRead
<1>11. CASE fn = "UNARY" /\ at = 1
  <2>1. x \in {"PLUS", "MINUS"} /\ Remaining(fn, kw, at) = {Then("PRIMARY", e)}
    BY <1>1, <1>11, RemainingCases DEF Fits, SIGNS
  <2>2. Then(x, Then("PRIMARY", e)) \in Productions(fn) /\ Then("PRIMARY", e) \in Seq(SYMBOL)
    BY <1>3, <1>4, <1>5, <1>11, <2>1, RuleList
  <2>. QED  BY <1>3, <2>1, <2>2, AtomRead
<1>12. CASE fn = "UNARY" /\ at = 2
  <2>1. x = "PRIMARY" /\ Remaining(fn, kw, at) = {e}
    BY <1>1, <1>12, RemainingCases DEF Fits
  <2>2. Then("PRIMARY", e) \in Productions(fn)
    BY <1>3, <1>4, <1>12, RuleList
  <2>. QED  BY <1>3, <2>1, <2>2, AtomRead
<1>13. CASE fn = "PRIMARY"
  <2>1. x \in {"NUMBER", "IDENT"} /\ Remaining(fn, kw, at) = {e}
    BY <1>1, <1>13, RemainingCases DEF Fits, Begins
  <2>2. Then(x, e) \in Productions(fn)
    BY <1>3, <1>4, <1>13, <2>1, RuleList
  <2>. QED  BY <1>3, <2>1, <2>2, AtomRead
<1>. QED  BY <1>6, <1>7, <1>8, <1>9, <1>10, <1>11, <1>12, <1>13 DEF GRAMMAR_TYPE, Begins

\* The next child goes on with what was left after the one before it.
LEMMA RuleGoesOn ==
  ASSUME NEW fn \in GRAMMAR_TYPE, NEW kw, NEW i, NEW j, NEW y, NEW x, NEW F,
         fn = "STATEMENT" => kw \in STATEMENT_START_KEYWORDS,
         Fits(fn, kw, i, y), Follows(fn, kw, i, j), Fits(fn, kw, j, x),
         Remaining(fn, kw, i) \subseteq F
  PROVE  Remaining(fn, kw, j) \subseteq Read(F, x, NODE)
<1>1. PICK e \in Seq(SYMBOL) : e = <<>>
  <2>1. <<>> \in Seq(SYMBOL)
    OBVIOUS
  <2>. QED  BY <2>1
<1>3. /\ {"statements", "operator", "terms", "unaries", "EXPRESSION", "TERM", "UNARY", "PRIMARY",
          "THEN", "REPEAT", "ENDIF", "ENDWHILE", "IDENT", "EQ", "STRING", "COMPARISON"} \subseteq SYMBOL
      /\ {"EXPRESSION", "TERM", "UNARY", "PRIMARY", "THEN", "REPEAT", "ENDIF", "ENDWHILE", "IDENT",
          "EQ", "STRING", "COMPARISON", "STATEMENT"} \subseteq NODE
  BY DEF SYMBOL, NODE, TOKEN, GRAMMAR_TYPE, CONTROL_FLOW_TOKENS
<1>5. \A z \in SYMBOL : \A s \in Seq(SYMBOL) : Then(z, s) \in Seq(SYMBOL)
  BY ThenForm
<1>6. CASE fn = "PROGRAM"
  <2>1. /\ x = "STATEMENT" /\ Remaining(fn, kw, j) = {Then("statements", e)}
        /\ Remaining(fn, kw, i) = {Then("statements", e)}
    <3>1. \A at : Remaining("PROGRAM", kw, at) = {Then("statements", e)}
      BY <1>1, RemainingCases
    <3>. QED  BY <1>6, <3>1 DEF Fits
  <2>2. Then("statements", e) \in F
    BY <2>1
  <2>3. Then("statements", e) \in Read(F, "STATEMENT", NODE)
    BY <2>2, StatementsRead
  <2>. QED  BY <2>1, <2>3
<1>7. CASE fn = "STATEMENT" /\ kw \in {"PRINT", "LABEL", "GOTO", "INPUT"}
  <2>1. i = 1 /\ j = 2
    <3>1. i \in {1, 2} /\ j \in {1, 2} /\ j = i + 1
      BY <1>7, StatementPlaces DEF Follows
    <3>. QED  BY <3>1
  <2>2. Remaining(fn, kw, j) = {e} /\ Remaining(fn, kw, i) = AfterKeyword(kw, e)
    BY <1>1, <1>7, <2>1, RemainingStatement
  <2>3. /\ kw = "PRINT" => /\ x \in {"STRING", "EXPRESSION"}
                           /\ AfterKeyword(kw, e) = {Then("EXPRESSION", e), Then("STRING", e)}
        /\ kw # "PRINT" => x = "IDENT" /\ AfterKeyword(kw, e) = {Then("IDENT", e)}
    BY <1>7, <2>1, StatementPlaces DEF AfterKeyword
  <2>4. x \in NODE /\ Then(x, e) \in F
    BY <1>3, <2>2, <2>3
  <2>. QED  BY <2>2, <2>4, AtomRead
<1>8. CASE fn = "STATEMENT" /\ kw = "LET"
  <2>1. \/ i = 1 /\ j = 2 /\ x = "IDENT"
        \/ i = 2 /\ j = 3 /\ x = "EQ"
        \/ i = 3 /\ j = 4 /\ x = "EXPRESSION"
    <3>1. /\ i \in {1, 2, 3, 4} /\ j = i + 1
          /\ \/ j = 1
             \/ j = 2 /\ x = "IDENT"
             \/ j = 3 /\ x = "EQ"
             \/ j = 4 /\ x = "EXPRESSION"
      <4>1. i \in {1, 2, 3, 4}
        BY <1>8, StatementPlaces
      <4>2. j = i + 1
        BY <1>8 DEF Follows
      <4>3. \/ j = 1
            \/ j = 2 /\ x = "IDENT"
            \/ j = 3 /\ x = "EQ"
            \/ j = 4 /\ x = "EXPRESSION"
        BY <1>8, StatementPlaces
      <4>. QED  BY <4>1, <4>2, <4>3
    <3>. QED  BY <3>1
  <2>2. /\ Remaining(fn, kw, 1) = {Then("IDENT", Then("EQ", Then("EXPRESSION", e)))}
        /\ Remaining(fn, kw, 2) = {Then("EQ", Then("EXPRESSION", e))}
        /\ Remaining(fn, kw, 3) = {Then("EXPRESSION", e)}
        /\ Remaining(fn, kw, 4) = {e}
    BY <1>1, <1>8, RemainingStatement DEF AfterKeyword
  <2>3. Then("EXPRESSION", e) \in Seq(SYMBOL) /\ Then("EQ", Then("EXPRESSION", e)) \in Seq(SYMBOL)
    BY <1>3, <1>5
  <2>. QED  BY <1>3, <2>1, <2>2, <2>3, AtomRead
<1>9. CASE fn = "STATEMENT" /\ kw \in {"IF", "WHILE"}
  <2>1. PICK sep, end : /\ kw = "IF" => sep = "THEN" /\ end = "ENDIF"
                        /\ kw = "WHILE" => sep = "REPEAT" /\ end = "ENDWHILE"
    OBVIOUS
  <2>2. sep \in NODE /\ sep \in SYMBOL /\ end \in NODE /\ end \in SYMBOL
    BY <1>3, <1>9, <2>1
  <2>3. PICK last, body : last = Then(end, e) /\ body = Then("statements", last)
    OBVIOUS
  <2>4. last \in Seq(SYMBOL) /\ body \in Seq(SYMBOL) /\ Then(sep, body) \in Seq(SYMBOL)
    BY <1>3, <1>5, <2>2, <2>3
  <2>5. /\ Remaining(fn, kw, 1) = {Then("COMPARISON", Then(sep, body))}
        /\ Remaining(fn, kw, 2) = {Then(sep, body)}
        /\ Remaining(fn, kw, 3) = {body}
        /\ Remaining(fn, kw, 4) = {body}
        /\ Remaining(fn, kw, 5) = {e}
    BY <1>1, <1>9, <2>1, <2>3, RemainingStatement DEF AfterKeyword
  <2>6. \/ i = 1 /\ j = 2 /\ x = "COMPARISON"
        \/ i = 2 /\ j = 3 /\ x = sep
        \/ i \in {3, 4} /\ j = 4 /\ x = "STATEMENT"
        \/ i \in {3, 4} /\ j = 5 /\ x = end
    <3>1. /\ i \in {1, 2, 3, 4, 5}
          /\ j = i + 1 \/ (i = 3 /\ j = 5) \/ (i = 4 /\ j = 4)
          /\ \/ j = 1
             \/ j = 2 /\ x = "COMPARISON"
             \/ j = 3 /\ x = sep
             \/ j = 4 /\ x = "STATEMENT"
             \/ j = 5 /\ x = end
      <4>1. i \in {1, 2, 3, 4, 5}
        BY <1>9, StatementPlaces
      <4>2. j = i + 1 \/ (i = 3 /\ j = 5) \/ (i = 4 /\ j = 4)
        BY <1>9 DEF Follows
      <4>3. \/ j = 1
            \/ j = 2 /\ x = "COMPARISON"
            \/ j = 3 /\ x = sep
            \/ j = 4 /\ x = "STATEMENT"
            \/ j = 5 /\ x = end
        BY <1>9, <2>1, StatementPlaces
      <4>. QED  BY <4>1, <4>2, <4>3
    <3>. QED  BY <3>1
  <2>7. CASE i \in {3, 4}
    <3>1. body \in F
      BY <2>5, <2>7
    <3>2. body \in Read(F, "STATEMENT", NODE)
      BY <2>3, <2>4, <3>1, StatementsRead
    <3>3. e \in Read(F, end, NODE)
      BY <2>2, <2>3, <2>4, <3>1, StatementsRead
    <3>. QED  BY <2>5, <2>6, <2>7, <3>2, <3>3
  <2>8. CASE i \notin {3, 4}
    BY <1>3, <2>2, <2>4, <2>5, <2>6, <2>8, AtomRead
  <2>. QED  BY <2>7, <2>8
<1>10. CASE fn = "COMPARISON"
  <2>1. PICK last : last = Then("EXPRESSION", e)
    OBVIOUS
  <2>2. last \in Seq(SYMBOL)
    BY <1>3, <1>5, <2>1
  <2>3. \/ i = 1 /\ j = 2 /\ x \in COMPARISON_OPS
        \/ i = 2 /\ j = 3 /\ x = "EXPRESSION"
    BY <1>10 DEF Fits, Follows
  <2>4. /\ Remaining(fn, kw, 1) = {Then("operator", last)}
        /\ Remaining(fn, kw, 2) = {last}
        /\ Remaining(fn, kw, 3) = {e}
    BY <1>1, <1>10, <2>1, RemainingCases
  <2>5. CASE i = 1
    <3>1. Then("operator", last) \in F
      BY <2>4, <2>5
    <3>2. x \in COMPARISON_OPS /\ j = 2
      BY <2>3, <2>5
    <3>. QED  BY <2>2, <2>4, <3>1, <3>2, OperatorRead
  <2>6. CASE i = 2
    BY <1>3, <2>1, <2>3, <2>4, <2>6, AtomRead
  <2>. QED  BY <2>3, <2>5, <2>6
<1>11. CASE fn \in {"EXPRESSION", "TERM"}
  <2>1. PICK part, rule : /\ fn = "EXPRESSION" => part = "TERM" /\ rule = "terms"
                          /\ fn = "TERM" => part = "UNARY" /\ rule = "unaries"
    OBVIOUS
  <2>2. rule \in {"terms", "unaries"} /\ rule \in SYMBOL /\ part \in NODE
    BY <1>3, <1>11, <2>1
  <2>3. PICK rest : rest = Then(rule, e)
    OBVIOUS
  <2>4. rest \in Seq(SYMBOL)
    BY <1>5, <2>2, <2>3
  <2>5. \/ i = 2 /\ j = 1 /\ x = part
        \/ /\ i = 1 /\ j = 2
           /\ fn = "EXPRESSION" => x \in SIGNS
           /\ fn = "TERM" => x \in {"DIV", "MULT"}
    <3>1. i \in {1, 2} /\ j = 3 - i
      BY <1>11 DEF Fits, Follows
    <3>. QED  BY <1>11, <2>1, <3>1 DEF Fits
  <2>6. Remaining(fn, kw, 1) = {rest} /\ Remaining(fn, kw, 2) = {Then(part, rest)}
    BY <1>1, <1>11, <2>1, <2>3, RemainingCases
  <2>7. CASE i = 1
    <3>1. Then(rule, e) \in F /\ j = 2
      BY <2>3, <2>5, <2>6, <2>7
    <3>2. \/ rule = "terms" /\ part = "TERM" /\ x \in SIGNS
          \/ rule = "unaries" /\ part = "UNARY" /\ x \in {"DIV", "MULT"}
      BY <1>11, <2>1, <2>5, <2>7
    <3>3. Then(part, Then(rule, e)) \in Read(F, x, NODE)
      BY <1>1, <2>2, <3>1, <3>2, ChainRead
    <3>. QED  BY <2>3, <2>6, <3>1, <3>3
  <2>8. CASE i = 2
    BY <2>2, <2>4, <2>5, <2>6, <2>8, AtomRead
  <2>. QED  BY <2>5, <2>7, <2>8
<1>12. CASE fn = "UNARY"
  <2>1. i = 1 /\ j = 2 /\ x = "PRIMARY"
    BY <1>12 DEF Fits, Follows
  <2>2. Remaining(fn, kw, 1) = {Then("PRIMARY", e)} /\ Remaining(fn, kw, 2) = {e}
    BY <1>1, <1>12, RemainingCases
  <2>. QED  BY <1>3, <2>1, <2>2, AtomRead
<1>13. CASE fn = "PRIMARY"
  BY <1>13 DEF Follows
<1>. QED  BY <1>6, <1>7, <1>8, <1>9, <1>10, <1>11, <1>12, <1>13 DEF GRAMMAR_TYPE, STATEMENT_START_KEYWORDS

\* After the last child of a node a production may end.
LEMMA RuleEnds ==
  ASSUME NEW fn \in GRAMMAR_TYPE, NEW kw, NEW i, NEW y, NEW F,
         fn = "STATEMENT" => kw \in STATEMENT_START_KEYWORDS,
         Fits(fn, kw, i, y), fn = "PROGRAM" \/ Ends(fn, kw, i),
         Remaining(fn, kw, i) \subseteq F
  PROVE  MayEnd(F, NODE)
<1>1. PICK e \in Seq(SYMBOL) : e = <<>>
  <2>1. <<>> \in Seq(SYMBOL)
    OBVIOUS
  <2>. QED  BY <2>1
<1>2. \A f \in F : May(f, NODE) => MayEnd(F, NODE)
  <2>1. MayEnd(F, NODE) <=> \E f \in F : May(f, NODE)
    BY ReadOf
  <2>. QED  BY <2>1
<1>3. /\ May(e, NODE) /\ May(Then("statements", e), NODE)
      /\ May(Then("terms", e), NODE) /\ May(Then("unaries", e), NODE)
  BY <1>1, RestNone, NodeAtoms, MayStop
<1>4. CASE fn = "PROGRAM"
  <2>1. \A at : Remaining("PROGRAM", kw, at) = {Then("statements", e)}
    BY <1>1, RemainingCases
  <2>. QED  BY <1>2, <1>3, <1>4, <2>1
<1>5. CASE fn = "STATEMENT"
  <2>1. Remaining(fn, kw, i) = {e}
    <3>1. CASE kw = "PRINT"
      <4>1. i = 2
        BY <1>5, <3>1, FormLengths DEF Ends
      <4>. QED  BY <1>1, <1>5, <3>1, <4>1, RemainingStatement
    <3>2. CASE kw \in {"IF", "WHILE"}
      <4>1. i = 5
        BY <1>5, <3>2, FormLengths DEF Ends
      <4>. QED  BY <1>1, <1>5, <3>2, <4>1, RemainingStatement
    <3>3. CASE kw = "LET"
      <4>1. i = 4
        BY <1>5, <3>3, FormLengths DEF Ends
      <4>. QED  BY <1>1, <1>5, <3>3, <4>1, RemainingStatement
    <3>4. CASE kw \in {"LABEL", "GOTO", "INPUT"}
      <4>1. i = 2
        BY <1>5, <3>4, FormLengths DEF Ends
      <4>. QED  BY <1>1, <1>5, <3>4, <4>1, RemainingStatement
    <3>. QED  BY <1>5, <3>1, <3>2, <3>3, <3>4 DEF STATEMENT_START_KEYWORDS
  <2>. QED  BY <1>2, <1>3, <2>1
<1>6. CASE fn = "COMPARISON"
  <2>1. Remaining(fn, kw, i) = {e}
    BY <1>1, <1>6, RemainingCases DEF Ends
  <2>. QED  BY <1>2, <1>3, <2>1
<1>7. CASE fn = "EXPRESSION"
  <2>1. Remaining(fn, kw, i) = {Then("terms", e)}
    BY <1>1, <1>7, RemainingCases DEF Ends
  <2>. QED  BY <1>2, <1>3, <2>1
<1>8. CASE fn = "TERM"
  <2>1. Remaining(fn, kw, i) = {Then("unaries", e)}
    BY <1>1, <1>8, RemainingCases DEF Ends
  <2>. QED  BY <1>2, <1>3, <2>1
<1>9. CASE fn \in {"UNARY", "PRIMARY"}
  <2>1. Remaining(fn, kw, i) = {e}
    BY <1>1, <1>9, RemainingCases DEF Ends
  <2>. QED  BY <1>2, <1>3, <2>1
<1>. QED  BY <1>4, <1>5, <1>6, <1>7, <1>8, <1>9 DEF GRAMMAR_TYPE

-----------------------------------------------------------------------------
(***************************************************************************)
(* The children of a node spell one of its productions.                    *)
(***************************************************************************)
\* What the wiring says of a child.
ChildOf(q, n, m) ==
  /\ m \in Ids(ast) /\ m # Head_ /\ q[m].up = n
  /\ Fits(ast[n].value, q[n].kw, q[m].at, Symbol(m))

LEMMA WiredChildren ==
  ASSUME IsTree(ast), NEW q, Wired(ast, q, tokens), NEW n \in Ids(ast)
  PROVE  /\ FirstChild(ast, n) # 0 => /\ ChildOf(q, n, FirstChild(ast, n))
                                      /\ Begins(ast[n].value, q[FirstChild(ast, n)].at)
         /\ \A m : ChildOf(q, n, m) /\ ast[m].next_sibling # 0 =>
              /\ ChildOf(q, n, ast[m].next_sibling)
              /\ Follows(ast[n].value, q[n].kw, q[m].at, q[ast[m].next_sibling].at)
         /\ \A m : ChildOf(q, n, m) /\ ast[m].next_sibling = 0 => ast[n].last_child = m
<1>1. /\ Len(ast) \in Nat /\ Ids(ast) = 1 .. Len(ast) /\ NO_NODE = 0 /\ Head_ = 1
      /\ \A m \in 1 .. Len(ast) :
           /\ FirstChild(ast, m) = 0 \/ FirstChild(ast, m) \in m + 1 .. Len(ast)
           /\ NextSibling(ast, m) = 0 \/ NextSibling(ast, m) \in m + 1 .. Len(ast)
           /\ NextSibling(ast, m) = ast[m].next_sibling
           /\ FirstChild(ast, m) # 0 => FirstChild(ast, m) = ast[m].first_child
  BY Links DEF NO_NODE, Head_
<1>2. ASSUME NEW m \in Ids(ast), m # 1, q[m].up = n PROVE ChildOf(q, n, m)
  <2>1. Fits(ast[q[m].up].value, q[q[m].up].kw, q[m].at, SymbolOf(ast, tokens, m))
    BY <1>1, <1>2 DEF Wired
  <2>2. SymbolOf(ast, tokens, m) = Symbol(m)
    BY <1>1, <1>2 DEF SymbolOf, Symbol, IsToken
  <2>3. Fits(ast[n].value, q[n].kw, q[m].at, Symbol(m))
    BY <1>2, <2>1, <2>2
  <2>. QED  BY <1>1, <1>2, <2>3 DEF ChildOf
<1>3. ASSUME FirstChild(ast, n) # 0
      PROVE  ChildOf(q, n, FirstChild(ast, n)) /\ Begins(ast[n].value, q[FirstChild(ast, n)].at)
  <2>1. PICK m : m = FirstChild(ast, n)
    OBVIOUS
  <2>2. m \in Ids(ast) /\ m # 1 /\ m = ast[n].first_child /\ m # 0
    BY <1>1, <1>3, <2>1
  <2>3. q[m].up = n /\ Begins(ast[n].value, q[m].at)
    BY <1>1, <2>2 DEF Wired
  <2>. QED  BY <1>2, <2>1, <2>2, <2>3
<1>4. ASSUME NEW m, ChildOf(q, n, m), ast[m].next_sibling # 0
      PROVE  /\ ChildOf(q, n, ast[m].next_sibling)
             /\ Follows(ast[n].value, q[n].kw, q[m].at, q[ast[m].next_sibling].at)
  <2>1. PICK s : s = ast[m].next_sibling
    OBVIOUS
  <2>2. m \in Ids(ast) /\ q[m].up = n
    BY <1>4 DEF ChildOf
  <2>3. s \in Ids(ast) /\ s # 1 /\ s # 0
    BY <1>1, <1>4, <2>1, <2>2
  <2>4. /\ q[s].up = q[m].up
        /\ Follows(ast[q[m].up].value, q[q[m].up].kw, q[m].at, q[s].at)
    BY <1>1, <2>1, <2>2, <2>3 DEF Wired
  <2>5. q[s].up = n /\ Follows(ast[n].value, q[n].kw, q[m].at, q[s].at)
    BY <2>2, <2>4
  <2>. QED  BY <1>2, <2>1, <2>3, <2>5
<1>5. ASSUME NEW m, ChildOf(q, n, m), ast[m].next_sibling = 0 PROVE ast[n].last_child = m
  <2>1. m \in Ids(ast) /\ q[m].up = n /\ m # 1
    BY <1>1, <1>5 DEF ChildOf
  <2>2. ast[q[m].up].last_child = m
    BY <1>1, <1>5, <2>1 DEF Wired
  <2>. QED  BY <2>1, <2>2
<1>. QED  BY <1>3, <1>4, <1>5

LEMMA NodeSpells ==
  ASSUME IsTree(ast), NEW q, WholeTree(ast, q, tokens), NEW n \in Ids(ast),
         ast[n].type = "GRAMMAR", ast[n].value \in GRAMMAR_TYPE
  PROVE  IsWord(Symbols(n), Productions(ast[n].value), NODE)
<1>1. PICK c, w, fn, kw, fol :
        /\ c = Children(n) /\ w = Symbols(n) /\ fn = ast[n].value /\ kw = q[n].kw
        /\ fol = Follow(w, Productions(fn), NODE)
  OBVIOUS
<1>2. /\ Wired(ast, q, tokens) /\ Len(ast) \in Nat /\ Ids(ast) = 1 .. Len(ast)
      /\ fn = "STATEMENT" => kw \in STATEMENT_START_KEYWORDS
      /\ n # 1 => Complete(ast, q, n)
      /\ n = 1 => fn = "PROGRAM"
      /\ NO_NODE = 0
  <2>1. Wired(ast, q, tokens) /\ n # 1 => Complete(ast, q, n)
    BY DEF WholeTree, Head_
  <2>2. Wired(ast, q, tokens)
    BY DEF WholeTree
  <2>3. fn = "STATEMENT" => IsStatement(ast, n)
    BY <1>1 DEF IsStatement, Ids
  <2>4. fn = "STATEMENT" => kw \in STATEMENT_START_KEYWORDS
    BY <1>1, <2>2, <2>3 DEF Wired
  <2>5. n = 1 => fn = "PROGRAM"
    BY <1>1, <2>2 DEF Wired, Head_
  <2>6. Len(ast) \in Nat /\ Ids(ast) = 1 .. Len(ast)
    BY Links
  <2>. QED  BY <2>1, <2>2, <2>4, <2>5, <2>6 DEF NO_NODE
<1>3. IF FirstChild(ast, n) = 0 THEN c = <<>> ELSE Chain(c, ast, FirstChild(ast, n))
  BY <1>1, ChildrenChain
<1>4. Len(c) \in Nat
  BY <1>3 DEF Chain
<1>5. Len(w) = Len(c) /\ \A k \in 1 .. Len(c) : w[k] = Symbol(c[k])
  <2>1. w = [k \in 1 .. Len(c) |-> Symbol(c[k])]
    BY <1>1 DEF Symbols
  <2>. QED  BY <1>4, <2>1
<1>6. fol[0] = Productions(fn) /\ \A k \in 1 .. Len(c) : fol[k] = Read(fol[k - 1], w[k], NODE)
  <2>1. Len(w) \in Nat
    BY <1>4, <1>5
  <2>2. /\ fol[0] = Productions(fn)
        /\ \A k \in 1 .. Len(w) : fol[k] = Read(fol[k - 1], w[k], NODE)
    BY <1>1, <2>1, FollowSteps
  <2>. QED  BY <1>5, <2>2
<1>7. MayEnd(fol[Len(c)], NODE)
  <2>1. CASE FirstChild(ast, n) = 0
    <3>1. ast[n].last_child = 0
      <4>1. IsGrammar(ast, n)
        BY <1>2 DEF IsGrammar
      <4>. QED  BY <1>2, <2>1, <4>1, Links
    <3>2. fn = "PROGRAM"
      BY <1>2, <3>1 DEF Complete
    <3>3. Len(c) = 0
      BY <1>3, <2>1
    <3>. QED  BY <1>6, <3>2, <3>3, NoStatements
  <2>2. CASE FirstChild(ast, n) # 0
    <3>1. PICK first : first = FirstChild(ast, n)
      OBVIOUS
    <3>2. /\ c \in Seq(Ids(ast)) /\ Len(c) > 0 /\ c[1] = first
          /\ \A k \in 1 .. Len(c) - 1 : c[k + 1] = ast[c[k]].next_sibling
          /\ ast[c[Len(c)]].next_sibling = 0
      BY <1>3, <2>2, <3>1 DEF Chain
    <3>3. ChildOf(q, n, first) /\ Begins(fn, q[first].at)
      BY <1>1, <1>2, <2>2, <3>1, WiredChildren
    <3>. DEFINE P(k) == ChildOf(q, n, c[k]) /\ Remaining(fn, kw, q[c[k]].at) \subseteq fol[k]
                T == {k \in Nat : k \in 1 .. Len(c) /\ ~ P(k)}
    <3>4. P(1)
      <4>1. Fits(fn, kw, q[first].at, Symbol(first))
        BY <1>1, <3>3 DEF ChildOf
      <4>2. Remaining(fn, kw, q[first].at) \subseteq Read(Productions(fn), Symbol(first), NODE)
        BY <1>1, <1>2, <3>3, <4>1, RuleBegins
      <4>3. fol[1] = Read(fol[0], w[1], NODE) /\ w[1] = Symbol(first)
        BY <1>4, <1>5, <1>6, <3>2
      <4>. QED  BY <1>6, <3>2, <3>3, <4>2, <4>3
    <3>5. ASSUME NEW k \in 1 .. Len(c) - 1, P(k) PROVE P(k + 1)
      <4>1. PICK m, s : m = c[k] /\ s = c[k + 1]
        OBVIOUS
      <4>2. s = ast[m].next_sibling /\ s # 0 /\ ChildOf(q, n, m)
        <5>1. k + 1 \in 1 .. Len(c)
          BY <1>4
        <5>2. s \in Ids(ast)
          BY <3>2, <4>1, <5>1
        <5>3. s # 0
          BY <1>2, <5>2
        <5>4. s = ast[m].next_sibling
          BY <3>2, <4>1
        <5>5. ChildOf(q, n, m)
          BY <3>5, <4>1
        <5>. QED  BY <5>3, <5>4, <5>5
      <4>3. ChildOf(q, n, s) /\ Follows(fn, kw, q[m].at, q[s].at)
        BY <1>1, <1>2, <4>2, WiredChildren
      <4>4. Fits(fn, kw, q[m].at, Symbol(m)) /\ Fits(fn, kw, q[s].at, Symbol(s))
        BY <1>1, <4>2, <4>3 DEF ChildOf
      <4>5. Remaining(fn, kw, q[m].at) \subseteq fol[k]
        BY <3>5, <4>1
      <4>6. Remaining(fn, kw, q[s].at) \subseteq Read(fol[k], Symbol(s), NODE)
        BY <1>1, <1>2, <4>3, <4>4, <4>5, RuleGoesOn
      <4>7. fol[k + 1] = Read(fol[k], w[k + 1], NODE) /\ w[k + 1] = Symbol(s)
        <5>1. k + 1 \in 1 .. Len(c) /\ k + 1 - 1 = k
          BY <1>4
        <5>. QED  BY <1>5, <1>6, <4>1, <5>1
      <4>. QED  BY <4>1, <4>3, <4>6, <4>7
    <3>6. P(Len(c))
      <4>. HIDE DEF P
      <4>1. T = {}
        <5>. SUFFICES ASSUME T # {} PROVE FALSE
          OBVIOUS
        <5>1. PICK k \in T : \A y \in T : k <= y
          <6>. HIDE DEF T
          <6>1. T \subseteq Nat
            BY DEF T
          <6>. QED  BY <6>1, Least
        <5>2. k \in 1 .. Len(c) /\ k # 1 /\ ~ P(k)
          BY <3>4, <5>1
        <5>3. k - 1 \in Nat /\ k - 1 \in 1 .. Len(c) - 1 /\ k - 1 \notin T /\ k - 1 + 1 = k
          BY <1>4, <5>1, <5>2
        <5>4. P(k - 1)
          BY <1>4, <5>3
        <5>5. P(k - 1 + 1)
          BY <3>5, <5>3, <5>4
        <5>. QED  BY <5>2, <5>3, <5>5
      <4>2. Len(c) \in Nat /\ Len(c) \in 1 .. Len(c)
        BY <1>4, <3>2
      <4>. QED  BY <4>1, <4>2
    <3>7. PICK m : m = c[Len(c)]
      OBVIOUS
    <3>8. ChildOf(q, n, m) /\ Remaining(fn, kw, q[m].at) \subseteq fol[Len(c)] /\ ast[m].next_sibling = 0
      BY <3>2, <3>6, <3>7
    <3>9. ast[n].last_child = m
      BY <1>2, <3>8, WiredChildren
    <3>10. fn = "PROGRAM" \/ Ends(fn, kw, q[m].at)
      BY <1>1, <1>2, <3>9 DEF Complete
    <3>11. Fits(fn, kw, q[m].at, Symbol(m))
      BY <1>1, <3>8 DEF ChildOf
    <3>. QED  BY <1>1, <1>2, <3>8, <3>10, <3>11, RuleEnds
  <2>. QED  BY <2>1, <2>2
<1>. QED  BY <1>1, <1>5, <1>7 DEF IsWord

-----------------------------------------------------------------------------
(***************************************************************************)
(* The leaves of the tree are the input.                                   *)
(***************************************************************************)
RightEnd(a, q, m) == q[a[q[m].up].last_child].to

\* The pieces of a node, of its children and of its sibling.
LEMMA Spans ==
  ASSUME NEW a, IsTree(a), NEW q, NEW tk, WholeTree(a, q, tk), NEW m \in Ids(a), m # 1,
         a[m].type \in {"TOKEN", "GRAMMAR"}
  PROVE  /\ q[m].from \in Nat /\ q[m].to \in Nat
         /\ IsToken(a, m) => q[m].from = a[m].value /\ q[m].to = a[m].value
         /\ ~ IsToken(a, m) =>
              /\ FirstChild(a, m) \in m + 1 .. Len(a)
              /\ q[FirstChild(a, m)].from = q[m].from
              /\ RightEnd(a, q, FirstChild(a, m)) = q[m].to
         /\ a[m].next_sibling = 0 => RightEnd(a, q, m) = q[m].to
         /\ a[m].next_sibling # 0 =>
              /\ a[m].next_sibling \in m + 1 .. Len(a)
              /\ q[a[m].next_sibling].from = q[m].to + 1
              /\ RightEnd(a, q, a[m].next_sibling) = RightEnd(a, q, m)
<1>1. /\ Len(a) \in Nat /\ Ids(a) = 1 .. Len(a) /\ NO_NODE = 0 /\ Head_ = 1
      /\ FirstChild(a, m) = 0 \/ FirstChild(a, m) \in m + 1 .. Len(a)
      /\ a[m].next_sibling = 0 \/ a[m].next_sibling \in m + 1 .. Len(a)
      /\ FirstChild(a, m) = 0 <=> (~ IsGrammar(a, m) \/ a[m].last_child = 0)
      /\ IsGrammar(a, m) => FirstChild(a, m) = a[m].first_child
  BY Links DEF NO_NODE, Head_
<1>2. Wired(a, q, tk) /\ (a[m].type = "GRAMMAR" => Complete(a, q, m))
  BY <1>1 DEF WholeTree
<1>3. PICK p : p = q[m].up
  OBVIOUS
<1>4. p \in Ids(a) /\ p < m
  BY <1>1, <1>2, <1>3 DEF Wired, IsGrammar
<1>5. PICK s : s = a[m].next_sibling
  OBVIOUS
<1>6. s = 0 => a[p].last_child = m
  BY <1>1, <1>2, <1>3, <1>5 DEF Wired
<1>7. s # 0 => q[s].up = p /\ q[s].from = q[m].to + 1
  BY <1>1, <1>2, <1>3, <1>5 DEF Wired
<1>8. q[m].from \in Nat /\ q[m].to \in Nat
  BY <1>2 DEF Wired, Facts
<1>9. RightEnd(a, q, m) = q[a[p].last_child].to
  BY <1>3 DEF RightEnd
<1>10. s = 0 => RightEnd(a, q, m) = q[m].to
  BY <1>6, <1>9
<1>11. s # 0 => RightEnd(a, q, s) = RightEnd(a, q, m)
  BY <1>7, <1>9 DEF RightEnd
<1>13. IsToken(a, m) => q[m].from = a[m].value /\ q[m].to = a[m].value
  BY <1>2 DEF Wired, IsToken
<1>14. ASSUME ~ IsToken(a, m)
       PROVE  /\ FirstChild(a, m) \in m + 1 .. Len(a)
              /\ q[FirstChild(a, m)].from = q[m].from
              /\ RightEnd(a, q, FirstChild(a, m)) = q[m].to
  <2>1. a[m].type = "GRAMMAR" /\ IsGrammar(a, m)
    BY <1>1, <1>14 DEF IsToken, IsGrammar
  <2>2. PICK f, l : f = FirstChild(a, m) /\ l = a[m].last_child
    OBVIOUS
  <2>3. l # 0 /\ q[m].to = q[l].to
    BY <1>1, <1>2, <2>1, <2>2 DEF Complete
  <2>4. f = a[m].first_child /\ f # 0 /\ f \in m + 1 .. Len(a)
    BY <1>1, <2>1, <2>2, <2>3
  <2>5. q[f].up = m /\ q[f].from = q[m].from
    BY <1>1, <1>2, <2>4 DEF Wired
  <2>6. RightEnd(a, q, f) = q[l].to
    BY <2>2, <2>5 DEF RightEnd
  <2>. QED  BY <2>2, <2>3, <2>4, <2>5, <2>6
<1>. QED  BY <1>1, <1>5, <1>7, <1>8, <1>10, <1>11, <1>13, <1>14

\* What the nodes from m to its last sibling stand for.
Spanned(g, a, q, m) ==
  /\ RightEnd(a, q, m) \in Nat /\ q[m].from <= q[m].to /\ q[m].to <= RightEnd(a, q, m)
  /\ g[m] = Piece(q[m].from, RightEnd(a, q, m))

LEMMA SpannedStep ==
  ASSUME NEW a, IsTree(a), NEW q, NEW tk, WholeTree(a, q, tk), NEW m \in Ids(a), m # 1,
         a[m].type \in {"TOKEN", "GRAMMAR"}, NEW g, Walker(g, a),
         \A n \in m + 1 .. Len(a) : Spanned(g, a, q, n)
  PROVE  Spanned(g, a, q, m)
<1>1. PICK i, j, k, s, f : /\ i = q[m].from /\ j = q[m].to /\ k = RightEnd(a, q, m)
                           /\ s = a[m].next_sibling /\ f = FirstChild(a, m)
  OBVIOUS
<1>2. /\ i \in Nat /\ j \in Nat
      /\ IsToken(a, m) => i = a[m].value /\ j = a[m].value
      /\ ~ IsToken(a, m) => /\ f \in m + 1 .. Len(a)
                            /\ q[f].from = i /\ RightEnd(a, q, f) = j
      /\ s = 0 => k = j
      /\ s # 0 => s \in m + 1 .. Len(a) /\ q[s].from = j + 1 /\ RightEnd(a, q, s) = k
  BY <1>1, Spans
<1>3. /\ g[0] = <<>>
      /\ g[m] = (IF IsToken(a, m) THEN <<a[m].value>> ELSE g[f]) \o g[s]
  <2>1. \A n \in 0 .. Len(a) : g[n] =
          IF n = NO_NODE THEN <<>>
          ELSE (IF IsToken(a, n) THEN <<a[n].value>> ELSE g[FirstChild(a, n)]) \o g[NextSibling(a, n)]
    BY Zenon DEF Walker
  <2>2. 0 \in 0 .. Len(a) /\ m \in 0 .. Len(a) /\ m # 0 /\ NextSibling(a, m) = s
    BY <1>1, Links
  <2>3. g[0] = <<>>
    BY <2>1, <2>2 DEF NO_NODE
  <2>4. g[m] = (IF IsToken(a, m) THEN <<a[m].value>> ELSE g[FirstChild(a, m)]) \o g[NextSibling(a, m)]
    BY <2>1, <2>2 DEF NO_NODE
  <2>. QED  BY <1>1, <2>2, <2>3, <2>4
<1>4. PICK below : below = IF IsToken(a, m) THEN <<a[m].value>> ELSE g[f]
  OBVIOUS
<1>5. i <= j /\ below = Piece(i, j)
  <2>1. CASE IsToken(a, m)
    <3>1. i = j /\ below = <<i>>
      BY <1>2, <1>4, <2>1
    <3>2. Piece(i, j) = <<i>>
      <4>1. Piece(i, j) = [p \in 1 .. 1 |-> i + p - 1]
        BY <1>2, <3>1 DEF Piece
      <4>2. PICK h : h = Piece(i, j)
        OBVIOUS
      <4>3. h \in Seq(Nat) /\ Len(h) = 1 /\ h[1] = i
        BY <1>2, <4>1, <4>2
      <4>4. h = <<i>>
        BY <4>3
      <4>. QED  BY <4>2, <4>4
    <3>. QED  BY <1>2, <3>1, <3>2
  <2>2. CASE ~ IsToken(a, m)
    <3>1. Spanned(g, a, q, f)
      BY <1>2, <2>2
    <3>2. q[f].from <= q[f].to /\ q[f].to <= j /\ g[f] = Piece(i, j)
      BY <1>2, <2>2, <3>1 DEF Spanned
    <3>3. q[f].to \in Nat
      BY <1>2, <2>2 DEF WholeTree, Wired, Facts, Ids
    <3>4. i <= j
      BY <1>2, <2>2, <3>2, <3>3
    <3>. QED  BY <1>4, <2>2, <3>2, <3>4
  <2>. QED  BY <2>1, <2>2
<1>6. CASE s = 0
  <2>1. k = j /\ g[s] = <<>>
    BY <1>2, <1>3, <1>6
  <2>2. PICK h : h = Piece(i, j)
    OBVIOUS
  <2>3. h \in Seq(Nat)
    BY <1>2, <2>2 DEF Piece
  <2>4. h \o <<>> = h
    BY <2>3
  <2>5. g[m] = h
    BY <1>3, <1>4, <1>5, <2>1, <2>2, <2>4
  <2>. QED  BY <1>1, <1>2, <1>5, <2>1, <2>2, <2>5 DEF Spanned
<1>7. CASE s # 0
  <2>1. Spanned(g, a, q, s)
    BY <1>2, <1>7
  <2>2. k \in Nat /\ j + 1 <= q[s].to /\ q[s].to <= k /\ g[s] = Piece(j + 1, k)
    BY <1>2, <1>7, <2>1 DEF Spanned
  <2>3. q[s].to \in Nat
    BY <1>2, <1>7 DEF WholeTree, Wired, Facts, Ids
  <2>4. j <= k
    BY <1>2, <2>2, <2>3
  <2>5. g[m] = Piece(i, j) \o Piece(j + 1, k)
    BY <1>3, <1>4, <1>5, <2>2
  <2>6. g[m] = Piece(i, k)
    BY <1>2, <1>5, <2>2, <2>4, <2>5, PieceJoin
  <2>. QED  BY <1>1, <1>5, <2>2, <2>4, <2>6 DEF Spanned
<1>. QED  BY <1>6, <1>7

LEMMA AllSpanned ==
  ASSUME NEW a, IsTree(a), NEW q, NEW tk, WholeTree(a, q, tk),
         \A m \in Ids(a) : a[m].type \in {"TOKEN", "GRAMMAR"}, NEW g, Walker(g, a)
  PROVE  \A m \in 2 .. Len(a) : Spanned(g, a, q, m)
<1>1. PICK N : N = Len(a)
  OBVIOUS
<1>2. N \in Nat /\ Ids(a) = 1 .. N
  BY <1>1, Links
<1>. DEFINE T == {j \in Nat : N - j \in 2 .. N /\ ~ Spanned(g, a, q, N - j)}
<1>3. T = {}
  <2>. SUFFICES ASSUME T # {} PROVE FALSE
    OBVIOUS
  <2>1. PICK j \in T : \A y \in T : j <= y
    <3>. HIDE DEF T
    <3>1. T \subseteq Nat
      BY DEF T
    <3>. QED  BY <3>1, Least
  <2>2. PICK m : m = N - j
    OBVIOUS
  <2>3. j \in Nat /\ m \in 2 .. N /\ ~ Spanned(g, a, q, m)
    BY <2>1, <2>2
  <2>4. ASSUME NEW n \in m + 1 .. N PROVE Spanned(g, a, q, n)
    <3>1. PICK i : i = N - n
      OBVIOUS
    <3>2. i \in Nat /\ i < j /\ N - i = n /\ n \in 2 .. N
      BY <1>2, <2>2, <2>3, <3>1
    <3>3. i \notin T
      <4>. HIDE DEF T
      <4>. QED  BY <2>1, <2>3, <3>2
    <3>. QED  BY <3>2, <3>3
  <2>5. m \in Ids(a) /\ m # 1
    BY <1>2, <2>3
  <2>6. Spanned(g, a, q, m)
    BY <1>1, <2>4, <2>5, SpannedStep
  <2>. QED  BY <2>3, <2>6
<1>4. ASSUME NEW m \in 2 .. N PROVE Spanned(g, a, q, m)
  <2>1. PICK j : j = N - m
    OBVIOUS
  <2>2. j \in Nat /\ N - j = m
    BY <1>2, <2>1
  <2>. QED  BY <1>3, <2>2
<1>. QED  BY <1>1, <1>4

\* The leaves below the root are the input, from left to right.
LEMMA FrontierIsInput ==
  ASSUME IsTree(ast), Len(ast) > 0, NEW q, WholeTree(ast, q, tokens), Len(tokens) \in Nat,
         \A m \in Ids(ast) : ast[m].type \in {"TOKEN", "GRAMMAR"}
  PROVE  Frontier(Head_) = [p \in 1 .. Len(tokens) |-> p]
<1>. DEFINE v == CHOOSE g : Walker(g, ast)
<1>1. Walker(v, ast)
  <2>1. \E g : Walker(g, ast)
    BY WalkerExists
  <2>. QED  BY <2>1, Zenon
<1>2. Frontier(Head_) = IF IsToken(ast, Head_) THEN <<ast[Head_].value>> ELSE v[FirstChild(ast, Head_)]
  BY Zenon DEF Frontier, Walker
<1>. HIDE DEF v
<1>3. /\ Len(ast) \in Nat /\ Ids(ast) = 1 .. Len(ast) /\ 1 \in Ids(ast) /\ Head_ = 1 /\ NO_NODE = 0
      /\ FirstChild(ast, 1) = 0 \/ FirstChild(ast, 1) \in 2 .. Len(ast)
  BY Links DEF NO_NODE, Head_
<1>4. /\ Wired(ast, q, tokens) /\ ast[1].type = "GRAMMAR" /\ q[1].from = 1
      /\ IF ast[1].last_child = 0 THEN tokens = <<>> ELSE q[ast[1].last_child].to = Len(tokens)
  BY <1>3 DEF WholeTree, Wired
<1>5. /\ ~ IsToken(ast, 1) /\ IsGrammar(ast, 1)
  BY <1>3, <1>4 DEF IsToken, IsGrammar
<1>6. Frontier(Head_) = v[FirstChild(ast, 1)]
  BY <1>2, <1>3, <1>5
<1>7. FirstChild(ast, 1) = 0 <=> ast[1].last_child = 0
  BY <1>3, <1>5, Links
<1>8. CASE FirstChild(ast, 1) = 0
  <2>1. v[0] = <<>>
    <3>1. \A n \in 0 .. Len(ast) : v[n] =
            IF n = NO_NODE THEN <<>>
            ELSE (IF IsToken(ast, n) THEN <<ast[n].value>> ELSE v[FirstChild(ast, n)]) \o v[NextSibling(ast, n)]
      BY <1>1, Zenon DEF Walker
    <3>2. 0 \in 0 .. Len(ast)
      BY <1>3
    <3>. QED  BY <3>1, <3>2 DEF NO_NODE
  <2>2. Len(tokens) = 0
    BY <1>4, <1>7, <1>8
  <2>3. [p \in 1 .. Len(tokens) |-> p] = <<>>
    BY <2>2
  <2>. QED  BY <1>6, <1>8, <2>1, <2>3
<1>9. CASE FirstChild(ast, 1) # 0
  <2>1. PICK f, l : f = FirstChild(ast, 1) /\ l = ast[1].last_child
    OBVIOUS
  <2>2. Spanned(v, ast, q, f)
    BY <1>1, <1>3, <1>9, <2>1, AllSpanned
  <2>3. q[f].up = 1 /\ q[f].from = 1
    <3>1. f = ast[1].first_child /\ f # 0
      BY <1>3, <1>5, <1>9, <2>1, Links
    <3>. QED  BY <1>3, <1>4, <3>1 DEF Wired
  <2>4. RightEnd(ast, q, f) = Len(tokens)
    BY <1>4, <1>7, <1>9, <2>1, <2>3 DEF RightEnd
  <2>5. v[f] = Piece(1, Len(tokens))
    BY <2>2, <2>3, <2>4 DEF Spanned
  <2>6. Piece(1, Len(tokens)) = [p \in 1 .. Len(tokens) |-> p]
    BY DEF Piece
  <2>. QED  BY <1>6, <2>1, <2>5, <2>6
<1>. QED  BY <1>8, <1>9

-----------------------------------------------------------------------------
LEMMA TreeReadBack == PInv /\ OInv /\ ShapeInv => DerivationTree
<1>. SUFFICES ASSUME PInv, OInv, ShapeInv, Finished_, errors = <<>>
     PROVE  /\ Frontier(Head_) = [p \in 1 .. Len(tokens) |-> p]
            /\ \A n \in Ids(ast) :
                 ast[n].type = "GRAMMAR" =>
                   IsWord(Symbols(n), Productions(ast[n].value), TOKEN \cup GRAMMAR_TYPE)
  BY DEF DerivationTree
<1>1. PICK q : WholeTree(ast, q, tokens)
  BY ShapeEnds DEF Finished_
<1>2. /\ IsTree(ast) /\ Len(ast) > 0
      /\ \A n \in Ids(ast) : \/ ast[n].type = "TOKEN"
                             \/ ast[n].type = "GRAMMAR" /\ ast[n].value \in GRAMMAR_TYPE
  BY DEF PInv, TreeInv, ValuesOK
<1>3. Len(tokens) \in Nat
  BY DEF PInv
<1>4. Frontier(Head_) = [p \in 1 .. Len(tokens) |-> p]
  BY <1>1, <1>2, <1>3, FrontierIsInput
<1>5. \A n \in Ids(ast) : ast[n].type = "GRAMMAR" => IsWord(Symbols(n), Productions(ast[n].value), NODE)
  BY <1>1, <1>2, NodeSpells
<1>. QED  BY <1>4, <1>5 DEF NODE

\* For every input that is parsed without an error, the children of each node
\* of the tree spell one of the productions for it, and the leaves, from left
\* to right, are the input (parser.c:206-432).
THEOREM TreeIsDerivation == Spec => []DerivationTree
<1>1. PInv /\ OInv /\ RInv /\ ShapeInv => DerivationTree
  BY TreeReadBack
<1>2. Init => PInv /\ OInv /\ RInv /\ ShapeInv
  BY InitPInv, InitOInv, InitRInv, InitShape
<1>3. PInv /\ OInv /\ RInv /\ ShapeInv /\ [Next]_vars => (PInv /\ OInv /\ RInv /\ ShapeInv)'
  BY StepPInv, StepOInv, StepRInv, StepShape
<1>. QED  BY <1>1, <1>2, <1>3, PTL DEF Spec

-----------------------------------------------------------------------------
(***************************************************************************)
(* The finished tree for those who walk it: the children that a node of    *)
(* each rule has, and the nodes of the blocks.                             *)
(***************************************************************************)
Tok(a, tk, n, types) == IsToken(a, n) /\ tk[a[n].value] \in types

Gram(a, n, rule) == IsGrammar(a, n) /\ a[n].value = rule

\* The children of an expression node, and what may follow an operand.
ExpressionBuilt(a, tk, n) ==
  LET first  == FirstChild(a, n)
      second == NextSibling(a, first)
      third  == NextSibling(a, second)
      next   == NextSibling(a, n)
  IN  /\ Gram(a, n, "PRIMARY") => Tok(a, tk, first, {"NUMBER", "IDENT"})
      /\ Gram(a, n, "UNARY") =>
           /\ Gram(a, first, "PRIMARY") \/ (Tok(a, tk, first, SIGNS) /\ Gram(a, second, "PRIMARY"))
           /\ next = 0 \/ (Tok(a, tk, next, {"DIV", "MULT"}) /\ Gram(a, NextSibling(a, next), "UNARY"))
      /\ Gram(a, n, "TERM") =>
           /\ Gram(a, first, "UNARY")
           /\ next = 0 \/ (Tok(a, tk, next, SIGNS) /\ Gram(a, NextSibling(a, next), "TERM"))
      /\ Gram(a, n, "EXPRESSION") => Gram(a, first, "TERM")
      /\ Gram(a, n, "COMPARISON") =>
           Gram(a, first, "EXPRESSION") /\ Tok(a, tk, second, COMPARISON_OPS) /\ Gram(a, third, "EXPRESSION")

\* A node of the block of a statement, or the one that closes it.
InBlock(a, q, tk, m, n) ==
  /\ m \in Ids(a) /\ q[m].up = n
  /\ \/ Gram(a, m, "STATEMENT")
     \/ q[n].kw = "IF" /\ Tok(a, tk, m, {"ENDIF"})
     \/ q[n].kw = "WHILE" /\ Tok(a, tk, m, {"ENDWHILE"})

StatementBuilt(a, q, tk, n) ==
  LET first  == FirstChild(a, n)
      second == NextSibling(a, first)
      third  == NextSibling(a, second)
      fourth == NextSibling(a, third)
      next   == NextSibling(a, n)
      kw     == q[n].kw
  IN  /\ kw \in STATEMENT_START_KEYWORDS
      /\ Tok(a, tk, first, {kw})
      /\ kw = "PRINT" => Tok(a, tk, second, {"STRING"}) \/ Gram(a, second, "EXPRESSION")
      /\ kw \in NAMERS => Tok(a, tk, second, {"IDENT"})
      /\ kw = "LET" => Gram(a, fourth, "EXPRESSION")
      /\ kw = "IF" => Tok(a, tk, third, {"THEN"})
      /\ kw = "WHILE" => Tok(a, tk, third, {"REPEAT"})
      /\ kw \in {"IF", "WHILE"} => Gram(a, second, "COMPARISON") /\ InBlock(a, q, tk, fourth, n)
      /\ q[n].up = Head_ => next = 0 \/ (Gram(a, next, "STATEMENT") /\ q[next].up = Head_)
      /\ q[n].up # Head_ =>
           /\ Gram(a, q[n].up, "STATEMENT") /\ q[q[n].up].kw \in {"IF", "WHILE"}
           /\ InBlock(a, q, tk, next, q[n].up)

\* The tree is built by the rules.
Built(a, q, tk) ==
  /\ Head_ \in Ids(a)
  /\ FirstChild(a, Head_) = 0
     \/ (Gram(a, FirstChild(a, Head_), "STATEMENT") /\ q[FirstChild(a, Head_)].up = Head_)
  /\ \A n \in Ids(a) :
       /\ IsToken(a, n) \/ IsGrammar(a, n)
       /\ FirstChild(a, n) # 0 => q[FirstChild(a, n)].up = n
       /\ NextSibling(a, n) # 0 => q[NextSibling(a, n)].up = q[n].up
       /\ ExpressionBuilt(a, tk, n)
       /\ Gram(a, n, "STATEMENT") => StatementBuilt(a, q, tk, n)
       /\ Tok(a, tk, n, STATEMENT_START_KEYWORDS) =>
            /\ Gram(a, q[n].up, "STATEMENT") /\ FirstChild(a, q[n].up) = n

-----------------------------------------------------------------------------
LEMMA Family ==
  ASSUME IsTree(ast), NEW q, WholeTree(ast, q, tokens), NEW n, n # 1, IsGrammar(ast, n)
  PROVE  /\ ChildOf(q, n, FirstChild(ast, n))
         /\ Begins(ast[n].value, q[FirstChild(ast, n)].at)
         /\ \A m : ChildOf(q, n, m) =>
              \/ NextSibling(ast, m) = 0 /\ Ends(ast[n].value, q[n].kw, q[m].at)
              \/ /\ ChildOf(q, n, NextSibling(ast, m))
                 /\ Follows(ast[n].value, q[n].kw, q[m].at, q[NextSibling(ast, m)].at)
<1>1. /\ Len(ast) \in Nat /\ Ids(ast) = 1 .. Len(ast) /\ NO_NODE = 0 /\ Head_ = 1
      /\ \A m \in 1 .. Len(ast) : NextSibling(ast, m) = ast[m].next_sibling
      /\ n \in Ids(ast) /\ ast[n].type = "GRAMMAR"
      /\ FirstChild(ast, n) = 0 <=> ast[n].last_child = 0
  BY Links DEF NO_NODE, Head_, IsGrammar
<1>2. Wired(ast, q, tokens) /\ Complete(ast, q, n)
  BY <1>1 DEF WholeTree
<1>3. FirstChild(ast, n) # 0
  BY <1>1, <1>2 DEF Complete
<1>4. ChildOf(q, n, FirstChild(ast, n)) /\ Begins(ast[n].value, q[FirstChild(ast, n)].at)
  BY <1>1, <1>2, <1>3, WiredChildren
<1>5. ASSUME NEW m, ChildOf(q, n, m)
      PROVE  \/ NextSibling(ast, m) = 0 /\ Ends(ast[n].value, q[n].kw, q[m].at)
             \/ /\ ChildOf(q, n, NextSibling(ast, m))
                /\ Follows(ast[n].value, q[n].kw, q[m].at, q[NextSibling(ast, m)].at)
  <2>1. NextSibling(ast, m) = ast[m].next_sibling
    BY <1>1, <1>5 DEF ChildOf
  <2>2. CASE ast[m].next_sibling = 0
    <3>1. ast[n].last_child = m
      BY <1>1, <1>2, <1>5, <2>2, WiredChildren
    <3>. QED  BY <1>2, <2>1, <2>2, <3>1 DEF Complete
  <2>3. CASE ast[m].next_sibling # 0
    <3>1. /\ ChildOf(q, n, ast[m].next_sibling)
          /\ Follows(ast[n].value, q[n].kw, q[m].at, q[ast[m].next_sibling].at)
      BY <1>1, <1>2, <1>5, <2>3, WiredChildren
    <3>. QED  BY <2>1, <3>1
  <2>. QED  BY <2>2, <2>3
<1>. QED  BY <1>4, <1>5

LEMMA SymbolKinds ==
  ASSUME PInv, NEW m \in Ids(ast)
  PROVE  /\ Symbol(m) \in GRAMMAR_TYPE => Gram(ast, m, Symbol(m))
         /\ Symbol(m) \in TOKEN => Tok(ast, tokens, m, {Symbol(m)})
         /\ IsToken(ast, m) => Symbol(m) = tokens[ast[m].value] /\ Symbol(m) \in TOKEN
         /\ IsToken(ast, m) \/ IsGrammar(ast, m)
<1>1. \/ ast[m].type = "TOKEN" /\ ast[m].value \in 1 .. Len(tokens)
      \/ ast[m].type = "GRAMMAR" /\ ast[m].value \in GRAMMAR_TYPE
  BY DEF PInv, TreeInv, ValuesOK
<1>2. \A i \in 1 .. Len(tokens) : tokens[i] \in TOKEN
  BY DEF PInv
<1>3. GRAMMAR_TYPE \cap TOKEN = {}
  BY DEF GRAMMAR_TYPE, TOKEN, STATEMENT_START_KEYWORDS, CONTROL_FLOW_TOKENS, COMPARISON_OPS, SIGNS
<1>4. CASE ast[m].type = "TOKEN"
  BY <1>1, <1>2, <1>3, <1>4 DEF Symbol, Gram, Tok, IsToken, IsGrammar, Ids
<1>5. CASE ast[m].type = "GRAMMAR"
  BY <1>1, <1>3, <1>5 DEF Symbol, Gram, Tok, IsToken, IsGrammar, Ids
<1>. QED  BY <1>1, <1>4, <1>5

\* What the symbol of a child says of it.
LEMMA ChildKind ==
  ASSUME PInv, NEW q, NEW n, NEW m, ChildOf(q, n, m)
  PROVE  /\ m \in Ids(ast) /\ q[m].up = n
         /\ \A rule \in GRAMMAR_TYPE : Symbol(m) = rule => Gram(ast, m, rule)
         /\ \A types \in SUBSET TOKEN : Symbol(m) \in types => Tok(ast, tokens, m, types)
<1>1. m \in Ids(ast) /\ q[m].up = n
  BY DEF ChildOf
<1>2. \A types \in SUBSET TOKEN : Symbol(m) \in types => Tok(ast, tokens, m, types)
  BY <1>1, SymbolKinds DEF Tok
<1>. QED  BY <1>1, <1>2, SymbolKinds

LEMMA TokenKinds ==
  /\ SIGNS \subseteq TOKEN /\ COMPARISON_OPS \subseteq TOKEN /\ STATEMENT_START_KEYWORDS \subseteq TOKEN
  /\ {"NUMBER", "IDENT"} \subseteq TOKEN /\ {"DIV", "MULT"} \subseteq TOKEN
BY DEF TOKEN

LEMMA ExpressionsBuilt ==
  ASSUME PInv, NEW q, WholeTree(ast, q, tokens), NEW n \in Ids(ast)
  PROVE  ExpressionBuilt(ast, tokens, n)
<1>. DEFINE first  == FirstChild(ast, n)
            second == NextSibling(ast, first)
            third  == NextSibling(ast, second)
            next   == NextSibling(ast, n)
<1>0. IsTree(ast) /\ Wired(ast, q, tokens)
  BY DEF PInv, TreeInv, WholeTree
<1>1. Gram(ast, n, "PRIMARY") => Tok(ast, tokens, first, {"NUMBER", "IDENT"})
  <2>. SUFFICES ASSUME Gram(ast, n, "PRIMARY") PROVE Tok(ast, tokens, first, {"NUMBER", "IDENT"})
    OBVIOUS
  <2>1. n # 1 /\ IsGrammar(ast, n) /\ ast[n].value = "PRIMARY"
    BY <1>0 DEF Gram, Wired, Head_
  <2>2. ChildOf(q, n, first)
    BY <1>0, <2>1, Family
  <2>3. Symbol(first) \in {"NUMBER", "IDENT"}
    BY <2>1, <2>2 DEF ChildOf, Fits
  <2>. QED  BY <2>2, <2>3, ChildKind, TokenKinds
<1>2. ASSUME Gram(ast, n, "UNARY")
      PROVE  Gram(ast, first, "PRIMARY") \/ (Tok(ast, tokens, first, SIGNS) /\ Gram(ast, second, "PRIMARY"))
  <2>1. n # 1 /\ IsGrammar(ast, n) /\ ast[n].value = "UNARY"
    BY <1>0, <1>2 DEF Gram, Wired, Head_
  <2>2. ChildOf(q, n, first) /\ q[first].at \in {1, 2}
    BY <1>0, <2>1, Family DEF Begins
  <2>3. CASE q[first].at = 1
    <3>1. Symbol(first) \in SIGNS
      BY <2>1, <2>2, <2>3 DEF ChildOf, Fits
    <3>2. ~ Ends("UNARY", q[n].kw, 1) /\ \A j : Follows("UNARY", q[n].kw, 1, j) => j = 2
      BY DEF Ends, Follows
    <3>3. ChildOf(q, n, second) /\ q[second].at = 2
      BY <1>0, <2>1, <2>2, <2>3, <3>2, Family
    <3>4. Symbol(second) = "PRIMARY"
      BY <2>1, <3>3 DEF ChildOf, Fits
    <3>. QED  BY <2>2, <3>1, <3>3, <3>4, ChildKind, TokenKinds DEF GRAMMAR_TYPE
  <2>4. CASE q[first].at = 2
    <3>1. Symbol(first) = "PRIMARY"
      BY <2>1, <2>2, <2>4 DEF ChildOf, Fits
    <3>. QED  BY <2>2, <3>1, ChildKind DEF GRAMMAR_TYPE
  <2>. QED  BY <2>2, <2>3, <2>4
<1>3. ASSUME NEW fn, NEW operand, NEW ops, Gram(ast, n, fn),
             \/ fn = "TERM" /\ operand = "UNARY" /\ ops = {"DIV", "MULT"}
             \/ fn = "EXPRESSION" /\ operand = "TERM" /\ ops = SIGNS
      PROVE  Gram(ast, first, operand)
  <2>1. n # 1 /\ IsGrammar(ast, n) /\ ast[n].value = fn
    BY <1>0, <1>3 DEF Gram, Wired, Head_
  <2>2. ChildOf(q, n, first) /\ q[first].at = 1
    BY <1>0, <1>3, <2>1, Family DEF Begins
  <2>3. Symbol(first) = operand
    BY <1>3, <2>1, <2>2 DEF ChildOf, Fits, SIGNS
  <2>. QED  BY <1>3, <2>2, <2>3, ChildKind DEF GRAMMAR_TYPE
<1>4. ASSUME NEW fn, NEW operand, NEW ops, Gram(ast, n, operand), next # 0,
             \/ fn = "TERM" /\ operand = "UNARY" /\ ops = {"DIV", "MULT"}
             \/ fn = "EXPRESSION" /\ operand = "TERM" /\ ops = SIGNS
      PROVE  Tok(ast, tokens, next, ops) /\ Gram(ast, NextSibling(ast, next), operand)
  <2>1. n # 1 /\ IsGrammar(ast, n) /\ ast[n].value = operand
    BY <1>0, <1>4 DEF Gram, Wired, Head_
  <2>2. PICK p : p = q[n].up
    OBVIOUS
  <2>3. IsGrammar(ast, p) /\ Fits(ast[p].value, q[p].kw, q[n].at, SymbolOf(ast, tokens, n))
    BY <1>0, <2>1, <2>2 DEF Wired, Head_
  <2>4. SymbolOf(ast, tokens, n) = Symbol(n) /\ Symbol(n) = operand
    BY <2>1 DEF SymbolOf, Symbol, IsToken, IsGrammar
  <2>5. ChildOf(q, p, n)
    BY <2>1, <2>2, <2>3, <2>4 DEF ChildOf, Head_
  <2>6. operand \in {"UNARY", "TERM"}
    BY <1>4
  <2>7. ast[p].value = fn /\ q[n].at = 1
    <3>1. Fits(ast[p].value, q[p].kw, q[n].at, operand)
      BY <2>3, <2>4
    <3>2. ast[p].value = "STATEMENT" => q[p].kw \in STATEMENT_START_KEYWORDS
      <4>1. p \in Ids(ast)
        BY <2>3 DEF IsGrammar, Ids
      <4>2. ast[p].value = "STATEMENT" => IsStatement(ast, p)
        BY <2>3 DEF IsStatement, IsGrammar
      <4>. QED  BY <1>0, <4>1, <4>2 DEF Wired
    <3>3. ast[p].value # "STATEMENT"
      BY <2>6, <3>1, <3>2, StatementPlaces DEF STATEMENT_START_KEYWORDS
    <3>. QED  BY <1>4, <3>1, <3>3 DEF Fits, SIGNS, COMPARISON_OPS
  <2>8. p # 1
    BY <1>0, <1>4, <2>7 DEF Wired, Head_
  <2>9. ChildOf(q, p, next) /\ Follows(fn, q[p].kw, 1, q[next].at)
    BY <1>0, <1>4, <2>3, <2>5, <2>7, <2>8, Family
  <2>10. q[next].at = 2
    BY <1>4, <2>9 DEF Follows
  <2>11. Symbol(next) \in ops
    BY <1>4, <2>7, <2>9, <2>10 DEF ChildOf, Fits
  <2>12. ~ Ends(fn, q[p].kw, 2) /\ \A j : Follows(fn, q[p].kw, 2, j) => j = 1
    BY <1>4 DEF Ends, Follows
  <2>13. PICK r : r = NextSibling(ast, next)
    OBVIOUS
  <2>14. ChildOf(q, p, r) /\ q[r].at = 1
    BY <1>0, <2>3, <2>7, <2>8, <2>9, <2>10, <2>12, <2>13, Family
  <2>15. Symbol(r) = operand
    BY <1>4, <2>7, <2>14 DEF ChildOf, Fits, SIGNS
  <2>16. ops \in SUBSET TOKEN /\ operand \in GRAMMAR_TYPE
    BY <1>4, TokenKinds DEF GRAMMAR_TYPE
  <2>. QED  BY <2>9, <2>11, <2>13, <2>14, <2>15, <2>16, ChildKind
<1>5. ASSUME Gram(ast, n, "COMPARISON")
      PROVE  /\ Gram(ast, first, "EXPRESSION")
             /\ Tok(ast, tokens, second, COMPARISON_OPS)
             /\ Gram(ast, third, "EXPRESSION")
  <2>1. n # 1 /\ IsGrammar(ast, n) /\ ast[n].value = "COMPARISON"
    BY <1>0, <1>5 DEF Gram, Wired, Head_
  <2>2. ChildOf(q, n, first) /\ q[first].at = 1
    BY <1>0, <2>1, Family DEF Begins
  <2>3. /\ \A i \in {1, 2} : ~ Ends("COMPARISON", q[n].kw, i)
        /\ \A j : Follows("COMPARISON", q[n].kw, 1, j) => j = 2
        /\ \A j : Follows("COMPARISON", q[n].kw, 2, j) => j = 3
    BY DEF Ends, Follows
  <2>4. ChildOf(q, n, second) /\ q[second].at = 2
    BY <1>0, <2>1, <2>2, <2>3, Family
  <2>5. ChildOf(q, n, third) /\ q[third].at = 3
    BY <1>0, <2>1, <2>3, <2>4, Family
  <2>6. Symbol(first) = "EXPRESSION" /\ Symbol(second) \in COMPARISON_OPS /\ Symbol(third) = "EXPRESSION"
    BY <2>1, <2>2, <2>4, <2>5 DEF ChildOf, Fits
  <2>. QED  BY <2>2, <2>4, <2>5, <2>6, ChildKind, TokenKinds DEF GRAMMAR_TYPE
<1>. HIDE DEF first, second, third, next
<1>6. Gram(ast, n, "TERM") => Gram(ast, first, "UNARY")
  BY <1>3
<1>7. Gram(ast, n, "EXPRESSION") => Gram(ast, first, "TERM")
  BY <1>3
<1>8. Gram(ast, n, "UNARY") =>
        next = 0 \/ (Tok(ast, tokens, next, {"DIV", "MULT"}) /\ Gram(ast, NextSibling(ast, next), "UNARY"))
  BY <1>4
<1>9. Gram(ast, n, "TERM") =>
        next = 0 \/ (Tok(ast, tokens, next, SIGNS) /\ Gram(ast, NextSibling(ast, next), "TERM"))
  BY <1>4
<1>. QED  BY <1>1, <1>2, <1>5, <1>6, <1>7, <1>8, <1>9 DEF ExpressionBuilt, first, second, third, next

LEMMA KeywordsKnown ==
  ASSUME NEW q, Wired(ast, q, tokens), NEW n, Gram(ast, n, "STATEMENT")
  PROVE  n \in Ids(ast) /\ n # 1 /\ IsGrammar(ast, n) /\ ast[n].value = "STATEMENT"
         /\ q[n].kw \in STATEMENT_START_KEYWORDS
<1>1. n \in Ids(ast) /\ n # 1 /\ IsGrammar(ast, n) /\ ast[n].value = "STATEMENT"
  BY DEF Wired, Head_, Gram, IsGrammar, Ids
<1>2. IsStatement(ast, n)
  BY <1>1 DEF IsStatement, IsGrammar
<1>. QED  BY <1>1, <1>2 DEF Wired

\* The places of the children of a statement.
LEMMA StatementChild ==
  ASSUME PInv, NEW q, WholeTree(ast, q, tokens), NEW n, Gram(ast, n, "STATEMENT"),
         NEW m, ChildOf(q, n, m), NEW kw, kw = q[n].kw, NEW at, at = q[m].at
  PROVE  /\ at = 1 => Tok(ast, tokens, m, {kw})
         /\ at = 2 => /\ kw = "PRINT" => Tok(ast, tokens, m, {"STRING"}) \/ Gram(ast, m, "EXPRESSION")
                      /\ kw \in NAMERS => Tok(ast, tokens, m, {"IDENT"})
                      /\ kw \in {"IF", "WHILE"} => Gram(ast, m, "COMPARISON")
         /\ at = 3 => /\ kw = "IF" => Tok(ast, tokens, m, {"THEN"})
                      /\ kw = "WHILE" => Tok(ast, tokens, m, {"REPEAT"})
         /\ kw \in {"IF", "WHILE"} /\ at \in {4, 5} => InBlock(ast, q, tokens, m, n)
         /\ at = 4 /\ kw = "LET" => Gram(ast, m, "EXPRESSION")
<1>1. Wired(ast, q, tokens)
  BY DEF WholeTree
<1>2. kw \in STATEMENT_START_KEYWORDS /\ ast[n].value = "STATEMENT"
  BY <1>1, KeywordsKnown
<1>3. PICK x : x = Symbol(m)
  OBVIOUS
<1>4. Fits("STATEMENT", kw, at, x)
  BY <1>2, <1>3 DEF ChildOf
<1>5. /\ m \in Ids(ast) /\ q[m].up = n
      /\ \A rule \in GRAMMAR_TYPE : x = rule => Gram(ast, m, rule)
      /\ \A types \in SUBSET TOKEN : x \in types => Tok(ast, tokens, m, types)
  BY <1>3, ChildKind
<1>6. /\ \A t \in TOKEN : x = t => Tok(ast, tokens, m, {t})
      /\ kw \in TOKEN /\ {"IDENT", "STRING", "THEN", "REPEAT", "ENDIF", "ENDWHILE"} \subseteq TOKEN
  BY <1>2, <1>5, TokenKinds DEF TOKEN, CONTROL_FLOW_TOKENS
<1>7. at = 1 => x = kw
  BY <1>2, <1>4, StatementPlaces
<1>8. at = 2 => /\ kw = "PRINT" => x = "STRING" \/ x = "EXPRESSION"
                /\ kw \in NAMERS => x = "IDENT"
                /\ kw \in {"IF", "WHILE"} => x = "COMPARISON"
  BY <1>2, <1>4, StatementPlaces DEF NAMERS
<1>9. at = 3 => (kw = "IF" => x = "THEN") /\ (kw = "WHILE" => x = "REPEAT")
  BY <1>2, <1>4, StatementPlaces
<1>10. /\ at = 4 => (kw = "LET" => x = "EXPRESSION") /\ (kw \in {"IF", "WHILE"} => x = "STATEMENT")
       /\ at = 5 => (kw = "IF" => x = "ENDIF") /\ (kw = "WHILE" => x = "ENDWHILE")
  BY <1>2, <1>4, StatementPlaces
<1>11. "STATEMENT" \in GRAMMAR_TYPE /\ "EXPRESSION" \in GRAMMAR_TYPE /\ "COMPARISON" \in GRAMMAR_TYPE
  BY DEF GRAMMAR_TYPE
<1>12. kw \in {"IF", "WHILE"} /\ at \in {4, 5} => InBlock(ast, q, tokens, m, n)
  BY <1>5, <1>6, <1>10, <1>11 DEF InBlock
<1>. QED  BY <1>5, <1>6, <1>7, <1>8, <1>9, <1>10, <1>11, <1>12

LEMMA StatementOrder ==
  ASSUME NEW kw \in STATEMENT_START_KEYWORDS
  PROVE  /\ \A i, j : Follows("STATEMENT", kw, i, j) =>
              j = i + 1 \/ (kw \in {"IF", "WHILE"} /\ <<i, j>> \in {<<3, 5>>, <<4, 4>>})
         /\ \A i : Ends("STATEMENT", kw, i) =>
              \/ kw \in {"PRINT", "LABEL", "GOTO", "INPUT"} /\ i = 2
              \/ kw = "LET" /\ i = 4
              \/ kw \in {"IF", "WHILE"} /\ i = 5
<1>1. \A i, j : Follows("STATEMENT", kw, i, j) =>
        j = i + 1 \/ (kw \in {"IF", "WHILE"} /\ <<i, j>> \in {<<3, 5>>, <<4, 4>>})
  BY DEF Follows
<1>2. \/ kw \in {"PRINT", "LABEL", "GOTO", "INPUT"} /\ Len(Form(kw)) = 2
      \/ kw = "LET" /\ Len(Form(kw)) = 4
      \/ kw \in {"IF", "WHILE"} /\ Len(Form(kw)) = 5
  BY FormLengths DEF STATEMENT_START_KEYWORDS
<1>3. \A i : Ends("STATEMENT", kw, i) => i = Len(Form(kw))
  BY DEF Ends
<1>. QED  BY <1>1, <1>2, <1>3

LEMMA StatementsBuilt ==
  ASSUME PInv, NEW q, WholeTree(ast, q, tokens), NEW n, Gram(ast, n, "STATEMENT")
  PROVE  StatementBuilt(ast, q, tokens, n)
<1>0. IsTree(ast) /\ Wired(ast, q, tokens)
  BY DEF PInv, TreeInv, WholeTree
<1>1. PICK first, second, third, fourth, next, kw :
        /\ first = FirstChild(ast, n) /\ second = NextSibling(ast, first)
        /\ third = NextSibling(ast, second) /\ fourth = NextSibling(ast, third)
        /\ next = NextSibling(ast, n) /\ kw = q[n].kw
  OBVIOUS
<1>2. /\ n \in Ids(ast) /\ n # 1 /\ IsGrammar(ast, n) /\ ast[n].value = "STATEMENT"
      /\ kw \in STATEMENT_START_KEYWORDS
  BY <1>0, <1>1, KeywordsKnown
<1>3. ChildOf(q, n, first) /\ q[first].at = 1
  BY <1>0, <1>1, <1>2, Family DEF Begins
<1>4. ASSUME NEW m, ChildOf(q, n, m), q[m].at \in {1, 2, 3}, ~ Ends("STATEMENT", kw, q[m].at)
      PROVE  /\ ChildOf(q, n, NextSibling(ast, m))
             /\ \/ q[NextSibling(ast, m)].at = q[m].at + 1
                \/ kw \in {"IF", "WHILE"} /\ q[m].at = 3 /\ q[NextSibling(ast, m)].at = 5
  <2>1. PICK r : r = NextSibling(ast, m)
    OBVIOUS
  <2>2. ChildOf(q, n, r) /\ Follows("STATEMENT", kw, q[m].at, q[r].at)
    BY <1>0, <1>1, <1>2, <1>4, <2>1, Family
  <2>. QED  BY <1>2, <1>4, <2>1, <2>2, StatementOrder
<1>5. ~ Ends("STATEMENT", kw, 1)
  BY <1>2, StatementOrder
<1>6. ChildOf(q, n, second) /\ q[second].at = 2
  BY <1>1, <1>3, <1>4, <1>5
<1>7. ASSUME kw \in {"IF", "WHILE", "LET"}
      PROVE  /\ ChildOf(q, n, third) /\ q[third].at = 3
             /\ ChildOf(q, n, fourth) /\ q[fourth].at \in {4, 5}
             /\ kw = "LET" => q[fourth].at = 4
  <2>1. ~ Ends("STATEMENT", kw, 2) /\ ~ Ends("STATEMENT", kw, 3)
    BY <1>2, <1>7, StatementOrder
  <2>2. ChildOf(q, n, third) /\ q[third].at = 3
    BY <1>1, <1>4, <1>6, <2>1
  <2>. QED  BY <1>1, <1>4, <2>1, <2>2
<1>8. Tok(ast, tokens, first, {kw})
  BY <1>1, <1>3, StatementChild
<1>9. /\ kw = "PRINT" => Tok(ast, tokens, second, {"STRING"}) \/ Gram(ast, second, "EXPRESSION")
      /\ kw \in NAMERS => Tok(ast, tokens, second, {"IDENT"})
      /\ kw \in {"IF", "WHILE"} => Gram(ast, second, "COMPARISON")
  BY <1>1, <1>6, StatementChild
<1>10. /\ kw = "IF" => Tok(ast, tokens, third, {"THEN"})
       /\ kw = "WHILE" => Tok(ast, tokens, third, {"REPEAT"})
  BY <1>1, <1>7, StatementChild
<1>11. kw = "LET" => Gram(ast, fourth, "EXPRESSION")
  BY <1>1, <1>7, StatementChild
<1>12. kw \in {"IF", "WHILE"} => InBlock(ast, q, tokens, fourth, n)
  BY <1>1, <1>7, StatementChild
<1>13. PICK p : p = q[n].up
  OBVIOUS
<1>14. p \in Ids(ast) /\ IsGrammar(ast, p) /\ ChildOf(q, p, n) /\ Symbol(n) = "STATEMENT"
  <2>1. IsGrammar(ast, p) /\ Fits(ast[p].value, q[p].kw, q[n].at, SymbolOf(ast, tokens, n))
    BY <1>0, <1>2, <1>13 DEF Wired, Head_
  <2>2. SymbolOf(ast, tokens, n) = Symbol(n) /\ Symbol(n) = "STATEMENT"
    BY <1>2 DEF SymbolOf, Symbol, IsToken, IsGrammar
  <2>. QED  BY <1>2, <1>13, <2>1, <2>2 DEF ChildOf, Head_, IsGrammar, Ids
<1>15. p = 1 => next = 0 \/ (Gram(ast, next, "STATEMENT") /\ q[next].up = 1)
  <2>. SUFFICES ASSUME p = 1, next # 0 PROVE Gram(ast, next, "STATEMENT") /\ q[next].up = 1
    OBVIOUS
  <2>1. ast[p].value = "PROGRAM"
    BY <1>0 DEF Wired, Head_
  <2>2. next = ast[n].next_sibling
    BY <1>1, <1>2 DEF NextSibling, NO_NODE, IsGrammar
  <2>3. ChildOf(q, p, next)
    BY <1>0, <1>14, <2>2, WiredChildren
  <2>4. Symbol(next) = "STATEMENT"
    BY <2>1, <2>3 DEF ChildOf, Fits
  <2>. QED  BY <2>3, <2>4, ChildKind DEF GRAMMAR_TYPE
<1>16. p # 1 =>
         /\ Gram(ast, p, "STATEMENT") /\ q[p].kw \in {"IF", "WHILE"}
         /\ InBlock(ast, q, tokens, next, p)
  <2>. SUFFICES ASSUME p # 1
       PROVE  /\ Gram(ast, p, "STATEMENT") /\ q[p].kw \in {"IF", "WHILE"}
              /\ InBlock(ast, q, tokens, next, p)
    OBVIOUS
  <2>1. ast[p].value # "PROGRAM"
    <3>1. ast[p].type = "GRAMMAR"
      BY <1>14 DEF IsGrammar
    <3>2. ast[p].value = "PROGRAM" => p = 1
      <4>. SUFFICES ASSUME ast[p].value = "PROGRAM", p # 1 PROVE FALSE
        OBVIOUS
      <4>1. Fits(ast[q[p].up].value, q[q[p].up].kw, q[p].at, SymbolOf(ast, tokens, p))
        BY <1>0, <1>14 DEF Wired, Head_
      <4>2. SymbolOf(ast, tokens, p) = "PROGRAM"
        BY <1>14 DEF SymbolOf, IsGrammar
      <4>3. PICK up : up = q[p].up
        OBVIOUS
      <4>4. IsGrammar(ast, up)
        BY <1>0, <1>14, <4>3 DEF Wired, Head_
      <4>5. ast[up].value = "STATEMENT" => q[up].kw \in STATEMENT_START_KEYWORDS
        BY <1>0, <4>4, KeywordsKnown DEF Gram
      <4>6. ast[up].value # "STATEMENT"
        BY <4>1, <4>2, <4>3, <4>5, StatementPlaces DEF STATEMENT_START_KEYWORDS
      <4>. QED  BY <4>1, <4>2, <4>3, <4>6 DEF Fits, COMPARISON_OPS, SIGNS
    <3>. QED  BY <3>2
  <2>2. Fits(ast[p].value, q[p].kw, q[n].at, "STATEMENT")
    BY <1>14 DEF ChildOf
  <2>3. ast[p].value = "STATEMENT"
    BY <2>1, <2>2 DEF Fits, COMPARISON_OPS, SIGNS
  <2>4. Gram(ast, p, "STATEMENT") /\ q[p].kw \in STATEMENT_START_KEYWORDS
    BY <1>0, <1>14, <2>3, KeywordsKnown DEF Gram
  <2>5. q[p].kw \in {"IF", "WHILE"} /\ q[n].at = 4
    BY <2>2, <2>3, <2>4, StatementPlaces DEF STATEMENT_START_KEYWORDS
  <2>6. ~ Ends("STATEMENT", q[p].kw, 4)
    BY <2>4, <2>5, StatementOrder
  <2>7. ChildOf(q, p, next) /\ Follows("STATEMENT", q[p].kw, 4, q[next].at)
    BY <1>0, <1>1, <1>14, <2>3, <2>5, <2>6, Family
  <2>8. q[next].at \in {4, 5}
    BY <2>4, <2>7, StatementOrder
  <2>. QED  BY <2>4, <2>5, <2>7, <2>8, StatementChild
<1>. QED
  BY <1>1, <1>2, <1>8, <1>9, <1>10, <1>11, <1>12, <1>13, <1>15, <1>16 DEF StatementBuilt, Head_

LEMMA KeywordFirst ==
  ASSUME PInv, NEW q, WholeTree(ast, q, tokens), NEW n,
         Tok(ast, tokens, n, STATEMENT_START_KEYWORDS)
  PROVE  Gram(ast, q[n].up, "STATEMENT") /\ FirstChild(ast, q[n].up) = n
<1>0. IsTree(ast) /\ Wired(ast, q, tokens)
  BY DEF PInv, TreeInv, WholeTree
<1>1. /\ Len(ast) \in Nat /\ Ids(ast) = 1 .. Len(ast) /\ n \in Ids(ast) /\ n # 1
      /\ ast[n].type = "TOKEN" /\ tokens[ast[n].value] \in STATEMENT_START_KEYWORDS
  <2>1. n # 1
    BY <1>0 DEF Wired, Tok, IsToken, Head_
  <2>. QED  BY <1>0, <2>1, Links DEF Tok, IsToken
<1>2. PICK p, x : p = q[n].up /\ x = tokens[ast[n].value]
  OBVIOUS
<1>3. IsGrammar(ast, p) /\ p \in Ids(ast) /\ Fits(ast[p].value, q[p].kw, q[n].at, x)
  <2>1. SymbolOf(ast, tokens, n) = x
    BY <1>1, <1>2 DEF SymbolOf
  <2>. QED  BY <1>0, <1>1, <1>2, <2>1 DEF Wired, Head_, IsGrammar, Ids
<1>4. x \in STATEMENT_START_KEYWORDS
  BY <1>1, <1>2
<1>5. ast[p].value = "STATEMENT"
  BY <1>3, <1>4 DEF Fits, STATEMENT_START_KEYWORDS, COMPARISON_OPS, SIGNS
<1>6. Gram(ast, p, "STATEMENT") /\ q[p].kw \in STATEMENT_START_KEYWORDS /\ p # 1
  BY <1>0, <1>3, <1>5, KeywordsKnown DEF Gram
<1>7. q[n].at = 1
  BY <1>3, <1>4, <1>5, <1>6, StatementPlaces DEF STATEMENT_START_KEYWORDS
<1>8. FirstChild(ast, p) = n
  <2>. SUFFICES ASSUME FirstChild(ast, p) # n PROVE FALSE
    OBVIOUS
  <2>1. PICK i \in Ids(ast) : n = ast[i].first_child \/ n = ast[i].next_sibling
    BY <1>0, <1>1 DEF IsTree, NoOrphan, Head_
  <2>2. n # 0
    BY <1>1
  <2>3. CASE n = ast[i].first_child
    <3>1. q[n].up = i
      BY <1>0, <2>1, <2>2, <2>3 DEF Wired, NO_NODE
    <3>. QED  BY <1>2, <1>3, <2>3, <3>1 DEF FirstChild
  <2>4. CASE n = ast[i].next_sibling
    <3>1. q[n].up = q[i].up /\ Follows(ast[q[i].up].value, q[q[i].up].kw, q[i].at, q[n].at)
      BY <1>0, <2>1, <2>2, <2>4 DEF Wired, NO_NODE
    <3>2. Follows("STATEMENT", q[p].kw, q[i].at, 1)
      BY <1>2, <1>5, <1>7, <3>1
    <3>3. q[i].at = 0
      <4>1. q[i].at \in Nat
        BY <1>0, <2>1 DEF Wired, Facts
      <4>. QED  BY <1>6, <3>2, <4>1, StatementOrder
    <3>4. i # 1
      <4>. SUFFICES ASSUME i = 1 PROVE FALSE
        OBVIOUS
      <4>1. q[1].up = 0
        BY <1>0 DEF Wired, Head_
      <4>. QED  BY <1>1, <1>2, <1>3, <3>1, <4>1
    <3>5. Fits(ast[q[i].up].value, q[q[i].up].kw, q[i].at, SymbolOf(ast, tokens, i))
      BY <1>0, <2>1, <3>4 DEF Wired, Head_
    <3>6. q[i].at # 0
      BY <3>5, FitsAt
    <3>. QED  BY <3>3, <3>6
  <2>. QED  BY <2>1, <2>3, <2>4
<1>. QED  BY <1>2, <1>6, <1>8

\* A finished tree without errors is built by the rules.
LEMMA TreeBuilt ==
  ASSUME PInv, NEW q, WholeTree(ast, q, tokens)
  PROVE  Built(ast, q, tokens)
<1>0. IsTree(ast) /\ Wired(ast, q, tokens)
  BY DEF PInv, TreeInv, WholeTree
<1>1. Len(ast) \in Nat /\ Ids(ast) = 1 .. Len(ast) /\ Head_ = 1 /\ 1 \in Ids(ast)
  BY <1>0, Links DEF Head_, PInv, TreeInv
<1>2. FirstChild(ast, 1) = 0
      \/ (Gram(ast, FirstChild(ast, 1), "STATEMENT") /\ q[FirstChild(ast, 1)].up = 1)
  <2>. SUFFICES ASSUME FirstChild(ast, 1) # 0
       PROVE  Gram(ast, FirstChild(ast, 1), "STATEMENT") /\ q[FirstChild(ast, 1)].up = 1
    OBVIOUS
  <2>1. ChildOf(q, 1, FirstChild(ast, 1)) /\ ast[1].value = "PROGRAM"
    <3>1. ast[1].value = "PROGRAM"
      BY <1>0 DEF Wired, Head_
    <3>. QED  BY <1>0, <1>1, <3>1, WiredChildren
  <2>2. Symbol(FirstChild(ast, 1)) = "STATEMENT"
    BY <2>1 DEF ChildOf, Fits
  <2>. QED  BY <2>1, <2>2, ChildKind DEF GRAMMAR_TYPE
<1>3. ASSUME NEW n \in Ids(ast)
      PROVE  /\ FirstChild(ast, n) # 0 => q[FirstChild(ast, n)].up = n
             /\ NextSibling(ast, n) # 0 => q[NextSibling(ast, n)].up = q[n].up
  <2>1. FirstChild(ast, n) # 0 => FirstChild(ast, n) = ast[n].first_child
    BY DEF FirstChild, NO_NODE
  <2>2. NextSibling(ast, n) = ast[n].next_sibling
    BY <1>0, <1>1, Links
  <2>. QED  BY <1>0, <2>1, <2>2 DEF Wired, NO_NODE
<1>4. ASSUME NEW n \in Ids(ast)
      PROVE  /\ IsToken(ast, n) \/ IsGrammar(ast, n)
             /\ ExpressionBuilt(ast, tokens, n)
             /\ Gram(ast, n, "STATEMENT") => StatementBuilt(ast, q, tokens, n)
             /\ Tok(ast, tokens, n, STATEMENT_START_KEYWORDS) =>
                  /\ Gram(ast, q[n].up, "STATEMENT") /\ FirstChild(ast, q[n].up) = n
  BY SymbolKinds, ExpressionsBuilt, StatementsBuilt, KeywordFirst
<1>. QED  BY <1>1, <1>2, <1>3, <1>4, Zenon DEF Built

\* The pieces of the input that the nodes stand for, one after the other.
Spaced(a, q) ==
  \A m \in Ids(a) \ {Head_} :
    /\ q[m].from \in Nat /\ q[m].to \in Nat /\ RightEnd(a, q, m) \in Nat
    /\ q[m].from <= q[m].to /\ q[m].to <= RightEnd(a, q, m)
    /\ IsToken(a, m) => q[m].from = a[m].value /\ q[m].to = a[m].value
    /\ ~ IsToken(a, m) => q[FirstChild(a, m)].from = q[m].from
                          /\ RightEnd(a, q, FirstChild(a, m)) = q[m].to
    /\ NextSibling(a, m) = 0 => RightEnd(a, q, m) = q[m].to
    /\ NextSibling(a, m) # 0 => q[NextSibling(a, m)].from = q[m].to + 1
                                /\ RightEnd(a, q, NextSibling(a, m)) = RightEnd(a, q, m)

LEMMA TreeSpaced ==
  ASSUME PInv, NEW q, WholeTree(ast, q, tokens)
  PROVE  Spaced(ast, q)
<1>1. /\ IsTree(ast) /\ Len(ast) \in Nat /\ Ids(ast) = 1 .. Len(ast)
      /\ \A m \in Ids(ast) : NextSibling(ast, m) = ast[m].next_sibling
  BY Links DEF PInv, TreeInv
<1>2. \A m \in Ids(ast) : ast[m].type \in {"TOKEN", "GRAMMAR"}
  BY DEF PInv, TreeInv, ValuesOK
<1>3. PICK g : Walker(g, ast)
  BY <1>1, WalkerExists
<1>4. \A m \in 2 .. Len(ast) : Spanned(g, ast, q, m)
  BY <1>1, <1>2, <1>3, AllSpanned
<1>5. ASSUME NEW m \in Ids(ast) \ {1}
      PROVE  /\ q[m].from \in Nat /\ q[m].to \in Nat /\ RightEnd(ast, q, m) \in Nat
             /\ q[m].from <= q[m].to /\ q[m].to <= RightEnd(ast, q, m)
             /\ IsToken(ast, m) => q[m].from = ast[m].value /\ q[m].to = ast[m].value
             /\ ~ IsToken(ast, m) => q[FirstChild(ast, m)].from = q[m].from
                                     /\ RightEnd(ast, q, FirstChild(ast, m)) = q[m].to
             /\ NextSibling(ast, m) = 0 => RightEnd(ast, q, m) = q[m].to
             /\ NextSibling(ast, m) # 0 => q[NextSibling(ast, m)].from = q[m].to + 1
                                       /\ RightEnd(ast, q, NextSibling(ast, m)) = RightEnd(ast, q, m)
  <2>1. m \in 2 .. Len(ast) /\ m \in Ids(ast) /\ m # 1
    BY <1>1, <1>5
  <2>2. Spanned(g, ast, q, m)
    BY <1>4, <2>1
  <2>3. /\ q[m].from \in Nat /\ q[m].to \in Nat
        /\ IsToken(ast, m) => q[m].from = ast[m].value /\ q[m].to = ast[m].value
        /\ ~ IsToken(ast, m) =>
             /\ q[FirstChild(ast, m)].from = q[m].from
             /\ RightEnd(ast, q, FirstChild(ast, m)) = q[m].to
        /\ ast[m].next_sibling = 0 => RightEnd(ast, q, m) = q[m].to
        /\ ast[m].next_sibling # 0 =>
             /\ q[ast[m].next_sibling].from = q[m].to + 1
             /\ RightEnd(ast, q, ast[m].next_sibling) = RightEnd(ast, q, m)
    BY <1>1, <1>2, <2>1, Spans
  <2>. QED  BY <1>1, <2>1, <2>2, <2>3 DEF Spanned
<1>. QED  BY <1>5 DEF Spaced, Head_
-----------------------------------------------------------------------------
\* Every statement is the first of the program or of a block, or comes after
\* another one.
Preceded(a, q) ==
  \A m \in Ids(a) : Gram(a, m, "STATEMENT") =>
    \/ m = FirstChild(a, Head_)
    \/ \E n \in Ids(a) :
         /\ Gram(a, n, "STATEMENT")
         /\ \/ m = NextSibling(a, n)
            \/ /\ q[n].kw \in {"IF", "WHILE"}
               /\ m = NextSibling(a, NextSibling(a, NextSibling(a, FirstChild(a, n))))

LEMMA TreePreceded ==
  ASSUME PInv, NEW q, WholeTree(ast, q, tokens)
  PROVE  Preceded(ast, q)
<1>. SUFFICES ASSUME NEW u \in Ids(ast), Gram(ast, u, "STATEMENT"), u # FirstChild(ast, 1)
     PROVE  \E n \in Ids(ast) :
              /\ Gram(ast, n, "STATEMENT")
              /\ \/ u = NextSibling(ast, n)
                 \/ /\ q[n].kw \in {"IF", "WHILE"}
                    /\ u = NextSibling(ast, NextSibling(ast, NextSibling(ast, FirstChild(ast, n))))
  BY DEF Preceded, Head_
<1>0. IsTree(ast) /\ Wired(ast, q, tokens) /\ Head_ = 1
  BY DEF PInv, TreeInv, WholeTree, Head_
<1>1. PICK p : p = q[u].up
  OBVIOUS
<1>2. u # 1 /\ p \in Ids(ast) /\ IsGrammar(ast, p) /\ ChildOf(q, p, u) /\ Symbol(u) = "STATEMENT"
  <2>1. u # 1 /\ ast[u].type # "TOKEN" /\ ast[u].value = "STATEMENT"
    BY <1>0 DEF Wired, Gram, IsGrammar
  <2>2. IsGrammar(ast, p) /\ Fits(ast[p].value, q[p].kw, q[u].at, SymbolOf(ast, tokens, u))
    BY <1>0, <1>1, <2>1 DEF Wired
  <2>3. SymbolOf(ast, tokens, u) = Symbol(u) /\ Symbol(u) = "STATEMENT"
    BY <2>1 DEF SymbolOf, Symbol, IsToken
  <2>. QED  BY <1>0, <1>1, <2>1, <2>2, <2>3 DEF ChildOf, IsGrammar, Ids
\* What comes before a child.
<1>3. ASSUME NEW m, ChildOf(q, p, m), m # FirstChild(ast, p)
      PROVE  \E i : /\ ChildOf(q, p, i) /\ m = NextSibling(ast, i)
                    /\ Follows(ast[p].value, q[p].kw, q[i].at, q[m].at)
  <2>1. m \in Ids(ast) \ {1} /\ q[m].up = p
    BY <1>0, <1>3 DEF ChildOf
  <2>2. PICK i \in Ids(ast) : m = ast[i].first_child \/ m = ast[i].next_sibling
    BY <1>0, <2>1 DEF IsTree, NoOrphan
  <2>3. m # 0 /\ Len(ast) \in Nat /\ i # 0
    BY <2>1, Links, <1>0 DEF Ids
  <2>4. ASSUME m = ast[i].first_child PROVE FALSE
    <3>1. q[m].up = i
      BY <1>0, <2>3, <2>4 DEF Wired, NO_NODE
    <3>. QED  BY <1>2, <1>3, <2>1, <2>4, <3>1 DEF FirstChild
  <2>5. m = ast[i].next_sibling /\ m = NextSibling(ast, i)
    BY <2>2, <2>3, <2>4 DEF NextSibling, NO_NODE
  <2>6. q[i].up = p /\ Follows(ast[p].value, q[p].kw, q[i].at, q[m].at)
    BY <1>0, <2>1, <2>3, <2>5 DEF Wired, NO_NODE
  <2>7. i # 1
    BY <1>0, <1>2, <2>6 DEF Wired, Ids
  <2>8. Fits(ast[p].value, q[p].kw, q[i].at, Symbol(i))
    <3>1. Fits(ast[p].value, q[p].kw, q[i].at, SymbolOf(ast, tokens, i))
      BY <1>0, <2>6, <2>7 DEF Wired
    <3>2. SymbolOf(ast, tokens, i) = Symbol(i)
      BY <2>2 DEF SymbolOf, Symbol, IsToken, Ids
    <3>. QED  BY <3>1, <3>2
  <2>9. ChildOf(q, p, i)
    BY <1>0, <2>6, <2>7, <2>8 DEF ChildOf
  <2>. QED  BY <2>5, <2>6, <2>9
<1>4. CASE p = 1
  <2>1. PICK i : ChildOf(q, p, i) /\ u = NextSibling(ast, i)
    BY <1>2, <1>3, <1>4
  <2>2. ast[p].value = "PROGRAM"
    BY <1>0, <1>4 DEF Wired
  <2>3. Symbol(i) = "STATEMENT"
    BY <2>1, <2>2 DEF ChildOf, Fits
  <2>4. Gram(ast, i, "STATEMENT") /\ i \in Ids(ast)
    BY <2>1, <2>3, ChildKind DEF GRAMMAR_TYPE
  <2>. QED  BY <2>1, <2>4
<1>5. CASE p # 1
  <2>1. Gram(ast, p, "STATEMENT") /\ q[p].kw \in {"IF", "WHILE"}
    <3>1. StatementBuilt(ast, q, tokens, u)
      BY StatementsBuilt
    <3>. QED  BY <1>0, <1>1, <1>5, <3>1 DEF StatementBuilt
  <2>2. ast[p].value = "STATEMENT" /\ q[p].kw \in STATEMENT_START_KEYWORDS
    BY <1>0, <2>1, KeywordsKnown
  <2>3. q[u].at = 4
    BY <1>2, <2>1, <2>2, StatementPlaces DEF ChildOf, STATEMENT_START_KEYWORDS
  <2>4. ASSUME NEW m, ChildOf(q, p, m), q[m].at # 1
        PROVE  \E i : /\ ChildOf(q, p, i) /\ m = NextSibling(ast, i)
                      /\ Follows("STATEMENT", q[p].kw, q[i].at, q[m].at)
    <3>1. FirstChild(ast, p) # 0 => q[FirstChild(ast, p)].at = 1
      BY <1>0, <1>2, <2>2, WiredChildren DEF Begins
    <3>2. m # 0
      BY <2>4, Links, <1>0 DEF ChildOf, Ids
    <3>. QED  BY <1>3, <2>2, <2>4, <3>1, <3>2
  <2>5. PICK i : ChildOf(q, p, i) /\ u = NextSibling(ast, i) /\ Follows("STATEMENT", q[p].kw, q[i].at, 4)
    BY <1>2, <2>3, <2>4
  <2>6. CASE q[i].at = 4
    <3>1. Symbol(i) = "STATEMENT"
      BY <2>1, <2>2, <2>5, <2>6, StatementPlaces DEF ChildOf, STATEMENT_START_KEYWORDS
    <3>2. Gram(ast, i, "STATEMENT") /\ i \in Ids(ast)
      BY <2>5, <3>1, ChildKind DEF GRAMMAR_TYPE
    <3>. QED  BY <2>5, <3>2
  <2>7. CASE q[i].at # 4
    <3>1. q[i].at \in 1 .. 5 /\ q[i].at = 3
      <4>1. q[i].at \in 1 .. 5
        BY <2>1, <2>2, <2>5, StatementPlaces DEF ChildOf, STATEMENT_START_KEYWORDS
      <4>. QED  BY <2>2, <2>5, <2>7, <4>1, StatementOrder
    <3>2. PICK j : ChildOf(q, p, j) /\ i = NextSibling(ast, j) /\ Follows("STATEMENT", q[p].kw, q[j].at, 3)
      BY <2>4, <2>5, <3>1
    <3>3. q[j].at = 2
      <4>1. q[j].at \in 1 .. 5
        BY <2>1, <2>2, <3>2, StatementPlaces DEF ChildOf, STATEMENT_START_KEYWORDS
      <4>. QED  BY <2>2, <3>2, <4>1, StatementOrder
    <3>4. PICK k : ChildOf(q, p, k) /\ j = NextSibling(ast, k) /\ Follows("STATEMENT", q[p].kw, q[k].at, 2)
      BY <2>4, <3>2, <3>3
    <3>5. q[k].at = 1
      <4>1. q[k].at \in 1 .. 5
        BY <2>1, <2>2, <3>4, StatementPlaces DEF ChildOf, STATEMENT_START_KEYWORDS
      <4>. QED  BY <2>2, <3>4, <4>1, StatementOrder
    <3>6. k = FirstChild(ast, p)
      <4>1. Tok(ast, tokens, k, {q[p].kw})
        BY <2>1, <3>4, <3>5, StatementChild
      <4>2. Tok(ast, tokens, k, STATEMENT_START_KEYWORDS)
        BY <2>2, <4>1 DEF Tok
      <4>. QED  BY <3>4, <4>2, KeywordFirst DEF ChildOf
    <3>. QED  BY <1>2, <2>1, <2>5, <3>2, <3>4, <3>6
  <2>. QED  BY <2>6, <2>7
<1>. QED  BY <1>4, <1>5
=============================================================================
