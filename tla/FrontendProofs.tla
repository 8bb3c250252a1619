--------------------------- MODULE FrontendProofs ---------------------------
(***************************************************************************)
(* That the name tables hold what the text declares, that the statement    *)
(* stack is right at every node of both traversals, that the analyzer      *)
(* stops early only after a grammar error, and that it accepts a program   *)
(* exactly when the program is meaningful, for every program.              *)
(*                                                                         *)
(* Parsed is the invariant of ParserProofs, read here through the instance *)
(* PP: the parser that Frontend runs is the one proved about there, which  *)
(* the Same lemmas say definition by definition.  ParserLeaves turns it    *)
(* into what the traversals need to know of the finished tree.  FInv is    *)
(* the invariant of the passes: a traversal calls the callbacks of the     *)
(* nodes in the order of their numbers, so that Reach(path, move, end) is  *)
(* the last node seen, and the tables are those of the nodes up to it.     *)
(*                                                                         *)
(* MInv relates this to the text, which has no tree.  AncestorsRight       *)
(* says that the nodes above a name include the last statement begun       *)
(* before it and no later one, so that the stack's top and a table's       *)
(* parent are that statement.  VerdictInv: nothing has been reported       *)
(* exactly when nothing is wrong at the tokens seen.                       *)
(***************************************************************************)
EXTENDS Frontend, SequenceTheorems, WellFoundedInduction, TLAPS

PP == INSTANCE ParserProofs WITH Inputs <- {program.tokens : program \in Programs}

LEMMA InputsRight == {program.tokens : program \in Programs} \subseteq Seq(PP!TOKEN)
<1>1. PP!TOKEN = P!TOKEN
  BY Zenon DEF PP!TOKEN, P!TOKEN, PP!STATEMENT_START_KEYWORDS, P!STATEMENT_START_KEYWORDS,
         PP!CONTROL_FLOW_TOKENS, P!CONTROL_FLOW_TOKENS, PP!COMPARISON_OPS, P!COMPARISON_OPS,
         PP!SIGNS, P!SIGNS
<1>. QED  BY <1>1, FrontendAssumption

-----------------------------------------------------------------------------
LEMMA SameTree ==
  /\ \A a, p, n : PP!AddToken(a, p, n) = P!AddToken(a, p, n)
  /\ \A a, p, n : PP!AddGrammar(a, p, n) = P!AddGrammar(a, p, n)
  /\ \A g : PP!GrammarNode(g) = P!GrammarNode(g)
<1>0. PP!NO_NODE = P!NO_NODE
  BY Zenon DEF PP!NO_NODE, P!NO_NODE
<1>1. \A t, p, i : PP!LinkLast(t, p, i) = P!LinkLast(t, p, i)
  BY Zenon DEF PP!LinkLast, P!LinkLast, PP!NO_NODE, P!NO_NODE
<1>2. \A n : PP!TokenNode(n) = P!TokenNode(n) /\ PP!GrammarNode(n) = P!GrammarNode(n)
  BY <1>0, Zenon DEF PP!TokenNode, P!TokenNode, PP!GrammarNode, P!GrammarNode
<1>3. \A a, p, n : PP!AddChild(a, p, n) = P!AddChild(a, p, n)
  BY <1>1, Zenon DEF PP!AddChild, P!AddChild
<1>. QED  BY <1>2, <1>3, Zenon DEF PP!AddToken, P!AddToken, PP!AddGrammar, P!AddGrammar

LEMMA SameParts ==
  /\ PP!Top = P!Top /\ PP!Below = P!Below /\ (PP!Done <=> P!Done) /\ (PP!Running <=> P!Running)
  /\ \A fn : PP!In(fn) <=> P!In(fn)
  /\ \A fn, place : PP!At(fn, place) <=> P!At(fn, place)
  /\ \A types : PP!Expect(types) <=> P!Expect(types)
  /\ PP!WithToken = P!WithToken
  /\ \A r : PP!Return(r) <=> P!Return(r)
  /\ \A r : PP!Resume(r) = P!Resume(r)
  /\ \A fn, node, kw : PP!Frame(fn, node, kw) = P!Frame(fn, node, kw)
<1>1. PP!Top = P!Top /\ PP!Below = P!Below /\ (PP!Done <=> P!Done) /\ (PP!Running <=> P!Running)
  BY Zenon DEF PP!Top, P!Top, PP!Below, P!Below, PP!Done, P!Done, PP!Running, P!Running
<1>2. \A fn : PP!In(fn) <=> P!In(fn)
  BY <1>1, Zenon DEF PP!In, P!In
<1>3. \A fn, place : PP!At(fn, place) <=> P!At(fn, place)
  BY <1>1, <1>2, Zenon DEF PP!At, P!At
<1>4. \A types : PP!Expect(types) <=> P!Expect(types)
  BY <1>1, Zenon DEF PP!Expect, P!Expect
<1>5. PP!WithToken = P!WithToken
  BY <1>1, SameTree, Zenon DEF PP!WithToken, P!WithToken
<1>6. \A r : PP!Return(r) <=> P!Return(r)
  BY <1>1, Zenon DEF PP!Return, P!Return
<1>7. \A r : PP!Resume(r) = P!Resume(r)
  BY <1>1, Zenon DEF PP!Resume, P!Resume
<1>8. \A fn, node, kw : PP!Frame(fn, node, kw) = P!Frame(fn, node, kw)
  BY Zenon DEF PP!Frame, P!Frame
<1>. QED  BY <1>1, <1>2, <1>3, <1>4, <1>5, <1>6, <1>7, <1>8, Zenon

LEMMA SameCall ==
  \A fn, place, tree, pos : PP!Call(fn, place, tree, pos) <=> P!Call(fn, place, tree, pos)
BY SameTree, SameParts, Zenon DEF PP!Call, P!Call

LEMMA SameForms ==
  /\ PP!STATEMENT_START_KEYWORDS = P!STATEMENT_START_KEYWORDS
  /\ PP!CONTROL_FLOW_TOKENS = P!CONTROL_FLOW_TOKENS
  /\ PP!COMPARISON_OPS = P!COMPARISON_OPS
  /\ PP!SIGNS = P!SIGNS
  /\ PP!InForm <=> P!InForm
  /\ PP!Item = P!Item
  /\ \A kw : PP!Form(kw) = P!Form(kw)
  /\ PP!Here = P!Here
<1>1. /\ PP!STATEMENT_START_KEYWORDS = P!STATEMENT_START_KEYWORDS
      /\ PP!CONTROL_FLOW_TOKENS = P!CONTROL_FLOW_TOKENS
      /\ PP!COMPARISON_OPS = P!COMPARISON_OPS
      /\ PP!SIGNS = P!SIGNS
  BY Zenon DEF PP!STATEMENT_START_KEYWORDS, P!STATEMENT_START_KEYWORDS,
         PP!CONTROL_FLOW_TOKENS, P!CONTROL_FLOW_TOKENS, PP!COMPARISON_OPS, P!COMPARISON_OPS,
         PP!SIGNS, P!SIGNS
<1>4. ASSUME NEW kw PROVE PP!Form(kw) = P!Form(kw)
  BY Zenon DEF PP!Form, P!Form, PP!Token, P!Token, PP!Part, P!Part, PP!TokenOr, P!TokenOr,
     PP!Ident, P!Ident
<1>5. PP!InForm <=> P!InForm
  BY <1>4, SameParts, Zenon DEF PP!InForm, P!InForm
<1>6. PP!Item = P!Item
  BY <1>4, SameParts, Zenon DEF PP!Item, P!Item
<1>7. PP!Here = P!Here
  BY SameParts, Zenon DEF PP!Here, P!Here, PP!FILE_START, P!FILE_START
<1>. QED  BY <1>1, <1>4, <1>5, <1>6, <1>7, Zenon

LEMMA SameRecover == PP!Recover <=> P!Recover
<1>1. PP!Recovered = P!Recovered
  BY SameForms, Zenon DEF PP!Recovered, P!Recovered
<1>. QED  BY <1>1, Zenon DEF PP!Recover, P!Recover

LEMMA SameExpressions ==
  /\ P!ParsePrimary => PP!ParsePrimary
  /\ P!ParseUnary => PP!ParseUnary
  /\ P!ParseTerm => PP!ParseTerm
  /\ P!ParseExpression => PP!ParseExpression
  /\ P!ParseComparison => PP!ParseComparison
<1>1. P!ParsePrimary => PP!ParsePrimary
  BY SameParts, Zenon DEF P!ParsePrimary, PP!ParsePrimary
<1>2. P!ParseUnary => PP!ParseUnary
  BY SameParts, SameCall, SameForms, Zenon DEF P!ParseUnary, PP!ParseUnary
<1>3. \A fn, operand, operators :
        P!ParseChain(fn, operand, operators) => PP!ParseChain(fn, operand, operators)
  BY SameParts, SameCall, Zenon DEF P!ParseChain, PP!ParseChain
<1>4. P!ParseTerm => PP!ParseTerm
  BY <1>3, Zenon DEF P!ParseTerm, PP!ParseTerm
<1>5. P!ParseExpression => PP!ParseExpression
  BY <1>3, SameForms, Zenon DEF P!ParseExpression, PP!ParseExpression
<1>6. P!ParseComparison => PP!ParseComparison
  BY SameParts, SameCall, SameForms, Zenon DEF P!ParseComparison, PP!ParseComparison
<1>. QED  BY <1>1, <1>2, <1>4, <1>5, <1>6, Zenon

LEMMA SameStatements ==
  /\ P!StatementToken => PP!StatementToken
  /\ P!StatementCall => PP!StatementCall
  /\ P!StatementBlock => PP!StatementBlock
  /\ P!StatementResume => PP!StatementResume
  /\ P!StatementFail => PP!StatementFail
  /\ P!StatementEnd => PP!StatementEnd
<1>1. P!StatementToken => PP!StatementToken
  BY SameParts, SameForms, Zenon DEF P!StatementToken, PP!StatementToken
<1>2. P!StatementCall => PP!StatementCall
  BY SameParts, SameForms, SameCall, Zenon DEF P!StatementCall, PP!StatementCall
<1>3. P!StatementBlock => PP!StatementBlock
  BY SameParts, SameForms, Zenon DEF P!StatementBlock, PP!StatementBlock
<1>4. P!StatementResume => PP!StatementResume
  BY SameParts, SameForms, Zenon DEF P!StatementResume, PP!StatementResume
<1>5. P!StatementFail => PP!StatementFail
  BY SameParts, SameForms, Zenon DEF P!StatementFail, PP!StatementFail
<1>6. P!StatementEnd => PP!StatementEnd
  BY SameParts, SameForms, Zenon DEF P!StatementEnd, PP!StatementEnd
<1>. QED  BY <1>1, <1>2, <1>3, <1>4, <1>5, <1>6, Zenon

LEMMA SameLoops ==
  /\ P!StarReturn => PP!StarReturn
  /\ P!StarUnknown => PP!StarUnknown
  /\ P!StarStatement => PP!StarStatement
  /\ P!StarRecover => PP!StarRecover
<1>1. /\ PP!InLoop <=> P!InLoop
      /\ PP!AtLoop <=> P!AtLoop
      /\ PP!AtBlockEnd <=> P!AtBlockEnd
  BY SameParts, SameForms, Zenon DEF PP!InLoop, P!InLoop, PP!AtLoop, P!AtLoop,
     PP!AtBlockEnd, P!AtBlockEnd
<1>2. P!StarReturn => PP!StarReturn
  BY <1>1, SameParts, Zenon DEF P!StarReturn, PP!StarReturn
<1>3. P!StarUnknown => PP!StarUnknown
  BY <1>1, SameParts, SameForms, SameRecover, Zenon DEF P!StarUnknown, PP!StarUnknown
<1>4. P!StarStatement => PP!StarStatement
  BY <1>1, SameParts, SameForms, SameTree, Zenon DEF P!StarStatement, PP!StarStatement
<1>5. P!StarRecover => PP!StarRecover
  BY <1>1, SameParts, SameRecover, Zenon DEF P!StarRecover, PP!StarRecover
<1>. QED  BY <1>2, <1>3, <1>4, <1>5, Zenon

\* A step of the parser here is a step of the parser there.
LEMMA SameNext == P!Next /\ stack # <<>> => PP!Next
<1>1. P!Finished => stack = <<>>
  BY Zenon DEF P!Finished
<1>. QED  BY <1>1, SameExpressions, SameStatements, SameLoops, Zenon DEF P!Next, PP!Next

LEMMA SameInit == Init => PP!Init
<1>1. P!Start => PP!Start
  BY SameTree, SameParts, Zenon DEF P!Start, PP!Start, P!Head_, PP!Head_
<1>. QED  BY <1>1, Zenon DEF Init, PP!Init

Parsed == PP!PInv /\ PP!RInv /\ PP!OInv /\ PP!NodesInv

LEMMA InitParsed == Init => Parsed
BY SameInit, InputsRight, PP!InitPInv, PP!InitRInv, PP!InitOInv, PP!InitNodesInv,
   Zenon DEF Parsed

LEMMA StepParsed == Parsed /\ [Next]_vars => Parsed'
<1>. SUFFICES ASSUME Parsed, [Next]_vars PROVE Parsed'
  OBVIOUS
<1>1. [PP!Next]_(PP!vars)
  <2>1. CASE Parse
    BY <2>1, SameNext, Zenon DEF Parse
  <2>2. CASE UNCHANGED <<tokens, ast, parserVars>>
    BY <2>2, Zenon DEF PP!vars, parserVars
  <2>3. StartCollect \/ CollectNode \/ StartCheck \/ CheckNode \/ EndCheck \/ Finished \/ UNCHANGED vars
        => UNCHANGED <<tokens, ast, parserVars>>
    BY Zenon DEF StartCollect, CollectNode, StartCheck, CheckNode, EndCheck, Finished, vars
  <2>. QED  BY <2>1, <2>2, <2>3, Zenon DEF Next
<1>. QED  BY <1>1, InputsRight, PP!StepPInv, PP!StepRInv, PP!StepOInv, PP!StepNodesInv,
     Zenon DEF Parsed

-----------------------------------------------------------------------------
(***************************************************************************)
(* The tree that the parser leaves, as the traversals see it.              *)
(***************************************************************************)
Nodes == 1 .. Len(ast)

\* end[n] is the last node below n, par[n] the parent of n.
Visits(end, par) ==
  /\ end \in [Nodes -> Nat] /\ par \in [Nodes -> Nat]
  /\ end[Head_] = Len(ast)
  /\ \A n \in Nodes :
       /\ ast[n].first_child = NO_NODE => end[n] = n
       /\ ast[n].first_child # NO_NODE =>
            /\ ast[n].type = "GRAMMAR"
            /\ ast[n].first_child = n + 1 /\ n + 1 \in Nodes /\ par[n + 1] = n
       /\ ast[n].next_sibling # NO_NODE =>
            /\ ast[n].next_sibling = end[n] + 1 /\ ast[n].next_sibling \in n + 1 .. Len(ast)
            /\ par[ast[n].next_sibling] = par[n]
       /\ ast[n].next_sibling = NO_NODE /\ n # Head_ =>
            par[n] \in Nodes /\ par[n] < n /\ end[par[n]] = end[n]

\* The tokens of the tree are those of the input that were not skipped, in
\* order, and no statement keyword was.
TokensRight ==
  /\ tokens \in Seq(P!TOKEN)
  /\ \A n \in Nodes : ast[n].type \in {"TOKEN", "GRAMMAR"}
  /\ \A n \in Nodes : ast[n].type = "TOKEN" => ast[n].value \in Places \ skipped
  /\ \A p \in Places \ skipped : \E n \in Nodes : ast[n].type = "TOKEN" /\ ast[n].value = p
  /\ \A m, n \in Nodes :
       ast[m].type = "TOKEN" /\ ast[n].type = "TOKEN" /\ m < n => ast[m].value < ast[n].value
  /\ \A p \in skipped : tokens[p] \notin P!STATEMENT_START_KEYWORDS

NAMERS == {"LET", "LABEL", "GOTO", "INPUT"}

IdentFollows(n) ==
  /\ ast[n].next_sibling # NO_NODE
  /\ IsToken(ast, ast[n].next_sibling)
  /\ TokenAt(ast[n].next_sibling) = "IDENT"

\* A token that a name should follow has it as its next sibling, or the parser
\* has reported an error and there is no name.
NamesRight ==
  \A n \in Nodes : ast[n].type = "TOKEN" /\ TokenAt(n) \in NAMERS =>
    \/ /\ IdentFollows(n)
       /\ ast[ast[n].next_sibling].value = ast[n].value + 1
    \/ /\ errors # <<>>
       /\ ast[n].next_sibling = NO_NODE
       /\ ast[n].value + 1 \in Places => tokens[ast[n].value + 1] # "IDENT"

After ==
  /\ Len(ast) \in Nat \ {0}
  /\ \E end, par : Visits(end, par)
  /\ TokensRight
  /\ NamesRight

LEMMA ParserLeaves == Parsed /\ stack = <<>> => After
<1>. SUFFICES ASSUME Parsed, stack = <<>> PROVE After
  OBVIOUS
<1>1. PP!Ended
  BY InputsRight, PP!ParserEnds DEF Parsed
<1>2. PP!PInv /\ PP!RInv
  BY DEF Parsed
<1>3. Len(ast) \in Nat \ {0} /\ Len(tokens) \in Nat /\ PP!NO_NODE = 0 /\ NO_NODE = 0
      /\ PP!Head_ = 1 /\ Head_ = 1
      /\ PP!Ids(ast) = 1 .. Len(ast) /\ Nodes = 1 .. Len(ast)
  BY <1>2 DEF PP!PInv, PP!TreeInv, PP!NO_NODE, NO_NODE, PP!Head_, Head_, PP!Ids, Nodes
<1>4. PP!ValuesOK(ast, Len(tokens)) /\ PP!IsTree(ast)
      /\ PP!Consumed(ast, position, skipped) /\ position = Len(tokens) + 1
  BY <1>1, <1>2 DEF PP!PInv, PP!TreeInv, PP!Ended
<1>5. \E end, par : Visits(end, par)
  <2>1. PICK end, par : PP!Numbered(ast, end, par)
    BY <1>1 DEF PP!Ended
  <2>2. /\ end \in [Nodes -> Nat] /\ par \in [Nodes -> Nat] /\ end[1] = Len(ast)
        /\ \A n \in Nodes :
             /\ ast[n].first_child = 0 => end[n] = n
             /\ ast[n].first_child # 0 => ast[n].first_child = n + 1 /\ par[n + 1] = n
             /\ ast[n].last_child # 0 =>
                  end[ast[n].last_child] = end[n] /\ par[ast[n].last_child] = n
             /\ ast[n].next_sibling # 0 =>
                  ast[n].next_sibling = end[n] + 1 /\ par[ast[n].next_sibling] = par[n]
             /\ ast[n].next_sibling = 0 /\ n # 1 =>
                  par[n] \in Nodes /\ ast[par[n]].last_child = n
    BY <1>3, <2>1 DEF PP!Numbered
  <2>3. \A n \in Nodes :
          /\ ast[n].first_child \in {0} \cup (n + 1 .. Len(ast))
          /\ ast[n].last_child \in {0} \cup (n + 1 .. Len(ast))
          /\ ast[n].next_sibling \in {0} \cup (n + 1 .. Len(ast))
          /\ ast[n].type = "TOKEN" => ast[n].first_child = 0
    BY <1>3, <1>4 DEF PP!IsTree, PP!LinksForward, PP!EndsMeet
  <2>4. \A n \in Nodes : ast[n].type \in {"TOKEN", "GRAMMAR"}
    BY <1>3, <1>4 DEF PP!ValuesOK
  <2>5. ASSUME NEW n \in Nodes
        PROVE  /\ ast[n].first_child = 0 => end[n] = n
               /\ ast[n].first_child # 0 =>
                    /\ ast[n].type = "GRAMMAR"
                    /\ ast[n].first_child = n + 1 /\ n + 1 \in Nodes /\ par[n + 1] = n
               /\ ast[n].next_sibling # 0 =>
                    /\ ast[n].next_sibling = end[n] + 1 /\ ast[n].next_sibling \in n + 1 .. Len(ast)
                    /\ par[ast[n].next_sibling] = par[n]
    BY <1>3, <2>2, <2>3, <2>4
  <2>6. ASSUME NEW n \in Nodes, ast[n].next_sibling = 0, n # 1
        PROVE  par[n] \in Nodes /\ par[n] < n /\ end[par[n]] = end[n]
    <3>1. PICK m : m = par[n]
      OBVIOUS
    <3>2. m \in Nodes /\ ast[m].last_child = n
      BY <2>2, <2>6, <3>1
    <3>3. n # 0 /\ n \in Nat /\ Len(ast) \in Nat /\ m \in Nat
      BY <1>3, <3>2
    <3>4. m < n
      BY <1>3, <2>3, <3>2, <3>3
    <3>5. end[n] = end[m]
      BY <2>2, <3>2, <3>3
    <3>. QED  BY <3>1, <3>2, <3>4, <3>5
  <2>7. /\ end \in [Nodes -> Nat] /\ par \in [Nodes -> Nat]
        /\ end[Head_] = Len(ast)
    BY <1>3, <2>2
  <2>8. Visits(end, par)
    <3>. SUFFICES ASSUME NEW n \in Nodes
                  PROVE  /\ ast[n].first_child = NO_NODE => end[n] = n
                         /\ ast[n].first_child # NO_NODE =>
                              /\ ast[n].type = "GRAMMAR"
                              /\ ast[n].first_child = n + 1 /\ n + 1 \in Nodes /\ par[n + 1] = n
                         /\ ast[n].next_sibling # NO_NODE =>
                              /\ ast[n].next_sibling = end[n] + 1
                              /\ ast[n].next_sibling \in n + 1 .. Len(ast)
                              /\ par[ast[n].next_sibling] = par[n]
                         /\ ast[n].next_sibling = NO_NODE /\ n # Head_ =>
                              par[n] \in Nodes /\ par[n] < n /\ end[par[n]] = end[n]
      BY <2>7, Zenon DEF Visits
    <3>1. NO_NODE = 0 /\ Head_ = 1
      BY <1>3
    <3>. QED  BY <2>5, <2>6, <3>1, Zenon
  <2>. QED  BY <2>8
<1>6. TokensRight
  <2>1. tokens \in Seq(P!TOKEN)
    <3>1. PP!TOKEN = P!TOKEN
      BY Zenon DEF PP!TOKEN, P!TOKEN, PP!STATEMENT_START_KEYWORDS, P!STATEMENT_START_KEYWORDS,
             PP!CONTROL_FLOW_TOKENS, P!CONTROL_FLOW_TOKENS, PP!COMPARISON_OPS, P!COMPARISON_OPS,
             PP!SIGNS, P!SIGNS
    <3>. QED  BY <1>2, <3>1 DEF PP!PInv
  <2>2. \A n \in Nodes : ast[n].type \in {"TOKEN", "GRAMMAR"}
    BY <1>3, <1>4 DEF PP!ValuesOK
  <2>3. (1 .. position - 1) \ skipped = Places \ skipped
    BY <1>3, <1>4 DEF Places
  <2>4. PP!Tokens(ast) = {n \in Nodes : ast[n].type = "TOKEN"}
    BY <1>3 DEF PP!Tokens
  <2>5. /\ \A n \in PP!Tokens(ast) : ast[n].value \in Places \ skipped
        /\ \A v \in Places \ skipped : \E n \in PP!Tokens(ast) : ast[n].value = v
        /\ \A m, n \in PP!Tokens(ast) : m < n => ast[m].value < ast[n].value
    BY <1>4, <2>3 DEF PP!Consumed
  <2>6. \A p \in skipped : tokens[p] \notin P!STATEMENT_START_KEYWORDS
    BY <1>2, SameForms DEF PP!RInv, PP!SkipsInv
  <2>. QED  BY <2>1, <2>2, <2>4, <2>5, <2>6 DEF TokensRight
<1>7. NamesRight
  <2>. SUFFICES ASSUME NEW n \in Nodes, ast[n].type = "TOKEN", TokenAt(n) \in NAMERS
                PROVE  \/ /\ IdentFollows(n)
                          /\ ast[ast[n].next_sibling].value = ast[n].value + 1
                       \/ /\ errors # <<>>
                          /\ ast[n].next_sibling = NO_NODE
                          /\ ast[n].value + 1 \in Places => tokens[ast[n].value + 1] # "IDENT"
    BY DEF NamesRight
  <2>1. PP!Namer(ast, n)
    BY DEF PP!Namer, TokenAt, NAMERS, PP!NAMERS
  <2>2. \/ PP!Named(ast, n)
        \/ /\ errors # <<>>
           /\ ast[n].next_sibling = PP!NO_NODE
           /\ ast[n].value + 1 \in 1 .. Len(tokens) => tokens[ast[n].value + 1] # "IDENT"
    BY <1>1, <1>3, <2>1 DEF PP!Ended
  <2>3. PP!Named(ast, n) => IdentFollows(n) /\ ast[ast[n].next_sibling].value = ast[n].value + 1
    BY <1>3 DEF PP!Named, PP!IsToken, IdentFollows, IsToken, TokenAt
  <2>. QED  BY <1>3, <2>2, <2>3 DEF Places
<1>. QED  BY <1>3, <1>5, <1>6, <1>7 DEF After

-----------------------------------------------------------------------------
(***************************************************************************)
(* A traversal visits the nodes in the order of their numbers, and its     *)
(* stack holds the statements around the node it is at.                    *)
(***************************************************************************)
ChainOf(p, par) ==
  /\ p \in Seq(Nodes)
  /\ p # <<>> => p[1] = Head_
  /\ \A d \in 2 .. Len(p) : par[p[d]] = p[d - 1]
  /\ \A d, e \in 1 .. Len(p) : d < e => p[d] < p[e]

\* The nodes of a path that have been entered.
EnteredOf(p, m) == {p[d] : d \in 1 .. IF m = "enter" THEN Len(p) - 1 ELSE Len(p)}

StatementsIn(stk, entered) ==
  /\ stk \in Seq(Nodes)
  /\ {stk[d] : d \in 1 .. Len(stk)} = {n \in entered : IsGrammar(ast, n) /\ IsStatement(n)}
  /\ \A d, e \in 1 .. Len(stk) : d < e => stk[d] < stk[e]

Sound(p, m, stk, par) ==
  /\ ChainOf(p, par)
  /\ StatementsIn(stk, EnteredOf(p, m))
  /\ p = <<>> => m = "none"
  /\ p # <<>> => m \in {"enter", "leave"}

\* The last node whose callback has been called.
Reach(p, m, end) ==
  IF p = <<>> THEN Len(ast)
  ELSE IF m = "enter" THEN p[Len(p)] - 1 ELSE end[p[Len(p)]]

TreeFacts(end, par) == Len(ast) \in Nat \ {0} /\ TokensRight /\ Visits(end, par)

LEMMA StatementPushed ==
  ASSUME NEW stk, NEW E, E \subseteq Nodes, NEW c \in Nodes, \A n \in E : n < c,
         Len(ast) \in Nat, StatementsIn(stk, E)
  PROVE  /\ IsGrammar(ast, c) /\ IsStatement(c) => StatementsIn(Append(stk, c), E \cup {c})
         /\ ~ (IsGrammar(ast, c) /\ IsStatement(c)) => StatementsIn(stk, E \cup {c})
<1>1. CASE ~ (IsGrammar(ast, c) /\ IsStatement(c))
  <2>1. {n \in E \cup {c} : IsGrammar(ast, n) /\ IsStatement(n)}
         = {n \in E : IsGrammar(ast, n) /\ IsStatement(n)}
    BY <1>1
  <2>. QED  BY <1>1, <2>1 DEF StatementsIn
<1>2. CASE IsGrammar(ast, c) /\ IsStatement(c)
  <2>1. PICK up, k : up = Append(stk, c) /\ k = Len(stk)
    OBVIOUS
  <2>2. /\ up \in Seq(Nodes) /\ k \in Nat /\ Len(up) = k + 1 /\ up[k + 1] = c
        /\ \A d \in 1 .. k : up[d] = stk[d]
        /\ \A d \in 1 .. k : stk[d] \in E
    BY <2>1 DEF StatementsIn
  <2>3. {up[d] : d \in 1 .. Len(up)} = {stk[d] : d \in 1 .. Len(stk)} \cup {c}
    <3>1. \A d \in 1 .. k + 1 : d = k + 1 \/ d \in 1 .. k
      BY <2>2
    <3>. QED  BY <2>1, <2>2, <3>1
  <2>4. {n \in E \cup {c} : IsGrammar(ast, n) /\ IsStatement(n)}
         = {n \in E : IsGrammar(ast, n) /\ IsStatement(n)} \cup {c}
    BY <1>2
  <2>5. ASSUME NEW d \in 1 .. Len(up), NEW e \in 1 .. Len(up), d < e
        PROVE  up[d] < up[e]
    <3>1. d \in 1 .. k
      BY <2>2, <2>5
    <3>2. CASE e \in 1 .. k
      BY <2>1, <2>2, <2>5, <3>1, <3>2 DEF StatementsIn
    <3>3. CASE e = k + 1
      BY <2>2, <3>1, <3>3
    <3>. QED  BY <2>2, <3>2, <3>3
  <2>. QED  BY <1>2, <2>1, <2>2, <2>3, <2>4, <2>5 DEF StatementsIn
<1>. QED  BY <1>1, <1>2

LEMMA StatementPopped ==
  ASSUME NEW stk, NEW E, E \subseteq Nodes, NEW c \in Nodes, \A n \in E : n < c,
         Len(ast) \in Nat, StatementsIn(stk, E \cup {c})
  PROVE  /\ IsGrammar(ast, c) /\ IsStatement(c) =>
              StatementsIn(SubSeq(stk, 1, Len(stk) - 1), E) /\ Len(stk) > 0 /\ stk[Len(stk)] = c
         /\ ~ (IsGrammar(ast, c) /\ IsStatement(c)) => StatementsIn(stk, E)
<1>1. CASE ~ (IsGrammar(ast, c) /\ IsStatement(c))
  <2>1. {n \in E \cup {c} : IsGrammar(ast, n) /\ IsStatement(n)}
         = {n \in E : IsGrammar(ast, n) /\ IsStatement(n)}
    BY <1>1
  <2>. QED  BY <1>1, <2>1 DEF StatementsIn
<1>2. CASE IsGrammar(ast, c) /\ IsStatement(c)
  <2>1. PICK k : k = Len(stk)
    OBVIOUS
  <2>2. /\ stk \in Seq(Nodes) /\ k \in Nat
        /\ \A d \in 1 .. k : stk[d] \in E \cup {c} /\ stk[d] \in Nat
        /\ \A d \in 1 .. k : IsGrammar(ast, stk[d]) /\ IsStatement(stk[d])
        /\ \A d, e \in 1 .. k : d < e => stk[d] < stk[e]
    BY <2>1 DEF StatementsIn, Nodes
  <2>3. PICK d \in 1 .. k : stk[d] = c
    BY <1>2, <2>1 DEF StatementsIn
  <2>4. d = k
    <3>1. CASE d # k
      <4>1. d < k /\ k \in 1 .. k
        BY <2>2, <2>3, <3>1
      <4>2. stk[d] < stk[k] /\ stk[k] \in E \cup {c} /\ c \in Nat
        BY <2>2, <2>3, <4>1
      <4>3. stk[k] <= c
        <5>1. CASE stk[k] = c
          BY <4>2, <5>1
        <5>2. CASE stk[k] # c
          <6>1. stk[k] \in E /\ stk[k] \in Nat
            BY <2>2, <4>1, <4>2, <5>2
          <6>. QED  BY <4>2, <6>1
        <5>. QED  BY <5>1, <5>2
      <4>. QED  BY <2>2, <2>3, <4>1, <4>2, <4>3
    <3>. QED  BY <3>1
  <2>5. PICK j, down : j = k - 1 /\ down = SubSeq(stk, 1, k - 1)
    OBVIOUS
  <2>6. j \in Nat /\ j \in Int /\ 1 \in Int /\ \A i \in 1 .. j : stk[i] \in Nodes /\ i \in 1 .. k
    BY <2>2, <2>3, <2>5
  <2>7. /\ down \in Seq(Nodes)
        /\ Len(down) = IF 1 <= j THEN j - 1 + 1 ELSE 0
        /\ \A i \in 1 .. j - 1 + 1 : down[i] = stk[1 + i - 1]
    BY <2>5, <2>6, SubSeqProperties
  <2>8. Len(down) = j
    BY <2>6, <2>7
  <2>9. \A i \in 1 .. j : down[i] = stk[i]
    BY <2>6, <2>7
  <2>10. {down[i] : i \in 1 .. Len(down)} = {n \in E : IsGrammar(ast, n) /\ IsStatement(n)}
    <3>1. ASSUME NEW i \in 1 .. j PROVE down[i] \in E /\ IsGrammar(ast, down[i]) /\ IsStatement(down[i])
      <4>1. i \in 1 .. k /\ k \in 1 .. k /\ i < k
        BY <2>2, <2>3, <2>5, <2>6
      <4>2. stk[i] < stk[k] /\ stk[i] \in E \cup {c} /\ stk[k] = c /\ c \in Nat /\ stk[i] \in Nat
        BY <2>2, <2>3, <2>4, <4>1
      <4>3. stk[i] # c
        BY <4>2
      <4>. QED  BY <2>2, <2>9, <4>1, <4>2, <4>3
    <3>2. ASSUME NEW n \in E, IsGrammar(ast, n), IsStatement(n)
          PROVE  \E i \in 1 .. j : down[i] = n
      <4>1. PICK i \in 1 .. k : stk[i] = n
        BY <2>1, <3>2 DEF StatementsIn
      <4>2. i # k
        <5>1. n < c /\ n \in Nat /\ c \in Nat
          BY <3>2 DEF Nodes
        <5>2. stk[k] = c
          BY <2>3, <2>4
        <5>3. n # c
          BY <5>1
        <5>. QED  BY <4>1, <5>2, <5>3
      <4>. QED  BY <2>2, <2>5, <2>9, <4>1, <4>2
    <3>. QED  BY <2>8, <3>1, <3>2
  <2>11. \A i, e \in 1 .. Len(down) : i < e => down[i] < down[e]
    BY <2>2, <2>6, <2>8, <2>9
  <2>12. StatementsIn(down, E)
    BY <2>7, <2>10, <2>11 DEF StatementsIn
  <2>. QED  BY <1>2, <2>1, <2>2, <2>3, <2>4, <2>5, <2>12
<1>. QED  BY <1>1, <1>2

\* The end of a path.
LEMMA PathEnd ==
  ASSUME NEW p, NEW par, ChainOf(p, par), p # <<>>, Len(ast) \in Nat,
         NEW up, up = SubSeq(p, 1, Len(p) - 1)
  PROVE  /\ Len(p) \in Nat \ {0} /\ p[Len(p)] \in Nodes
         /\ up \in Seq(Nodes) /\ Len(up) = Len(p) - 1
         /\ \A d \in 1 .. Len(up) : up[d] = p[d]
         /\ ChainOf(up, par)
         /\ \A m : \A x \in EnteredOf(p, m) : x \in Nodes
         /\ \A x \in EnteredOf(p, "enter") : x < p[Len(p)]
         /\ EnteredOf(p, "leave") = EnteredOf(p, "enter") \cup {p[Len(p)]}
         /\ EnteredOf(up, "leave") = EnteredOf(p, "enter")
<1>1. PICK k : k = Len(p)
  OBVIOUS
<1>2. /\ p \in Seq(Nodes) /\ k \in Nat \ {0} /\ \A d \in 1 .. k : p[d] \in Nodes
      /\ \A d, e \in 1 .. k : d < e => p[d] < p[e]
      /\ p[1] = Head_
      /\ \A d \in 2 .. k : par[p[d]] = p[d - 1]
  BY <1>1 DEF ChainOf
<1>3. /\ up \in Seq(Nodes) /\ Len(up) = k - 1 /\ \A d \in 1 .. k - 1 : up[d] = p[d]
  <2>1. PICK j : j = k - 1
    OBVIOUS
  <2>2. j \in Nat /\ j \in Int /\ 1 \in Int /\ \A i \in 1 .. j : p[i] \in Nodes
    BY <1>2, <2>1
  <2>3. /\ up \in Seq(Nodes)
        /\ Len(up) = IF 1 <= j THEN j - 1 + 1 ELSE 0
        /\ \A i \in 1 .. j - 1 + 1 : up[i] = p[1 + i - 1]
    BY <1>1, <2>1, <2>2, SubSeqProperties
  <2>4. Len(up) = j
    BY <2>2, <2>3
  <2>5. \A i \in 1 .. j : up[i] = p[i]
    BY <2>2, <2>3
  <2>. QED  BY <2>1, <2>3, <2>4, <2>5
<1>4. ChainOf(up, par)
  <2>1. up # <<>> => up[1] = Head_
    <3>1. up # <<>> => 1 \in 1 .. k - 1
      BY <1>2, <1>3
    <3>. QED  BY <1>2, <1>3, <3>1
  <2>2. \A d \in 2 .. Len(up) : par[up[d]] = up[d - 1]
    <3>1. \A d \in 2 .. k - 1 : d \in 2 .. k /\ d \in 1 .. k - 1 /\ d - 1 \in 1 .. k - 1
      BY <1>2
    <3>. QED  BY <1>2, <1>3, <3>1
  <2>3. \A d, e \in 1 .. Len(up) : d < e => up[d] < up[e]
    BY <1>2, <1>3
  <2>. QED  BY <1>3, <2>1, <2>2, <2>3 DEF ChainOf
<1>5. EnteredOf(p, "enter") = {p[d] : d \in 1 .. k - 1}
      /\ EnteredOf(p, "leave") = {p[d] : d \in 1 .. k}
      /\ EnteredOf(up, "leave") = {up[d] : d \in 1 .. k - 1}
  BY <1>1, <1>3 DEF EnteredOf
<1>6. \A m : \A x \in EnteredOf(p, m) : x \in Nodes
  <2>1. \A d \in 1 .. k - 1 : d \in 1 .. k
    BY <1>2
  <2>. QED  BY <1>1, <1>2, <2>1 DEF EnteredOf
<1>7. \A x \in EnteredOf(p, "enter") : x < p[k]
  <2>1. \A d \in 1 .. k - 1 : d \in 1 .. k /\ k \in 1 .. k /\ d < k
    BY <1>2
  <2>. QED  BY <1>2, <1>5, <2>1
<1>8. EnteredOf(p, "leave") = EnteredOf(p, "enter") \cup {p[k]}
  <2>1. \A d \in 1 .. k : d = k \/ d \in 1 .. k - 1
    BY <1>2
  <2>2. \A d \in 1 .. k - 1 : d \in 1 .. k
    BY <1>2
  <2>3. k \in 1 .. k
    BY <1>2
  <2>. QED  BY <1>5, <2>1, <2>2, <2>3
<1>9. EnteredOf(up, "leave") = EnteredOf(p, "enter")
  BY <1>3, <1>5
<1>10. k \in 1 .. k
  BY <1>2
<1>. QED  BY <1>1, <1>2, <1>3, <1>4, <1>6, <1>7, <1>8, <1>9, <1>10

\* A path goes on at a child, or from a sibling, of its last node.
LEMMA PathGrows ==
  ASSUME NEW p, NEW par, ChainOf(p, par), Len(ast) \in Nat, NEW x \in Nodes,
         p = <<>> => x = Head_, p # <<>> => par[x] = p[Len(p)] /\ p[Len(p)] < x,
         NEW q, q = Append(p, x)
  PROVE  /\ ChainOf(q, par) /\ q # <<>> /\ Len(q) = Len(p) + 1 /\ q[Len(q)] = x
         /\ EnteredOf(q, "enter") = EnteredOf(p, "leave")
<1>1. PICK k : k = Len(p)
  OBVIOUS
<1>2. /\ p \in Seq(Nodes) /\ k \in Nat /\ \A d \in 1 .. k : p[d] \in Nodes
      /\ \A d, e \in 1 .. k : d < e => p[d] < p[e]
      /\ p # <<>> => p[1] = Head_
      /\ \A d \in 2 .. k : par[p[d]] = p[d - 1]
  BY <1>1 DEF ChainOf
<1>3. /\ q \in Seq(Nodes) /\ Len(q) = k + 1 /\ q[k + 1] = x /\ \A d \in 1 .. k : q[d] = p[d]
      /\ q # <<>>
  BY <1>1, <1>2
<1>4. p = <<>> <=> k = 0
  BY <1>1, <1>2
<1>5. q[1] = Head_
  <2>1. CASE k = 0
    BY <1>3, <1>4, <2>1
  <2>2. CASE k # 0
    <3>1. 1 \in 1 .. k
      BY <1>2, <2>2
    <3>. QED  BY <1>2, <1>3, <1>4, <2>2, <3>1
  <2>. QED  BY <2>1, <2>2
<1>6. \A d \in 2 .. k + 1 : par[q[d]] = q[d - 1]
  <2>. SUFFICES ASSUME NEW d \in 2 .. k + 1 PROVE par[q[d]] = q[d - 1]
    OBVIOUS
  <2>1. CASE d = k + 1
    <3>1. d - 1 = k /\ k \in 1 .. k /\ k # 0
      BY <1>2, <2>1
    <3>. QED  BY <1>1, <1>3, <1>4, <2>1, <3>1
  <2>2. CASE d # k + 1
    <3>1. d \in 2 .. k /\ d \in 1 .. k /\ d - 1 \in 1 .. k
      BY <1>2, <2>2
    <3>. QED  BY <1>2, <1>3, <3>1
  <2>. QED  BY <2>1, <2>2
<1>7. \A d, e \in 1 .. k + 1 : d < e => q[d] < q[e]
  <2>. SUFFICES ASSUME NEW d \in 1 .. k + 1, NEW e \in 1 .. k + 1, d < e PROVE q[d] < q[e]
    OBVIOUS
  <2>1. CASE e = k + 1
    <3>1. d \in 1 .. k /\ k \in 1 .. k /\ k # 0
      BY <1>2, <2>1
    <3>2. p[k] < x /\ p[k] \in Nat /\ p[d] \in Nat /\ x \in Nat
      BY <1>1, <1>2, <1>4, <3>1 DEF Nodes
    <3>3. p[d] <= p[k]
      <4>1. d = k \/ d < k
        BY <1>2, <3>1
      <4>. QED  BY <1>2, <3>1, <3>2, <4>1
    <3>. QED  BY <1>3, <2>1, <3>1, <3>2, <3>3
  <2>2. CASE e # k + 1
    <3>1. d \in 1 .. k /\ e \in 1 .. k
      BY <1>2, <2>2
    <3>. QED  BY <1>2, <1>3, <3>1
  <2>. QED  BY <2>1, <2>2
<1>8. EnteredOf(q, "enter") = EnteredOf(p, "leave")
  <2>1. EnteredOf(q, "enter") = {q[d] : d \in 1 .. k}
    BY <1>2, <1>3 DEF EnteredOf
  <2>2. EnteredOf(p, "leave") = {p[d] : d \in 1 .. k}
    BY <1>1 DEF EnteredOf
  <2>3. \A d \in 1 .. k : q[d] = p[d]
    BY <1>3
  <2>4. {q[d] : d \in 1 .. k} = {p[d] : d \in 1 .. k}
    BY <2>3, Zenon
  <2>. QED  BY <2>1, <2>2, <2>4, Zenon
<1>. QED  BY <1>1, <1>3, <1>5, <1>6, <1>7, <1>8 DEF ChainOf

\* A step from node to node keeps the stack right.  Entering a node calls its
\* callback; leaving one calls none for a node that comes later.
LEMMA WalkSound ==
  ASSUME NEW end, NEW par, TreeFacts(end, par),
         Sound(path, move, statement_stack, par), path # <<>>, Walk
  PROVE  /\ Sound(path', move', statement_stack', par)
         /\ EnterGrammar => /\ Reach(path, move, end) = Current - 1
                            /\ Reach(path', move', end) = Current
         /\ LeaveNode => Reach(path', move', end) = Reach(path, move, end)
         /\ Current \in Nodes
<1>1. PICK p2, m2, s2 : p2 = path' /\ m2 = move' /\ s2 = statement_stack'
  OBVIOUS
<1>2. PICK c, k, up : c = Current /\ k = Len(path) /\ up = Above
  OBVIOUS
<1>3. /\ ChainOf(path, par)
      /\ StatementsIn(statement_stack, EnteredOf(path, move))
      /\ Len(ast) \in Nat /\ Len(ast) > 0
  BY DEF Sound, TreeFacts
<1>4. /\ k \in Nat \ {0} /\ c \in Nodes /\ c = path[k]
      /\ up \in Seq(Nodes) /\ Len(up) = k - 1
      /\ \A d \in 1 .. k - 1 : up[d] = path[d]
      /\ ChainOf(up, par)
      /\ \A x \in EnteredOf(path, "enter") : x < c
      /\ EnteredOf(path, "leave") = EnteredOf(path, "enter") \cup {c}
      /\ EnteredOf(up, "leave") = EnteredOf(path, "enter")
      /\ EnteredOf(path, "enter") \subseteq Nodes
  <2>1. up = SubSeq(path, 1, Len(path) - 1)
    BY <1>2 DEF Above
  <2>2. /\ Len(path) \in Nat \ {0} /\ path[Len(path)] \in Nodes
        /\ up \in Seq(Nodes) /\ Len(up) = Len(path) - 1
        /\ \A d \in 1 .. Len(up) : up[d] = path[d]
        /\ ChainOf(up, par)
        /\ \A m : \A x \in EnteredOf(path, m) : x \in Nodes
        /\ \A x \in EnteredOf(path, "enter") : x < path[Len(path)]
        /\ EnteredOf(path, "leave") = EnteredOf(path, "enter") \cup {path[Len(path)]}
        /\ EnteredOf(up, "leave") = EnteredOf(path, "enter")
    BY <1>3, <2>1, PathEnd
  <2>. QED  BY <1>2, <2>2 DEF Current
<1>5. /\ end[c] \in Nat /\ end[Head_] = Len(ast)
      /\ ast[c].first_child = NO_NODE => end[c] = c
      /\ ast[c].first_child # NO_NODE =>
           /\ ast[c].first_child = c + 1 /\ c + 1 \in Nodes /\ par[c + 1] = c
      /\ ast[c].next_sibling # NO_NODE =>
           /\ ast[c].next_sibling = end[c] + 1 /\ ast[c].next_sibling \in c + 1 .. Len(ast)
           /\ par[ast[c].next_sibling] = par[c]
      /\ ast[c].next_sibling = NO_NODE /\ c # Head_ => end[par[c]] = end[c]
  BY <1>4 DEF TreeFacts, Visits
<1>6. c \in Nat /\ NO_NODE = 0 /\ Head_ = 1
  BY <1>4 DEF Nodes, NO_NODE, Head_
<1>7. CASE EnterGrammar
  <2>1. /\ move = "enter" /\ IsGrammar(ast, c)
        /\ s2 = IF IsStatement(c) THEN Append(statement_stack, c) ELSE statement_stack
        /\ \/ FirstChild(ast, c) = NO_NODE /\ m2 = "leave" /\ p2 = path
           \/ /\ FirstChild(ast, c) # NO_NODE
              /\ p2 = Append(path, FirstChild(ast, c)) /\ m2 = "enter"
    BY <1>1, <1>2, <1>7 DEF EnterGrammar
  <2>2. StatementsIn(s2, EnteredOf(path, "leave"))
    <3>1. /\ \A n \in EnteredOf(path, "enter") : n < c
          /\ StatementsIn(statement_stack, EnteredOf(path, "enter"))
      BY <1>3, <1>4, <2>1
    <3>. QED  BY <1>3, <1>4, <2>1, <3>1, StatementPushed
  <2>3. Reach(path, move, end) = c - 1
    BY <1>2, <1>4, <2>1 DEF Reach
  <2>4. FirstChild(ast, c) = ast[c].first_child
    BY <2>1 DEF FirstChild
  <2>5. CASE FirstChild(ast, c) = NO_NODE
    <3>1. m2 = "leave" /\ p2 = path
      BY <2>1, <2>5
    <3>2. Sound(p2, m2, s2, par)
      BY <1>3, <2>2, <3>1 DEF Sound
    <3>3. Reach(p2, m2, end) = c
      BY <1>2, <1>4, <1>5, <2>4, <2>5, <3>1 DEF Reach
    <3>. QED  BY <1>1, <1>2, <1>4, <1>7, <2>1, <2>3, <3>2, <3>3 DEF LeaveNode
  <2>6. CASE FirstChild(ast, c) # NO_NODE
    <3>1. PICK x : x = c + 1
      OBVIOUS
    <3>2. /\ m2 = "enter" /\ p2 = Append(path, x)
          /\ x \in Nodes /\ par[x] = c /\ c < x
      BY <1>5, <1>6, <2>1, <2>4, <2>6, <3>1
    <3>3. /\ ChainOf(p2, par) /\ p2 # <<>> /\ Len(p2) = Len(path) + 1 /\ p2[Len(p2)] = x
          /\ EnteredOf(p2, "enter") = EnteredOf(path, "leave")
      <4>1. par[x] = path[Len(path)] /\ path[Len(path)] < x
        BY <1>2, <1>4, <3>2
      <4>2. path = <<>> => x = Head_
        OBVIOUS
      <4>3. path # <<>> => par[x] = path[Len(path)] /\ path[Len(path)] < x
        BY <4>1
      <4>4. Len(ast) \in Nat /\ x \in Nodes /\ p2 = Append(path, x)
        BY <1>3, <3>2
      <4>5. ChainOf(p2, par)
        BY <1>3, <4>2, <4>3, <4>4, PathGrows
      <4>6. EnteredOf(p2, "enter") = EnteredOf(path, "leave")
        BY <1>3, <4>2, <4>3, <4>4, PathGrows
      <4>7. p2 # <<>> /\ Len(p2) = Len(path) + 1 /\ p2[Len(p2)] = x
        BY <1>3, <4>4 DEF ChainOf
      <4>. QED  BY <4>5, <4>6, <4>7
    <3>4. Sound(p2, m2, s2, par)
      BY <2>2, <3>2, <3>3 DEF Sound
    <3>5. Reach(p2, m2, end) = c
      BY <1>6, <3>1, <3>2, <3>3 DEF Reach
    <3>. QED  BY <1>1, <1>2, <1>4, <1>7, <2>1, <2>3, <3>4, <3>5 DEF LeaveNode
  <2>. QED  BY <2>5, <2>6
<1>8. CASE LeaveNode
  <2>1. /\ move = "leave"
        /\ s2 = IF IsGrammar(ast, c) /\ IsStatement(c)
                  THEN SubSeq(statement_stack, 1, Len(statement_stack) - 1)
                  ELSE statement_stack
        /\ \/ k = 1 /\ p2 = <<>> /\ m2 = "none"
           \/ /\ k > 1 /\ NextSibling(ast, c) # NO_NODE
              /\ p2 = Append(up, NextSibling(ast, c)) /\ m2 = "enter"
           \/ k > 1 /\ NextSibling(ast, c) = NO_NODE /\ p2 = up /\ m2 = move
    BY <1>1, <1>2, <1>8 DEF LeaveNode, Popped
  <2>2. StatementsIn(s2, EnteredOf(path, "enter"))
    <3>1. StatementsIn(statement_stack, EnteredOf(path, "enter") \cup {c})
      BY <1>3, <1>4, <2>1
    <3>. QED  BY <1>3, <1>4, <2>1, <3>1, StatementPopped
  <2>3. Reach(path, move, end) = end[c]
    BY <1>2, <1>4, <2>1 DEF Reach
  <2>4. NextSibling(ast, c) = ast[c].next_sibling
    BY <1>4, <1>6 DEF NextSibling, Nodes
  <2>5. CASE k = 1
    <3>1. p2 = <<>> /\ m2 = "none"
      BY <2>1, <2>5
    <3>2. c = Head_
      BY <1>2, <1>3, <1>4, <2>5 DEF ChainOf
    <3>3. EnteredOf(path, "enter") = {}
      BY <1>2, <2>5 DEF EnteredOf
    <3>4. EnteredOf(p2, m2) = {}
      BY <3>1 DEF EnteredOf
    <3>5. ChainOf(p2, par)
      BY <3>1 DEF ChainOf
    <3>6. Sound(p2, m2, s2, par)
      BY <2>2, <3>1, <3>3, <3>4, <3>5 DEF Sound
    <3>7. Reach(p2, m2, end) = end[c]
      BY <1>5, <3>1, <3>2 DEF Reach
    <3>. QED  BY <1>1, <1>2, <1>4, <1>8, <2>1, <2>3, <3>6, <3>7 DEF EnterGrammar
  <2>6. CASE k > 1
    <3>1. /\ k - 1 \in 1 .. k - 1 /\ k \in 2 .. k /\ 1 \in 1 .. k /\ k \in 1 .. k
      BY <1>4, <2>6
    <3>2. /\ up # <<>> /\ up[Len(up)] = path[k - 1] /\ par[c] = path[k - 1]
          /\ path[1] = Head_ /\ path[1] < path[k] /\ path[k - 1] < path[k]
      <4>1. k - 1 < k /\ k - 1 \in 1 .. k /\ k - 1 \in 1 .. Len(up)
        BY <1>4, <2>6
      <4>2. path[k - 1] < path[k] /\ path[1] < path[k] /\ par[c] = path[k - 1]
        BY <1>2, <1>3, <1>4, <2>6, <3>1, <4>1 DEF ChainOf
      <4>3. path[1] = Head_
        BY <1>3 DEF ChainOf
      <4>4. up # <<>>
        BY <1>4, <4>1
      <4>. QED  BY <1>4, <3>1, <4>2, <4>3, <4>4
    <3>3. CASE NextSibling(ast, c) # NO_NODE
      <4>1. PICK x : x = NextSibling(ast, c)
        OBVIOUS
      <4>2. /\ x \in Nodes /\ x = end[c] + 1 /\ par[x] = par[c] /\ c < x
            /\ p2 = Append(up, x) /\ m2 = "enter"
        BY <1>3, <1>4, <1>5, <1>6, <2>1, <2>4, <2>6, <3>3, <4>1 DEF Nodes
      <4>3. up[Len(up)] < x
        <5>1. path[k - 1] \in Nat
          BY <1>2, <1>3, <1>4, <3>1 DEF ChainOf, Nodes
        <5>. QED  BY <1>4, <1>6, <3>2, <4>2, <5>1 DEF Nodes
      <4>4. /\ ChainOf(p2, par) /\ p2 # <<>> /\ Len(p2) = Len(up) + 1 /\ p2[Len(p2)] = x
            /\ EnteredOf(p2, "enter") = EnteredOf(up, "leave")
        <5>1. up # <<>> => par[x] = up[Len(up)] /\ up[Len(up)] < x
          BY <3>2, <4>2, <4>3
        <5>2. up = <<>> => x = Head_
          BY <3>2
        <5>3. Len(ast) \in Nat /\ x \in Nodes /\ p2 = Append(up, x) /\ ChainOf(up, par)
          BY <1>3, <1>4, <4>2
        <5>4. ChainOf(p2, par)
          BY <5>1, <5>2, <5>3, PathGrows
        <5>5. EnteredOf(p2, "enter") = EnteredOf(up, "leave")
          BY <5>1, <5>2, <5>3, PathGrows
        <5>6. p2 # <<>> /\ Len(p2) = Len(up) + 1 /\ p2[Len(p2)] = x
          BY <5>3 DEF ChainOf
        <5>. QED  BY <5>4, <5>5, <5>6
      <4>5. Sound(p2, m2, s2, par)
        BY <1>4, <2>2, <4>2, <4>4 DEF Sound
      <4>6. Reach(p2, m2, end) = end[c]
        BY <1>5, <4>2, <4>4 DEF Reach
      <4>. QED  BY <1>1, <1>2, <1>4, <1>8, <2>1, <2>3, <4>5, <4>6 DEF EnterGrammar
    <3>4. CASE NextSibling(ast, c) = NO_NODE
      <4>1. p2 = up /\ m2 = "leave"
        BY <1>4, <2>1, <2>6, <3>4
      <4>2. Sound(p2, m2, s2, par)
        BY <1>4, <2>2, <3>2, <4>1 DEF Sound
      <4>3. c # Head_
        BY <1>4, <1>6, <3>2
      <4>4. Reach(p2, m2, end) = end[c]
        BY <1>5, <2>4, <3>2, <3>4, <4>1, <4>3 DEF Reach
      <4>. QED  BY <1>1, <1>2, <1>4, <1>8, <2>1, <2>3, <4>2, <4>4 DEF EnterGrammar
    <3>. QED  BY <3>3, <3>4
  <2>. QED  BY <1>4, <2>5, <2>6
<1>. QED  BY <1>7, <1>8 DEF Walk

\* After the callback of a token the traversal has got as far as the token.
LEMMA ContinueSound ==
  ASSUME NEW end, NEW par, TreeFacts(end, par),
         Sound(path, move, statement_stack, par), path # <<>>, AtToken, Continue
  PROVE  /\ Sound(path', move', statement_stack', par)
         /\ Reach(path, move, end) = Current - 1
         /\ Reach(path', move', end) = Current
         /\ Current \in Nodes
<1>1. PICK p2, m2, s2 : p2 = path' /\ m2 = move' /\ s2 = statement_stack'
  OBVIOUS
<1>2. PICK c, k, up : c = Current /\ k = Len(path) /\ up = Above
  OBVIOUS
<1>3. /\ ChainOf(path, par)
      /\ StatementsIn(statement_stack, EnteredOf(path, move))
      /\ Len(ast) \in Nat /\ Len(ast) > 0
  BY DEF Sound, TreeFacts
<1>4. /\ k \in Nat \ {0} /\ c \in Nodes /\ c = path[k]
      /\ \A x \in EnteredOf(path, "enter") : x < c
      /\ EnteredOf(path, "leave") = EnteredOf(path, "enter") \cup {c}
      /\ EnteredOf(path, "enter") \subseteq Nodes
  <2>1. up = SubSeq(path, 1, Len(path) - 1)
    BY <1>2 DEF Above
  <2>2. /\ Len(path) \in Nat \ {0} /\ path[Len(path)] \in Nodes
        /\ up \in Seq(Nodes) /\ Len(up) = Len(path) - 1
        /\ \A d \in 1 .. Len(up) : up[d] = path[d]
        /\ ChainOf(up, par)
        /\ \A m : \A x \in EnteredOf(path, m) : x \in Nodes
        /\ \A x \in EnteredOf(path, "enter") : x < path[Len(path)]
        /\ EnteredOf(path, "leave") = EnteredOf(path, "enter") \cup {path[Len(path)]}
        /\ EnteredOf(up, "leave") = EnteredOf(path, "enter")
    BY <1>3, <2>1, PathEnd
  <2>. QED  BY <1>2, <2>2 DEF Current
<1>5. ast[c].first_child # NO_NODE => ast[c].type = "GRAMMAR"
  BY <1>4 DEF TreeFacts, Visits
<1>6. ast[c].type = "TOKEN" /\ move = "enter" /\ p2 = path /\ m2 = "leave" /\ s2 = statement_stack
  BY <1>1, <1>2 DEF AtToken, IsToken, Continue
<1>7. end[c] = c
  BY <1>4, <1>5, <1>6 DEF TreeFacts, Visits
<1>8. StatementsIn(s2, EnteredOf(path, "leave"))
  <2>1. ~ IsGrammar(ast, c)
    BY <1>6 DEF IsGrammar
  <2>2. /\ \A n \in EnteredOf(path, "enter") : n < c
        /\ StatementsIn(statement_stack, EnteredOf(path, "enter"))
    BY <1>3, <1>4, <1>6
  <2>3. StatementsIn(statement_stack, EnteredOf(path, "enter") \cup {c})
    BY <1>3, <1>4, <2>1, <2>2, StatementPushed
  <2>. QED  BY <1>4, <1>6, <2>3
<1>9. Sound(p2, m2, s2, par)
  BY <1>3, <1>6, <1>8 DEF Sound
<1>10. Reach(path, move, end) = c - 1 /\ Reach(p2, m2, end) = c
  BY <1>2, <1>4, <1>6, <1>7 DEF Reach
<1>. QED  BY <1>1, <1>2, <1>4, <1>9, <1>10

\* A traversal that stops has an empty stack, and so does one that starts.
LEMMA StopSound ==
  ASSUME NEW par, Stop
  PROVE  Sound(path', move', statement_stack', par)
<1>1. PICK p2, m2, s2 : p2 = path' /\ m2 = move' /\ s2 = statement_stack'
  OBVIOUS
<1>2. p2 = <<>> /\ m2 = "none" /\ s2 = <<>>
  BY <1>1 DEF Stop
<1>3. EnteredOf(p2, m2) = {}
  BY <1>2 DEF EnteredOf
<1>4. Sound(p2, m2, s2, par)
  BY <1>2, <1>3 DEF Sound, ChainOf, StatementsIn
<1>. QED  BY <1>1, <1>4

LEMMA StartSound ==
  ASSUME NEW end, NEW par, TreeFacts(end, par), StartTraversal
  PROVE  Sound(path', move', statement_stack', par) /\ Reach(path', move', end) = 0
<1>1. PICK p2, m2, s2 : p2 = path' /\ m2 = move' /\ s2 = statement_stack'
  OBVIOUS
<1>2. p2 = <<Head_>> /\ m2 = "enter" /\ s2 = <<>>
  BY <1>1 DEF StartTraversal
<1>3. EnteredOf(p2, m2) = {}
  BY <1>2 DEF EnteredOf
<1>4. Head_ \in Nodes /\ Head_ = 1 /\ Len(p2) = 1 /\ p2[1] = 1 /\ p2 # <<>>
  BY <1>2 DEF Head_, Nodes, TreeFacts
<1>5. ChainOf(p2, par)
  BY <1>2, <1>4 DEF ChainOf
<1>6. Sound(p2, m2, s2, par)
  BY <1>2, <1>3, <1>4, <1>5 DEF Sound, StatementsIn
<1>7. Reach(p2, m2, end) = 0
  BY <1>2, <1>4 DEF Reach
<1>. QED  BY <1>1, <1>6, <1>7

-----------------------------------------------------------------------------
(***************************************************************************)
(* What the first traversal has put into the tables when it has got as far *)
(* as the node r.                                                          *)
(***************************************************************************)
Declares(keyword, n) == IsToken(ast, n) /\ TokenAt(n) = keyword /\ IdentFollows(n)

NamePlace(n) == ast[ast[n].next_sibling].value

DeclaredUpTo(keyword, r) == {n \in 1 .. r : Declares(keyword, n)}

FirstIn(table, keyword, r) ==
  /\ DOMAIN table = {text[NamePlace(n)] : n \in DeclaredUpTo(keyword, r)}
  /\ \A name \in DOMAIN table :
       \E n \in DeclaredUpTo(keyword, r) :
         /\ text[NamePlace(n)] = name
         /\ table[name].file_pos = NamePlace(n)
         /\ \A m \in DeclaredUpTo(keyword, r) : text[NamePlace(m)] = name => n <= m

TablesAt(r) == FirstIn(variable_table, "LET", r) /\ FirstIn(label_table, "LABEL", r)

LiteralsInv ==
  /\ counter \in Nat
  /\ \A s \in DOMAIN literal_table : literal_table[s] \in Nat /\ literal_table[s] < counter
  /\ \A s, t \in DOMAIN literal_table : s # t => literal_table[s] # literal_table[t]

LEMMA NothingDeclared ==
  ASSUME NEW table, NEW keyword, NEW c, c \in Nat \ {0}, FirstIn(table, keyword, c - 1),
         ~ Declares(keyword, c)
  PROVE  FirstIn(table, keyword, c)
<1>1. 1 .. c = (1 .. c - 1) \cup {c}
  OBVIOUS
<1>2. DeclaredUpTo(keyword, c) = DeclaredUpTo(keyword, c - 1)
  BY <1>1 DEF DeclaredUpTo
<1>. QED  BY <1>2 DEF FirstIn

LEMMA DeclaredAgain ==
  ASSUME NEW table, NEW keyword, NEW c, c \in Nat \ {0}, FirstIn(table, keyword, c - 1),
         Declares(keyword, c), text[NamePlace(c)] \in DOMAIN table
  PROVE  FirstIn(table, keyword, c)
<1>1. 1 .. c = (1 .. c - 1) \cup {c}
  OBVIOUS
<1>2. DeclaredUpTo(keyword, c) = DeclaredUpTo(keyword, c - 1) \cup {c}
  BY <1>1 DEF DeclaredUpTo
<1>3. \A n \in DeclaredUpTo(keyword, c - 1) : n \in Nat /\ n <= c
  BY DEF DeclaredUpTo
<1>4. DOMAIN table = {text[NamePlace(n)] : n \in DeclaredUpTo(keyword, c)}
  BY <1>2 DEF FirstIn
<1>5. ASSUME NEW name \in DOMAIN table
      PROVE  \E n \in DeclaredUpTo(keyword, c) :
               /\ text[NamePlace(n)] = name
               /\ table[name].file_pos = NamePlace(n)
               /\ \A m \in DeclaredUpTo(keyword, c) : text[NamePlace(m)] = name => n <= m
  <2>1. PICK n \in DeclaredUpTo(keyword, c - 1) :
          /\ text[NamePlace(n)] = name
          /\ table[name].file_pos = NamePlace(n)
          /\ \A m \in DeclaredUpTo(keyword, c - 1) : text[NamePlace(m)] = name => n <= m
    BY DEF FirstIn
  <2>. QED  BY <1>2, <1>3, <2>1
<1>. QED  BY <1>4, <1>5 DEF FirstIn

LEMMA DeclaredNow ==
  ASSUME NEW table, NEW keyword, NEW c, c \in Nat \ {0}, FirstIn(table, keyword, c - 1),
         Declares(keyword, c), text[NamePlace(c)] \notin DOMAIN table,
         NEW info, info.file_pos = NamePlace(c)
  PROVE  FirstIn(Put(table, text[NamePlace(c)], info), keyword, c)
<1>. PICK key, new : key = text[NamePlace(c)] /\ new = Put(table, key, info)
  OBVIOUS
<1>1. 1 .. c = (1 .. c - 1) \cup {c}
  OBVIOUS
<1>2. DeclaredUpTo(keyword, c) = DeclaredUpTo(keyword, c - 1) \cup {c}
  BY <1>1 DEF DeclaredUpTo
<1>3. \A n \in DeclaredUpTo(keyword, c - 1) : n \in Nat /\ n <= c
  BY DEF DeclaredUpTo
<1>4. /\ DOMAIN new = DOMAIN table \cup {key}
      /\ \A k \in DOMAIN table : new[k] = table[k]
      /\ new[key] = info
  BY DEF Put
<1>5. DOMAIN new = {text[NamePlace(n)] : n \in DeclaredUpTo(keyword, c)}
  BY <1>2, <1>4 DEF FirstIn
<1>6. \A n \in DeclaredUpTo(keyword, c - 1) : text[NamePlace(n)] # key
  BY DEF FirstIn
<1>7. ASSUME NEW name \in DOMAIN new
      PROVE  \E n \in DeclaredUpTo(keyword, c) :
               /\ text[NamePlace(n)] = name
               /\ new[name].file_pos = NamePlace(n)
               /\ \A m \in DeclaredUpTo(keyword, c) : text[NamePlace(m)] = name => n <= m
  <2>1. CASE name \in DOMAIN table
    <3>1. PICK n \in DeclaredUpTo(keyword, c - 1) :
            /\ text[NamePlace(n)] = name
            /\ table[name].file_pos = NamePlace(n)
            /\ \A m \in DeclaredUpTo(keyword, c - 1) : text[NamePlace(m)] = name => n <= m
      BY <2>1 DEF FirstIn
    <3>2. new[name] = table[name]
      BY <1>4, <2>1
    <3>. QED  BY <1>2, <1>3, <3>1, <3>2
  <2>2. CASE name = key
    <3>1. c \in DeclaredUpTo(keyword, c) /\ new[name].file_pos = NamePlace(c)
      BY <1>2, <1>4, <2>2
    <3>2. \A m \in DeclaredUpTo(keyword, c) : text[NamePlace(m)] = name => c <= m
      BY <1>2, <1>6, <2>2
    <3>. QED  BY <2>2, <3>1, <3>2
  <2>. QED  BY <1>4, <2>1, <2>2
<1>. QED  BY <1>5, <1>7 DEF FirstIn

\* The callback for a token puts what the token declares into its table.
LEMMA TokenCollected ==
  ASSUME NEW c, c = Current, c \in Nodes, Len(ast) \in Nat, IsToken(ast, c), TablesAt(c - 1),
         CollectLiteral \/ CollectLabel \/ CollectVariable \/ CollectNothing
  PROVE  FirstIn(variable_table', "LET", c) /\ FirstIn(label_table', "LABEL", c)
<1>1. PICK vt, lt : vt = variable_table' /\ lt = label_table'
  OBVIOUS
<1>2. /\ c \in Nat \ {0}
      /\ Sibling = ast[c].next_sibling
      /\ FirstIn(variable_table, "LET", c - 1) /\ FirstIn(label_table, "LABEL", c - 1)
  BY DEF Nodes, Sibling, NextSibling, NO_NODE, TablesAt
<1>3. /\ HasIdent <=> IdentFollows(c)
      /\ TextAt(Sibling) = text[NamePlace(c)]
      /\ Info.file_pos = NamePlace(c)
  BY <1>2 DEF HasIdent, IdentFollows, TextAt, NamePlace, Info
<1>4. FirstIn(vt, "LET", c)
  <2>1. CASE ~ Declares("LET", c)
    <3>1. vt = variable_table
      <4>1. CASE CollectVariable
        <5>1. TokenAt(c) = "LET" /\ ~ HasIdent
          BY <1>3, <2>1, <4>1 DEF CollectVariable, Declares
        <5>. QED  BY <1>1, <4>1, <5>1 DEF CollectVariable
      <4>2. CASE CollectLiteral \/ CollectLabel \/ CollectNothing
        BY <1>1, <4>2 DEF CollectLiteral, CollectLabel, CollectNothing, tableVars
      <4>. QED  BY <4>1, <4>2
    <3>. QED  BY <1>2, <2>1, <3>1, NothingDeclared
  <2>2. CASE Declares("LET", c)
    <3>1. TokenAt(c) = "LET" /\ HasIdent
      BY <1>3, <2>2 DEF Declares
    <3>2. CollectVariable
      BY <3>1 DEF CollectLiteral, CollectLabel, CollectNothing
    <3>3. CASE text[NamePlace(c)] \in DOMAIN variable_table
      <4>1. vt = variable_table
        BY <1>1, <1>3, <3>2, <3>3 DEF CollectVariable
      <4>. QED  BY <1>2, <2>2, <3>3, <4>1, DeclaredAgain
    <3>4. CASE text[NamePlace(c)] \notin DOMAIN variable_table
      <4>1. vt = Put(variable_table, text[NamePlace(c)], Info)
        BY <1>1, <1>3, <3>1, <3>2, <3>4 DEF CollectVariable
      <4>. QED  BY <1>2, <1>3, <2>2, <3>4, <4>1, DeclaredNow
    <3>. QED  BY <3>3, <3>4
  <2>. QED  BY <2>1, <2>2
<1>5. FirstIn(lt, "LABEL", c)
  <2>1. CASE ~ Declares("LABEL", c)
    <3>1. lt = label_table
      <4>1. CASE CollectLabel
        <5>1. TokenAt(c) = "LABEL" /\ ~ HasIdent
          BY <1>3, <2>1, <4>1 DEF CollectLabel, Declares
        <5>. QED  BY <1>1, <4>1, <5>1 DEF CollectLabel
      <4>2. CASE CollectLiteral \/ CollectVariable \/ CollectNothing
        BY <1>1, <4>2 DEF CollectLiteral, CollectVariable, CollectNothing, tableVars
      <4>. QED  BY <4>1, <4>2
    <3>. QED  BY <1>2, <2>1, <3>1, NothingDeclared
  <2>2. CASE Declares("LABEL", c)
    <3>1. TokenAt(c) = "LABEL" /\ HasIdent
      BY <1>3, <2>2 DEF Declares
    <3>2. CollectLabel
      BY <3>1 DEF CollectLiteral, CollectVariable, CollectNothing
    <3>3. lt = Put(label_table, text[NamePlace(c)], Info)
      BY <1>1, <1>3, <3>1, <3>2 DEF CollectLabel
    <3>4. CASE text[NamePlace(c)] \in DOMAIN label_table
      <4>1. /\ DOMAIN lt = DOMAIN label_table
            /\ \A k \in DOMAIN label_table : lt[k] = label_table[k]
        BY <3>3, <3>4 DEF Put
      <4>2. FirstIn(lt, "LABEL", c - 1)
        BY <1>2, <4>1 DEF FirstIn
      <4>. QED  BY <1>2, <2>2, <3>4, <4>1, <4>2, DeclaredAgain
    <3>5. CASE text[NamePlace(c)] \notin DOMAIN label_table
      BY <1>2, <1>3, <2>2, <3>3, <3>5, DeclaredNow
    <3>. QED  BY <3>4, <3>5
  <2>. QED  BY <2>1, <2>2
<1>. QED  BY <1>1, <1>4, <1>5

LEMMA LiteralsCollected ==
  ASSUME LiteralsInv, Collect
  PROVE  LiteralsInv'
<1>1. PICK lt, ct : lt = literal_table' /\ ct = counter'
  OBVIOUS
<1>2. CASE CollectLiteral /\ TextAt(Current) \notin DOMAIN literal_table
  <2>1. PICK key : key = TextAt(Current)
    OBVIOUS
  <2>2. lt = Put(literal_table, key, counter) /\ ct = counter + 1 /\ key \notin DOMAIN literal_table
    BY <1>1, <1>2, <2>1 DEF CollectLiteral
  <2>3. /\ DOMAIN lt = DOMAIN literal_table \cup {key}
        /\ \A s \in DOMAIN literal_table : lt[s] = literal_table[s]
        /\ lt[key] = counter
    BY <2>2 DEF Put
  <2>4. /\ ct \in Nat
        /\ \A s \in DOMAIN lt : lt[s] \in Nat /\ lt[s] < ct
    BY <2>2, <2>3 DEF LiteralsInv
  <2>5. ASSUME NEW s \in DOMAIN lt, NEW t \in DOMAIN lt, s # t PROVE lt[s] # lt[t]
    BY <2>2, <2>3, <2>5 DEF LiteralsInv
  <2>. QED  BY <1>1, <2>4, <2>5 DEF LiteralsInv
<1>3. CASE ~ (CollectLiteral /\ TextAt(Current) \notin DOMAIN literal_table)
  <2>1. lt = literal_table /\ (ct = counter \/ ct = counter + 1)
    BY <1>1, <1>3 DEF Collect, CollectToken, CollectLiteral, CollectLabel, CollectVariable,
       CollectNothing, tableVars
  <2>2. ct \in Nat /\ counter \in Nat /\ counter <= ct
    BY <2>1 DEF LiteralsInv
  <2>3. \A s \in DOMAIN lt : lt[s] \in Nat /\ lt[s] < ct
    BY <2>1, <2>2 DEF LiteralsInv
  <2>. QED  BY <1>1, <2>1, <2>2, <2>3 DEF LiteralsInv
<1>. QED  BY <1>2, <1>3

-----------------------------------------------------------------------------
(***************************************************************************)
(* The invariant of the three passes.                                      *)
(***************************************************************************)
TraversalInv ==
  \E end, par :
    /\ Visits(end, par)
    /\ Sound(path, move, statement_stack, par)
    /\ TablesAt(IF stage = "collect" THEN Reach(path, move, end) ELSE Len(ast))

StageInv ==
  /\ stage \in {"parse", "collect", "check", "done"}
  /\ stage = "parse" => Idle /\ DOMAIN variable_table = {} /\ DOMAIN label_table = {}
                        /\ stopped = FALSE
  /\ stage # "parse" => stack = <<>> /\ TraversalInv

StopInv == stopped = FALSE \/ errors # <<>>

FInv == Parsed /\ StageInv /\ StopInv /\ LiteralsInv

LEMMA InitFInv == Init => FInv
<1>. SUFFICES ASSUME Init PROVE FInv
  OBVIOUS
<1>1. Parsed
  BY InitParsed
<1>2. StageInv
  BY DEF Init, StageInv, NoTables, Empty, NotChecked
<1>3. StopInv
  BY DEF Init, StopInv, NotChecked
<1>4. LiteralsInv
  BY DEF Init, LiteralsInv, NoTables, Empty
<1>. QED  BY <1>1, <1>2, <1>3, <1>4 DEF FInv

\* What is said of the tree only depends on the tree.

LEMMA TreeKept ==
  ASSUME ast' = ast, tokens' = tokens, text' = text, NEW end, NEW par
  PROVE  /\ Visits(end, par)' <=> Visits(end, par)
         /\ \A p, m, s : Sound(p, m, s, par)' <=> Sound(p, m, s, par)
         /\ \A p, m : Reach(p, m, end)' = Reach(p, m, end)
         /\ \A table, keyword, r : FirstIn(table, keyword, r)' <=> FirstIn(table, keyword, r)
<1>1. Visits(end, par)' <=> Visits(end, par)
  BY Zenon DEF Visits, Nodes
<1>2. ASSUME NEW p, NEW m, NEW s PROVE Sound(p, m, s, par)' <=> Sound(p, m, s, par)
  <2>1. \A n : (IsGrammar(ast, n) /\ IsStatement(n))' <=> (IsGrammar(ast, n) /\ IsStatement(n))
    BY Zenon DEF IsGrammar, IsStatement
  <2>2. PICK E : E = EnteredOf(p, m)
    OBVIOUS
  <2>3. {n \in E : IsGrammar(ast, n) /\ IsStatement(n)}'
         = {n \in E : IsGrammar(ast, n) /\ IsStatement(n)}
    BY <2>1
  <2>4. StatementsIn(s, E)' <=> StatementsIn(s, E)
    BY <2>3, Zenon DEF StatementsIn, Nodes
  <2>5. ChainOf(p, par)' <=> ChainOf(p, par)
    BY Zenon DEF ChainOf, Nodes
  <2>6. EnteredOf(p, m)' = E
    BY <2>2 DEF EnteredOf
  <2>. QED  BY <2>2, <2>4, <2>5, <2>6 DEF Sound
<1>3. \A p, m : Reach(p, m, end)' = Reach(p, m, end)
  BY Zenon DEF Reach
<1>4. ASSUME NEW table, NEW keyword, NEW r
      PROVE  FirstIn(table, keyword, r)' <=> FirstIn(table, keyword, r)
  <2>1. \A n : NamePlace(n)' = NamePlace(n) /\ (Declares(keyword, n)' <=> Declares(keyword, n))
    BY Zenon DEF NamePlace, Declares, IdentFollows, TokenAt, IsToken
  <2>2. PICK D : D = DeclaredUpTo(keyword, r)
    OBVIOUS
  <2>3. DeclaredUpTo(keyword, r)' = D
    BY <2>1, <2>2 DEF DeclaredUpTo
  <2>4. {text[NamePlace(n)] : n \in DeclaredUpTo(keyword, r)}' = {text[NamePlace(n)] : n \in D}
    BY <2>1, <2>2, <2>3
  <2>5. (DOMAIN table = {text[NamePlace(n)] : n \in DeclaredUpTo(keyword, r)})'
         <=> DOMAIN table = {text[NamePlace(n)] : n \in D}
    BY <2>4
  <2>6. (\A name \in DOMAIN table :
          \E n \in DeclaredUpTo(keyword, r) :
            /\ text[NamePlace(n)] = name
            /\ table[name].file_pos = NamePlace(n)
            /\ \A m \in DeclaredUpTo(keyword, r) : text[NamePlace(m)] = name => n <= m)'
         <=> \A name \in DOMAIN table :
               \E n \in D :
                 /\ text[NamePlace(n)] = name
                 /\ table[name].file_pos = NamePlace(n)
                 /\ \A m \in D : text[NamePlace(m)] = name => n <= m
    BY <2>1, <2>3
  <2>. QED  BY <2>2, <2>5, <2>6 DEF FirstIn
<1>. QED  BY <1>1, <1>2, <1>3, <1>4

LEMMA TraversalKept ==
  ASSUME ast' = ast, tokens' = tokens, text' = text, NEW end, NEW par, NEW r,
         Visits(end, par), Sound(path', move', statement_stack', par),
         r = IF stage' = "collect" THEN Reach(path', move', end) ELSE Len(ast),
         FirstIn(variable_table', "LET", r), FirstIn(label_table', "LABEL", r)
  PROVE  TraversalInv'
<1>1. PICK p2, m2, s2, g2, vt, lt :
        /\ p2 = path' /\ m2 = move' /\ s2 = statement_stack' /\ g2 = stage'
        /\ vt = variable_table' /\ lt = label_table'
  OBVIOUS
<1>2. /\ Visits(end, par)' <=> Visits(end, par)
      /\ Sound(p2, m2, s2, par)' <=> Sound(p2, m2, s2, par)
      /\ Reach(p2, m2, end)' = Reach(p2, m2, end)
      /\ FirstIn(vt, "LET", r)' <=> FirstIn(vt, "LET", r)
      /\ FirstIn(lt, "LABEL", r)' <=> FirstIn(lt, "LABEL", r)
  BY TreeKept
<1>3. Visits(end, par)' /\ Sound(path, move, statement_stack, par)'
  BY <1>1, <1>2
<1>4. (IF stage = "collect" THEN Reach(path, move, end) ELSE Len(ast))' = r
  BY <1>1, <1>2
<1>5. FirstIn(variable_table, "LET", r)' /\ FirstIn(label_table, "LABEL", r)'
  BY <1>1, <1>2
<1>6. TablesAt(IF stage = "collect" THEN Reach(path, move, end) ELSE Len(ast))'
  BY <1>4, <1>5 DEF TablesAt
<1>. QED  BY <1>3, <1>6 DEF TraversalInv

\* The first pass over the tree.
LEMMA CollectKept ==
  ASSUME NEW end, NEW par, TreeFacts(end, par),
         Sound(path, move, statement_stack, par), path # <<>>, Collect,
         TablesAt(Reach(path, move, end))
  PROVE  /\ Sound(path', move', statement_stack', par)
         /\ FirstIn(variable_table', "LET", Reach(path', move', end))
         /\ FirstIn(label_table', "LABEL", Reach(path', move', end))
<1>1. PICK vt, lt, r2 :
        vt = variable_table' /\ lt = label_table' /\ r2 = Reach(path', move', end)
  OBVIOUS
<1>2. PICK c, r : c = Current /\ r = Reach(path, move, end)
  OBVIOUS
<1>3. FirstIn(variable_table, "LET", r) /\ FirstIn(label_table, "LABEL", r)
  BY <1>2 DEF TablesAt
<1>4. CASE CollectToken
  <2>1. AtToken /\ Continue
    BY <1>4 DEF CollectToken
  <2>2. /\ Sound(path', move', statement_stack', par)
        /\ r = c - 1 /\ r2 = c /\ c \in Nodes
    BY <1>1, <1>2, <2>1, ContinueSound
  <2>3. IsToken(ast, c) /\ Len(ast) \in Nat
    BY <1>2, <2>1 DEF AtToken, TreeFacts
  <2>4. TablesAt(c - 1)
    BY <1>2, <2>2
  <2>5. CollectLiteral \/ CollectLabel \/ CollectVariable \/ CollectNothing
    BY <1>4 DEF CollectToken
  <2>6. FirstIn(variable_table', "LET", c) /\ FirstIn(label_table', "LABEL", c)
    BY <1>2, <2>2, <2>3, <2>4, <2>5, TokenCollected
  <2>. QED  BY <1>1, <2>2, <2>6
<1>5. CASE Walk /\ UNCHANGED tableVars
  <2>1. vt = variable_table /\ lt = label_table
    BY <1>1, <1>5 DEF tableVars
  <2>2. /\ Sound(path', move', statement_stack', par)
        /\ EnterGrammar => r = c - 1 /\ r2 = c
        /\ LeaveNode => r2 = r
        /\ c \in Nodes
    BY <1>1, <1>2, <1>5, WalkSound
  <2>3. CASE EnterGrammar
    <3>1. r = c - 1 /\ r2 = c /\ c \in Nat \ {0}
      BY <2>2, <2>3 DEF Nodes
    <3>2. ~ IsToken(ast, c)
      BY <1>2, <2>3 DEF EnterGrammar, IsGrammar, IsToken
    <3>3. \A keyword : ~ Declares(keyword, c)
      BY <3>2 DEF Declares
    <3>4. FirstIn(variable_table, "LET", c) /\ FirstIn(label_table, "LABEL", c)
      BY <1>3, <3>1, <3>3, NothingDeclared
    <3>. QED  BY <1>1, <2>1, <2>2, <3>1, <3>4
  <2>4. CASE LeaveNode
    BY <1>1, <1>3, <2>1, <2>2, <2>4
  <2>. QED  BY <1>5, <2>3, <2>4 DEF Walk
<1>. QED  BY <1>4, <1>5 DEF Collect

\* The second pass.
LEMMA CheckKept ==
  ASSUME NEW end, NEW par, TreeFacts(end, par),
         Sound(path, move, statement_stack, par), path # <<>>, Check
  PROVE  Sound(path', move', statement_stack', par)
<1>1. CASE CheckToken
  <2>1. AtToken /\ (Stop \/ Continue)
    BY <1>1 DEF CheckToken, CheckMalformed, CheckGoto, CheckLabel, CheckIdent, CheckOther
  <2>. QED  BY <2>1, StopSound, ContinueSound
<1>2. CASE Walk
  BY <1>2, WalkSound
<1>. QED  BY <1>1, <1>2 DEF Check

\* A GOTO or LABEL without a name has been reported by the parser.
LEMMA StopKept ==
  ASSUME StopInv, NamesRight, AtToken, CheckToken, Current \in Nodes, errors' = errors
  PROVE  StopInv'
<1>1. CASE CheckMalformed
  <2>1. PICK c : c = Current
    OBVIOUS
  <2>2. c \in Nodes /\ ast[c].type = "TOKEN" /\ TokenAt(c) \in NAMERS /\ ~ HasIdent
    BY <1>1, <2>1 DEF CheckMalformed, AtToken, IsToken, NAMERS
  <2>3. ~ IdentFollows(c)
    BY <2>1, <2>2 DEF HasIdent, IdentFollows, Sibling, NextSibling, Nodes, NO_NODE
  <2>4. errors # <<>>
    BY <2>2, <2>3 DEF NamesRight
  <2>. QED  BY <2>4 DEF StopInv
<1>2. CASE UNCHANGED stopped
  BY <1>2, Zenon DEF StopInv
<1>. QED
  BY <1>1, <1>2
  DEF CheckToken, CheckGoto, CheckLabel, CheckIdent, CheckOther, analyzerVars

LEMMA StepStageInv ==
  ASSUME FInv, [Next]_vars
  PROVE  StageInv'
<1>1. Parsed /\ StageInv
  BY DEF FInv
<1>2. /\ stage \in {"parse", "collect", "check", "done"}
      /\ stage = "parse" => Idle /\ DOMAIN variable_table = {} /\ DOMAIN label_table = {}
                            /\ stopped = FALSE
      /\ stage # "parse" => stack = <<>> /\ TraversalInv
  BY <1>1 DEF StageInv
<1>3. stack = <<>> => After
  BY <1>1, ParserLeaves
<1>4. CASE Parse
  <2>1. /\ stage' = "parse" /\ path' = path /\ move' = move /\ statement_stack' = statement_stack
        /\ variable_table' = variable_table /\ label_table' = label_table /\ stopped' = stopped
    BY <1>4, Zenon DEF Parse, visitorVars, tableVars, analyzerVars
  <2>. QED  BY <1>2, <1>4, <2>1 DEF StageInv, Idle, Parse
<1>5. ASSUME UNCHANGED <<tokens, text, ast, parserVars>>, stage' # "parse", stack = <<>>,
             TraversalInv', stage' \in {"parse", "collect", "check", "done"}
      PROVE  StageInv'
  <2>1. stack' = <<>>
    BY <1>5 DEF parserVars
  <2>. QED  BY <1>5, <2>1 DEF StageInv
<1>6. CASE StartCollect
  <2>1. /\ UNCHANGED <<tokens, text, ast, parserVars>> /\ stage' = "collect" /\ stack = <<>>
        /\ stage = "parse" /\ StartTraversal
        /\ variable_table' = variable_table /\ label_table' = label_table
    BY <1>6 DEF StartCollect, tableVars
  <2>2. PICK end, par : Visits(end, par)
    BY <1>3, <2>1 DEF After
  <2>3. TreeFacts(end, par)
    BY <1>3, <2>1, <2>2 DEF After, TreeFacts
  <2>4. Sound(path', move', statement_stack', par) /\ Reach(path', move', end) = 0
    BY <2>1, <2>3, StartSound
  <2>5. \A keyword : DeclaredUpTo(keyword, 0) = {}
    BY DEF DeclaredUpTo
  <2>6. FirstIn(variable_table', "LET", 0) /\ FirstIn(label_table', "LABEL", 0)
    BY <1>2, <2>1, <2>5 DEF FirstIn
  <2>7. TraversalInv'
    BY <2>1, <2>2, <2>4, <2>6, TraversalKept
  <2>. QED  BY <1>5, <2>1, <2>7
<1>7. ASSUME stage # "parse", NEW end, NEW par, Visits(end, par)
      PROVE  TreeFacts(end, par)
  BY <1>2, <1>3, <1>7 DEF After, TreeFacts
<1>8. CASE CollectNode
  <2>1. /\ UNCHANGED <<tokens, text, ast, parserVars>> /\ stage' = "collect" /\ stack = <<>>
        /\ stage = "collect" /\ path # <<>> /\ Collect
    BY <1>2, <1>8 DEF CollectNode
  <2>2. PICK end, par :
          /\ Visits(end, par) /\ Sound(path, move, statement_stack, par)
          /\ TablesAt(Reach(path, move, end))
    BY <1>2, <2>1 DEF TraversalInv
  <2>3. TreeFacts(end, par)
    BY <1>7, <2>1, <2>2
  <2>4. /\ Sound(path', move', statement_stack', par)
        /\ FirstIn(variable_table', "LET", Reach(path', move', end))
        /\ FirstIn(label_table', "LABEL", Reach(path', move', end))
    BY <2>1, <2>2, <2>3, CollectKept
  <2>5. TraversalInv'
    BY <2>1, <2>2, <2>4, TraversalKept
  <2>. QED  BY <1>5, <2>1, <2>5
<1>9. CASE StartCheck
  <2>1. /\ UNCHANGED <<tokens, text, ast, parserVars>> /\ stage' = "check" /\ stack = <<>>
        /\ stage = "collect" /\ path = <<>> /\ StartTraversal
        /\ variable_table' = variable_table /\ label_table' = label_table
    BY <1>2, <1>9 DEF StartCheck, tableVars
  <2>2. PICK end, par : Visits(end, par) /\ TablesAt(Reach(path, move, end))
    BY <1>2, <2>1 DEF TraversalInv
  <2>3. TreeFacts(end, par)
    BY <1>7, <2>1, <2>2
  <2>4. Reach(path, move, end) = Len(ast)
    BY <2>1 DEF Reach
  <2>5. Sound(path', move', statement_stack', par)
    BY <2>1, <2>3, StartSound
  <2>6. FirstIn(variable_table', "LET", Len(ast)) /\ FirstIn(label_table', "LABEL", Len(ast))
    BY <2>1, <2>2, <2>4 DEF TablesAt
  <2>7. TraversalInv'
    BY <2>1, <2>2, <2>5, <2>6, TraversalKept
  <2>. QED  BY <1>5, <2>1, <2>7
<1>10. CASE CheckNode
  <2>1. /\ UNCHANGED <<tokens, text, ast, parserVars>> /\ stage' = "check" /\ stack = <<>>
        /\ stage = "check" /\ path # <<>> /\ Check
        /\ variable_table' = variable_table /\ label_table' = label_table
    BY <1>2, <1>10 DEF CheckNode, tableVars
  <2>2. PICK end, par :
          Visits(end, par) /\ Sound(path, move, statement_stack, par) /\ TablesAt(Len(ast))
    BY <1>2, <2>1 DEF TraversalInv
  <2>3. TreeFacts(end, par)
    BY <1>7, <2>1, <2>2
  <2>4. Sound(path', move', statement_stack', par)
    BY <2>1, <2>2, <2>3, CheckKept
  <2>5. FirstIn(variable_table', "LET", Len(ast)) /\ FirstIn(label_table', "LABEL", Len(ast))
    BY <2>1, <2>2 DEF TablesAt
  <2>6. TraversalInv'
    BY <2>1, <2>2, <2>4, <2>5, TraversalKept
  <2>. QED  BY <1>5, <2>1, <2>6
<1>11. CASE EndCheck
  <2>1. /\ UNCHANGED <<tokens, text, ast, parserVars>> /\ stage' = "done" /\ stack = <<>>
        /\ stage = "check"
        /\ path' = path /\ move' = move /\ statement_stack' = statement_stack
        /\ variable_table' = variable_table /\ label_table' = label_table
    BY <1>2, <1>11 DEF EndCheck, visitorVars, tableVars
  <2>2. PICK end, par :
          Visits(end, par) /\ Sound(path, move, statement_stack, par) /\ TablesAt(Len(ast))
    BY <1>2, <2>1 DEF TraversalInv
  <2>3. FirstIn(variable_table', "LET", Len(ast)) /\ FirstIn(label_table', "LABEL", Len(ast))
    BY <2>1, <2>2 DEF TablesAt
  <2>4. TraversalInv'
    BY <2>1, <2>2, <2>3, TraversalKept
  <2>. QED  BY <1>5, <2>1, <2>4
<1>12. CASE UNCHANGED vars
  <2>1. /\ UNCHANGED <<tokens, text, ast, parserVars>> /\ stage' = stage /\ stack' = stack
        /\ path' = path /\ move' = move /\ statement_stack' = statement_stack
        /\ variable_table' = variable_table /\ label_table' = label_table
        /\ stopped' = stopped
    BY <1>12 DEF vars, visitorVars, tableVars, parserVars, analyzerVars
  <2>2. CASE stage = "parse"
    BY <1>2, <2>1, <2>2 DEF StageInv, Idle
  <2>3. CASE stage # "parse"
    <3>1. PICK end, par :
            /\ Visits(end, par) /\ Sound(path, move, statement_stack, par)
            /\ TablesAt(IF stage = "collect" THEN Reach(path, move, end) ELSE Len(ast))
      BY <1>2, <2>3 DEF TraversalInv
    <3>2. PICK r : r = IF stage = "collect" THEN Reach(path, move, end) ELSE Len(ast)
      OBVIOUS
    <3>3. FirstIn(variable_table', "LET", r) /\ FirstIn(label_table', "LABEL", r)
      BY <2>1, <3>1, <3>2 DEF TablesAt
    <3>4. TraversalInv'
      BY <2>1, <3>1, <3>2, <3>3, TraversalKept
    <3>. QED  BY <1>2, <1>5, <2>1, <2>3, <3>4
  <2>. QED  BY <2>2, <2>3
<1>. QED
  BY <1>4, <1>6, <1>8, <1>9, <1>10, <1>11, <1>12, Zenon DEF Next, Finished

LEMMA StepStopInv ==
  ASSUME FInv, [Next]_vars
  PROVE  StopInv'
<1>1. Parsed /\ StageInv /\ StopInv
  BY DEF FInv
<1>2. CASE Parse
  BY <1>1, <1>2, Zenon DEF Parse, analyzerVars, StageInv, StopInv
<1>3. ASSUME UNCHANGED <<stopped, errors>> PROVE StopInv'
  BY <1>1, <1>3, Zenon DEF StopInv
<1>4. CASE CheckNode
  <2>1. stage = "check" /\ path # <<>> /\ Check /\ errors' = errors
    BY <1>4 DEF CheckNode, parserVars
  <2>2. stack = <<>> /\ TraversalInv
    BY <1>1, <2>1 DEF StageInv
  <2>3. After
    BY <1>1, <2>2, ParserLeaves
  <2>4. CASE CheckToken
    <3>1. PICK end, par : Visits(end, par) /\ Sound(path, move, statement_stack, par)
      BY <2>2 DEF TraversalInv
    <3>2. AtToken /\ NamesRight
      BY <2>3, <2>4 DEF CheckToken, After
    <3>3. Current \in Nodes
      BY <3>2 DEF AtToken, IsToken, Nodes
    <3>. QED  BY <1>1, <2>1, <2>4, <3>2, <3>3, StopKept
  <2>5. CASE UNCHANGED analyzerVars
    BY <1>3, <2>1, <2>5, Zenon DEF analyzerVars
  <2>. QED  BY <2>1, <2>4, <2>5 DEF Check
<1>5. StartCollect \/ CollectNode \/ StartCheck \/ EndCheck \/ UNCHANGED vars
       => UNCHANGED <<stopped, errors>>
  BY Zenon DEF StartCollect, CollectNode, StartCheck, EndCheck, vars, analyzerVars, parserVars
<1>. QED  BY <1>2, <1>3, <1>4, <1>5, Zenon DEF Next, Finished

LEMMA StepLiteralsInv ==
  ASSUME LiteralsInv, [Next]_vars
  PROVE  LiteralsInv'
<1>1. Collect => LiteralsInv'
  BY LiteralsCollected
<1>2. ASSUME UNCHANGED tableVars PROVE LiteralsInv'
  BY <1>2 DEF tableVars, LiteralsInv
<1>3. Parse \/ StartCollect \/ StartCheck \/ CheckNode \/ EndCheck \/ UNCHANGED vars
       => UNCHANGED tableVars
  BY Zenon DEF Parse, StartCollect, StartCheck, CheckNode, EndCheck, vars
<1>. QED  BY <1>1, <1>2, <1>3, Zenon DEF Next, Finished, CollectNode

LEMMA StepFInv == FInv /\ [Next]_vars => FInv'
BY StepParsed, StepStageInv, StepStopInv, StepLiteralsInv, Zenon DEF FInv

LEMMA FInvAlways == Spec => []FInv
BY InitFInv, StepFInv, PTL DEF Spec

-----------------------------------------------------------------------------
\* Whatever the parser made of the input, the analyzer stops at a GOTO or LABEL
\* without a name only after a grammar error (semantic_analyzer.c:57-64).
THEOREM StopsAreReported == Spec => []StopIsReported
<1>1. FInv => StopIsReported
  BY Zenon DEF FInv, StopInv, StopIsReported
<1>. QED  BY <1>1, FInvAlways, PTL

\* The declarations of the tree are those of the text.
LEMMA DeclaredInText ==
  ASSUME Len(ast) \in Nat, TokensRight, NamesRight, NEW keyword \in {"LET", "LABEL"}
  PROVE  /\ IdentsAfter(keyword) = {NamePlace(n) : n \in DeclaredUpTo(keyword, Len(ast))}
         /\ Kept(keyword) = IdentsAfter(keyword)
         /\ \A m, n \in DeclaredUpTo(keyword, Len(ast)) : m <= n => NamePlace(m) <= NamePlace(n)
         /\ \A n \in DeclaredUpTo(keyword, Len(ast)) : NamePlace(n) \in Nat
<1>1. Len(tokens) \in Nat
  BY DEF TokensRight
<1>2. ASSUME NEW n \in DeclaredUpTo(keyword, Len(ast))
      PROVE  /\ n \in Nodes /\ ast[n].type = "TOKEN" /\ tokens[ast[n].value] = keyword
             /\ ast[n].value \in Places \ skipped
             /\ NamePlace(n) = ast[n].value + 1
             /\ NamePlace(n) \in Places \ skipped
             /\ tokens[NamePlace(n)] = "IDENT"
  <2>1. n \in Nodes /\ ast[n].type = "TOKEN" /\ TokenAt(n) = keyword /\ IdentFollows(n)
    BY <1>2 DEF DeclaredUpTo, Declares, IsToken, Nodes
  <2>2. NamePlace(n) = ast[n].value + 1
    BY <2>1 DEF NamesRight, NAMERS, NamePlace, IdentFollows
  <2>3. PICK s : s = ast[n].next_sibling
    OBVIOUS
  <2>4. s \in Nodes /\ ast[s].type = "TOKEN" /\ tokens[ast[s].value] = "IDENT" /\ NamePlace(n) = ast[s].value
    BY <2>1, <2>3 DEF IdentFollows, IsToken, TokenAt, Nodes, NamePlace
  <2>. QED  BY <2>1, <2>2, <2>4 DEF TokensRight, TokenAt
<1>3. ASSUME NEW p \in IdentsAfter(keyword)
      PROVE  /\ p \in {NamePlace(n) : n \in DeclaredUpTo(keyword, Len(ast))}
             /\ p \in Kept(keyword)
  <2>1. p \in Places /\ p > 1 /\ tokens[p] = "IDENT" /\ tokens[p - 1] = keyword /\ p - 1 \in Places
    BY <1>1 DEF IdentsAfter, Places
  <2>2. p - 1 \notin skipped
    BY <2>1 DEF TokensRight, P!STATEMENT_START_KEYWORDS
  <2>3. PICK n \in Nodes : ast[n].type = "TOKEN" /\ ast[n].value = p - 1
    BY <2>1, <2>2 DEF TokensRight
  <2>4. TokenAt(n) = keyword /\ keyword \in NAMERS /\ ast[n].value + 1 = p
    BY <2>1, <2>3 DEF TokenAt, NAMERS, Places
  <2>5. IdentFollows(n)
    BY <2>1, <2>3, <2>4 DEF NamesRight
  <2>6. n \in DeclaredUpTo(keyword, Len(ast))
    BY <2>3, <2>4, <2>5 DEF DeclaredUpTo, Declares, IsToken, Nodes
  <2>7. NamePlace(n) = p /\ p \notin skipped
    BY <1>2, <2>4, <2>6
  <2>. QED  BY <2>2, <2>6, <2>7 DEF Kept
<1>4. ASSUME NEW n \in DeclaredUpTo(keyword, Len(ast)) PROVE NamePlace(n) \in IdentsAfter(keyword)
  <2>1. PICK p : p = NamePlace(n)
    OBVIOUS
  <2>2. p \in Places /\ tokens[p] = "IDENT" /\ p - 1 \in Places /\ tokens[p - 1] = keyword
    <3>1. ast[n].value \in Nat
      BY <1>2 DEF Places
    <3>. QED  BY <1>2, <2>1, <3>1
  <2>. QED  BY <2>1, <2>2 DEF IdentsAfter, Places
<1>5. IdentsAfter(keyword) = {NamePlace(n) : n \in DeclaredUpTo(keyword, Len(ast))}
  BY <1>3, <1>4
<1>6. Kept(keyword) = IdentsAfter(keyword)
  BY <1>3 DEF Kept
<1>7. ASSUME NEW m \in DeclaredUpTo(keyword, Len(ast)),
             NEW n \in DeclaredUpTo(keyword, Len(ast)), m <= n
      PROVE  NamePlace(m) <= NamePlace(n)
  <2>1. m \in Nat /\ n \in Nat /\ ast[m].value \in Nat /\ ast[n].value \in Nat
    BY <1>2 DEF Nodes, Places
  <2>2. m # n => ast[m].value < ast[n].value
    BY <1>2, <1>7, <2>1 DEF TokensRight
  <2>. QED  BY <1>2, <2>1, <2>2
<1>8. \A n \in DeclaredUpTo(keyword, Len(ast)) : NamePlace(n) \in Nat
  BY <1>2 DEF Places
<1>. QED  BY <1>5, <1>6, <1>7, <1>8

LEMMA FirstsAreFirst ==
  ASSUME Len(ast) \in Nat, TokensRight, NamesRight, NEW keyword \in {"LET", "LABEL"},
         NEW table, FirstIn(table, keyword, Len(ast))
  PROVE  /\ DOMAIN table = {text[p] : p \in Kept(keyword)}
         /\ \A name \in DOMAIN table : table[name].file_pos = FirstOf(keyword, name)
<1>1. /\ IdentsAfter(keyword) = {NamePlace(n) : n \in DeclaredUpTo(keyword, Len(ast))}
      /\ Kept(keyword) = IdentsAfter(keyword)
      /\ \A m, n \in DeclaredUpTo(keyword, Len(ast)) : m <= n => NamePlace(m) <= NamePlace(n)
      /\ \A n \in DeclaredUpTo(keyword, Len(ast)) : NamePlace(n) \in Nat
  BY DeclaredInText
<1>2. DOMAIN table = {text[p] : p \in Kept(keyword)}
  BY <1>1 DEF FirstIn
<1>3. ASSUME NEW name \in DOMAIN table
      PROVE  table[name].file_pos = FirstOf(keyword, name)
  <2>1. PICK n \in DeclaredUpTo(keyword, Len(ast)) :
          /\ text[NamePlace(n)] = name
          /\ table[name].file_pos = NamePlace(n)
          /\ \A m \in DeclaredUpTo(keyword, Len(ast)) : text[NamePlace(m)] = name => n <= m
    BY DEF FirstIn
  <2>2. PICK p : p = NamePlace(n)
    OBVIOUS
  <2>3. /\ p \in IdentsAfter(keyword) /\ p \in Nat /\ text[p] = name
        /\ \A q \in IdentsAfter(keyword) : text[q] = name => p <= q
    BY <1>1, <2>1, <2>2
  <2>4. \A q \in IdentsAfter(keyword) : q \in Nat
    BY <1>1
  <2>5. \A q \in IdentsAfter(keyword) :
          /\ text[q] = name
          /\ \A r \in IdentsAfter(keyword) : text[r] = name => q <= r
          => q = p
    BY <2>3, <2>4
  <2>6. FirstOf(keyword, name) = p
    BY <2>3, <2>5 DEF FirstOf
  <2>. QED  BY <2>1, <2>2, <2>6
<1>. QED  BY <1>2, <1>3

\* The stack is what the path says it is.
LEMMA StackIsOfPath ==
  ASSUME NEW par, Len(ast) \in Nat, Sound(path, move, statement_stack, par)
  PROVE  StatementsOfPath
<1>1. PICK entered : entered = IF move = "enter" THEN Above ELSE path
  OBVIOUS
<1>2. EnteredOf(path, move) = {entered[d] : d \in 1 .. Len(entered)}
  <2>1. CASE move = "enter"
    <3>1. path # <<>> /\ ChainOf(path, par) /\ Above = SubSeq(path, 1, Len(path) - 1)
      BY <2>1 DEF Sound, Above
    <3>2. /\ Len(path) \in Nat /\ Len(Above) = Len(path) - 1
          /\ \A d \in 1 .. Len(Above) : Above[d] = path[d]
      BY <3>1, PathEnd
    <3>. QED  BY <1>1, <2>1, <3>2 DEF EnteredOf
  <2>2. CASE move # "enter"
    BY <1>1, <2>2 DEF EnteredOf
  <2>. QED  BY <2>1, <2>2
<1>3. StatementsIn(statement_stack, {entered[d] : d \in 1 .. Len(entered)})
  BY <1>2 DEF Sound
<1>. QED  BY <1>1, <1>3 DEF StatementsIn, StatementsOfPath

LEMMA TablesHold == FInv => TablesRight
<1>. SUFFICES ASSUME FInv PROVE TablesRight
  OBVIOUS
<1>1. /\ Parsed /\ LiteralsInv
      /\ stage = "parse" => Idle
      /\ stage # "parse" => stack = <<>> /\ TraversalInv
  BY DEF FInv, StageInv
<1>2. stage # "parse" => After
  BY <1>1, ParserLeaves
<1>3. FirstDeclarations
  <2>. SUFFICES ASSUME stage \in {"check", "done"}
                PROVE  /\ DOMAIN variable_table = {text[p] : p \in Kept("LET")}
                       /\ DOMAIN label_table = {text[p] : p \in Kept("LABEL")}
                       /\ \A name \in DOMAIN variable_table :
                            variable_table[name].file_pos = FirstOf("LET", name)
                       /\ \A name \in DOMAIN label_table :
                            label_table[name].file_pos = FirstOf("LABEL", name)
    BY DEF FirstDeclarations
  <2>1. Len(ast) \in Nat /\ TokensRight /\ NamesRight
    BY <1>2 DEF After
  <2>2. FirstIn(variable_table, "LET", Len(ast)) /\ FirstIn(label_table, "LABEL", Len(ast))
    BY <1>1 DEF TraversalInv, TablesAt
  <2>. QED  BY <2>1, <2>2, FirstsAreFirst
<1>4. LiteralsApart
  BY <1>1 DEF LiteralsInv, LiteralsApart
<1>5. StatementStackRight
  <2>1. CASE stage = "parse"
    <3>1. path = <<>> /\ move = "none" /\ statement_stack = <<>>
      BY <1>1, <2>1 DEF Idle
    <3>. QED  BY <3>1 DEF StatementStackRight, StatementsOfPath
  <2>2. CASE stage # "parse"
    <3>1. Len(ast) \in Nat
      BY <1>2, <2>2 DEF After
    <3>2. PICK par : Sound(path, move, statement_stack, par)
      BY <1>1, <2>2 DEF TraversalInv
    <3>. QED  BY <3>1, <3>2, StackIsOfPath DEF StatementStackRight
  <2>. QED  BY <2>1, <2>2
<1>. QED  BY <1>3, <1>4, <1>5 DEF TablesRight

\* For every program the tables hold the first declaration of each name and
\* nothing else, no two literals share a label, and the stack of statements is
\* right at every node of both traversals (name_table.c:36-127).
THEOREM TablesAreRight == Spec => []TablesRight
BY TablesHold, FInvAlways, PTL

-----------------------------------------------------------------------------
(***************************************************************************)
(* Names and keywords in the tree, as the second traversal sees them.      *)
(***************************************************************************)
StatementAt(n) == IsGrammar(ast, n) /\ IsStatement(n)
KeywordAt(n) == IsToken(ast, n) /\ TokenAt(n) \in P!STATEMENT_START_KEYWORDS
NameAt(n) == IsToken(ast, n) /\ TokenAt(n) = "IDENT"

\* s is the last statement that begins before the node n.
LastBefore(s, n) ==
  /\ s \in Nodes /\ s < n /\ StatementAt(s)
  /\ \A m \in Nodes : s < m /\ m < n => ~ StatementAt(m)

\* anc[n] are the nodes above n: the last statement that begins before a name
\* is one of them.
AncestorsRight(anc) ==
  /\ anc[Head_] = {}
  /\ \A n \in Nodes :
       /\ ast[n].first_child # NO_NODE => anc[ast[n].first_child] = anc[n] \cup {n}
       /\ ast[n].next_sibling # NO_NODE => anc[ast[n].next_sibling] = anc[n]
       /\ NameAt(n) => \E s \in anc[n] : LastBefore(s, n)

\* A keyword is the first child of its statement, a name is in a PRIMARY or
\* follows a keyword.
PlacesRight ==
  /\ \A n \in Nodes : StatementAt(n) => n + 1 \in Nodes /\ KeywordAt(n + 1)
                                        /\ ast[n].first_child = n + 1
  /\ \A n \in Nodes : KeywordAt(n) => n - 1 \in Nodes /\ StatementAt(n - 1)
                                      /\ ast[n - 1].first_child = n
  /\ \A n \in Nodes : NameAt(n) =>
       /\ n - 1 \in Nodes
       /\ \/ ~ StatementAt(n - 1) /\ ast[n - 1].first_child = n
          \/ IsToken(ast, n - 1) /\ TokenAt(n - 1) \in NAMERS /\ ast[n - 1].next_sibling = n

LEMMA ParserSettles ==
  ASSUME Parsed, stack = <<>>
  PROVE  PlacesRight /\ (\E anc : AncestorsRight(anc)) /\ (errors = <<>> => skipped = {})
<1>1. PP!Settled
  BY InputsRight, PP!NodesSettle DEF Parsed
<1>2. /\ NO_NODE = 0 /\ PP!NO_NODE = 0 /\ Head_ = PP!Head_
      /\ PP!Ids(ast) = Nodes /\ Len(ast) \in Nat /\ Nodes = 1 .. Len(ast)
  BY DEF Parsed, PP!PInv, PP!TreeInv, PP!NO_NODE, NO_NODE, PP!Head_, Head_, PP!Ids, Nodes
<1>3. /\ \A n \in Nodes : StatementAt(n) <=> PP!IsStatement(ast, n)
      /\ \A n \in Nodes : IsToken(ast, n) <=> ast[n].type = "TOKEN"
      /\ \A n \in Nodes : IsToken(ast, n) <=> PP!IsToken(ast, n)
      /\ \A n \in Nodes : NameAt(n) <=> PP!IdentNode(ast, tokens, n)
      /\ \A n \in Nodes : KeywordAt(n) <=>
           ast[n].type = "TOKEN" /\ tokens[ast[n].value] \in PP!STATEMENT_START_KEYWORDS
  BY <1>2, SameForms
  DEF StatementAt, IsGrammar, IsStatement, PP!IsStatement, IsToken, PP!IsToken, NameAt, TokenAt,
      PP!IdentNode, KeywordAt
<1>4. \E anc : AncestorsRight(anc)
  <2>1. PICK anc : PP!Ancestry(ast, anc) /\ PP!IdentsOwned(ast, anc, tokens)
    BY <1>1 DEF PP!Settled
  <2>2. ASSUME NEW n \in Nodes, NameAt(n) PROVE \E s \in anc[n] : LastBefore(s, n)
    <3>1. PP!Owned(ast, anc, n)
      BY <1>2, <1>3, <2>1, <2>2 DEF PP!IdentsOwned
    <3>2. PICK s \in anc[n] :
            /\ s < n /\ PP!IsStatement(ast, s)
            /\ \A m \in Nodes : s < m /\ m < n => ~ PP!IsStatement(ast, m)
      BY <1>2, <3>1 DEF PP!Owned
    <3>3. s \in Nodes
      BY <1>2, <2>1 DEF PP!Ancestry
    <3>. QED  BY <1>3, <3>2, <3>3 DEF LastBefore
  <2>. QED  BY <1>2, <2>1, <2>2 DEF PP!Ancestry, AncestorsRight
<1>5. PlacesRight
  <2>1. ASSUME NEW n \in Nodes, StatementAt(n)
        PROVE  n + 1 \in Nodes /\ KeywordAt(n + 1) /\ ast[n].first_child = n + 1
    <3>1. PP!Begun(ast, n)
      BY <1>1, <1>2, <1>3, <2>1 DEF PP!Settled
    <3>2. PICK m : m = n + 1
      OBVIOUS
    <3>3. m \in Nodes
      BY <1>2, <3>1, <3>2 DEF PP!Begun, PP!IsToken
    <3>. QED  BY <1>3, <3>1, <3>2, <3>3 DEF PP!Begun
  <2>2. ASSUME NEW n \in Nodes, IsToken(ast, n) PROVE PP!Placed(ast, tokens, n)
    BY <1>1, <1>2, <1>3, <2>2 DEF PP!Settled, PP!PlacesInv
  <2>3. ASSUME NEW n \in Nodes, KeywordAt(n)
        PROVE  n - 1 \in Nodes /\ StatementAt(n - 1) /\ ast[n - 1].first_child = n
    BY <1>2, <1>3, <2>2, <2>3 DEF PP!Placed
  <2>4. ASSUME NEW n \in Nodes, NameAt(n)
        PROVE  /\ n - 1 \in Nodes
               /\ \/ ~ StatementAt(n - 1) /\ ast[n - 1].first_child = n
                  \/ IsToken(ast, n - 1) /\ TokenAt(n - 1) \in NAMERS /\ ast[n - 1].next_sibling = n
    <3>1. PICK m : m = n - 1
      OBVIOUS
    <3>2. PP!Placed(ast, tokens, n) /\ tokens[ast[n].value] = "IDENT"
      BY <1>3, <2>2, <2>4 DEF PP!IdentNode
    <3>3. /\ m \in Nodes
          /\ \/ ast[m].type = "GRAMMAR" /\ ast[m].value = "PRIMARY" /\ ast[m].first_child = n
             \/ PP!NamerIn(ast, tokens, m) /\ ast[m].next_sibling = n
      BY <1>2, <3>1, <3>2 DEF PP!Placed
    <3>4. CASE ast[m].type = "GRAMMAR" /\ ast[m].value = "PRIMARY" /\ ast[m].first_child = n
      <4>1. ~ StatementAt(m)
        BY <3>4 DEF StatementAt, IsStatement
      <4>. QED  BY <3>1, <3>3, <3>4, <4>1
    <3>5. CASE PP!NamerIn(ast, tokens, m) /\ ast[m].next_sibling = n
      <4>1. IsToken(ast, m) /\ TokenAt(m) \in NAMERS
        BY <1>3, <3>3, <3>5 DEF PP!NamerIn, PP!NAMERS, NAMERS, TokenAt
      <4>. QED  BY <3>1, <3>3, <3>5, <4>1
    <3>. QED  BY <3>3, <3>4, <3>5
  <2>. QED  BY <2>1, <2>3, <2>4 DEF PlacesRight
<1>6. errors = <<>> => skipped = {}
  BY <1>1 DEF PP!Settled
<1>. QED  BY <1>4, <1>5, <1>6

\* The keyword of the last statement before a name is the last one in the text.
LEMMA StatementStarts ==
  ASSUME Len(ast) \in Nat, TokensRight, PlacesRight, NEW n \in Nodes, NameAt(n),
         NEW s, LastBefore(s, n), NEW p, p = ast[n].value, NEW k, k = s + 1
  PROVE  /\ k \in Nodes /\ KeywordAt(k) /\ ast[s].first_child = k
         /\ ast[k].value \in Nat /\ ast[k].value < p
         /\ StatementStart(p) = ast[k].value
         /\ \A r \in ast[k].value + 1 .. p : tokens[r] \notin P!STATEMENT_START_KEYWORDS
<1>1. /\ s \in Nodes /\ s < n /\ StatementAt(s) /\ s \in Nat /\ n \in Nat
      /\ \A m \in Nodes : s < m /\ m < n => ~ StatementAt(m)
  BY DEF LastBefore, Nodes
<1>2. k \in Nodes /\ KeywordAt(k) /\ ast[s].first_child = k
  BY <1>1 DEF PlacesRight
<1>3. "IDENT" \notin P!STATEMENT_START_KEYWORDS
  BY DEF P!STATEMENT_START_KEYWORDS
<1>4. k < n /\ k \in Nat
  <2>1. k # n
    BY <1>2, <1>3 DEF KeywordAt, NameAt
  <2>. QED  BY <1>1, <2>1
<1>5. PICK q : q = ast[k].value
  OBVIOUS
<1>6. /\ Len(tokens) \in Nat /\ q \in Nat /\ p \in Nat /\ 1 <= q /\ q < p /\ p <= Len(tokens)
      /\ tokens[q] \in P!STATEMENT_START_KEYWORDS
  <2>1. ast[k].type = "TOKEN" /\ ast[n].type = "TOKEN"
    BY <1>2 DEF KeywordAt, NameAt, IsToken
  <2>2. ast[k].value \in Places \ skipped /\ ast[n].value \in Places \ skipped
        /\ ast[k].value < ast[n].value
    BY <1>2, <1>4, <2>1 DEF TokensRight
  <2>. QED  BY <1>2, <1>5, <2>2 DEF TokensRight, Places, KeywordAt, TokenAt
<1>7. ASSUME NEW r \in q + 1 .. p, tokens[r] \in P!STATEMENT_START_KEYWORDS PROVE FALSE
  <2>1. r \in Places /\ r \notin skipped
    BY <1>6, <1>7 DEF TokensRight, Places
  <2>2. PICK m \in Nodes : ast[m].type = "TOKEN" /\ ast[m].value = r
    BY <2>1 DEF TokensRight
  <2>3. KeywordAt(m) /\ m \in Nat /\ m # n
    BY <1>3, <1>7, <2>2 DEF KeywordAt, NameAt, IsToken, TokenAt, Nodes
  <2>4. m - 1 \in Nodes /\ StatementAt(m - 1)
    BY <2>2, <2>3 DEF PlacesRight
  <2>5. ast[k].type = "TOKEN" /\ ast[n].type = "TOKEN"
    BY <1>2 DEF KeywordAt, NameAt, IsToken
  <2>6. m < k => r < q
    BY <1>2, <1>5, <2>2, <2>5 DEF TokensRight
  <2>7. n < m => p < r
    BY <2>2, <2>5 DEF TokensRight
  <2>8. m = k => r = q
    BY <1>5, <2>2
  <2>9. k < m /\ m < n
    BY <1>4, <1>6, <1>7, <2>3, <2>6, <2>7, <2>8
  <2>. QED  BY <1>1, <2>3, <2>4, <2>9
<1>8. StatementStart(p) = q
  <2>1. /\ q \in 1 .. p /\ tokens[q] \in P!STATEMENT_START_KEYWORDS
        /\ \A r \in q + 1 .. p : tokens[r] \notin P!STATEMENT_START_KEYWORDS
    BY <1>6, <1>7
  <2>2. ASSUME NEW x \in 1 .. p, tokens[x] \in P!STATEMENT_START_KEYWORDS,
               \A r \in x + 1 .. p : tokens[r] \notin P!STATEMENT_START_KEYWORDS
        PROVE  x = q
    <3>1. x \notin q + 1 .. p
      BY <2>1, <2>2
    <3>2. q \notin x + 1 .. p
      BY <2>1, <2>2
    <3>. QED  BY <1>6, <3>1, <3>2
  <2>. QED  BY <2>1, <2>2 DEF StatementStart
<1>. QED  BY <1>2, <1>5, <1>6, <1>7, <1>8

\* The path goes through the nodes above its last one.
Lineage(p, anc) == \A d \in 1 .. Len(p) : anc[p[d]] = {p[e] : e \in 1 .. d - 1}

LEMMA LineageGrows ==
  ASSUME NEW p, p \in Seq(Nodes), NEW anc, Lineage(p, anc), NEW x \in Nodes,
         anc[x] = {p[e] : e \in 1 .. Len(p)}, NEW q, q = Append(p, x)
  PROVE  Lineage(q, anc)
<1>1. PICK k : k = Len(p)
  OBVIOUS
<1>2. /\ k \in Nat /\ Len(q) = k + 1 /\ q[k + 1] = x
      /\ \A d \in 1 .. k : q[d] = p[d]
  BY <1>1
<1>3. ASSUME NEW d \in 1 .. k + 1 PROVE anc[q[d]] = {q[e] : e \in 1 .. d - 1}
  <2>1. \A e \in 1 .. d - 1 : e \in 1 .. k /\ q[e] = p[e]
    BY <1>2
  <2>2. {q[e] : e \in 1 .. d - 1} = {p[e] : e \in 1 .. d - 1}
    BY <2>1
  <2>3. CASE d = k + 1
    <3>1. d - 1 = k /\ q[d] = x
      BY <1>2, <2>3
    <3>. QED  BY <1>1, <2>2, <3>1
  <2>4. CASE d # k + 1
    <3>1. d \in 1 .. k
      BY <1>2, <2>4
    <3>2. q[d] = p[d] /\ anc[p[d]] = {p[e] : e \in 1 .. d - 1}
      BY <1>1, <1>2, <3>1 DEF Lineage
    <3>. QED  BY <2>2, <3>2
  <2>. QED  BY <2>3, <2>4
<1>. QED  BY <1>2, <1>3 DEF Lineage

LEMMA LineageEnds ==
  ASSUME NEW p, NEW par, ChainOf(p, par), p # <<>>, Len(ast) \in Nat, NEW anc, Lineage(p, anc),
         NEW up, up = SubSeq(p, 1, Len(p) - 1)
  PROVE  /\ Lineage(up, anc)
         /\ anc[p[Len(p)]] = EnteredOf(p, "enter")
         /\ anc[p[Len(p)]] = EnteredOf(up, "leave")
         /\ anc[p[Len(p)]] \cup {p[Len(p)]} = EnteredOf(p, "leave")
<1>1. PICK k : k = Len(p)
  OBVIOUS
<1>2. /\ k \in Nat \ {0} /\ Len(up) = k - 1 /\ \A d \in 1 .. k - 1 : up[d] = p[d]
      /\ EnteredOf(p, "leave") = EnteredOf(p, "enter") \cup {p[k]}
  BY <1>1, PathEnd
<1>3. anc[p[k]] = {p[e] : e \in 1 .. k - 1}
  <2>1. k \in 1 .. k
    BY <1>2
  <2>. QED  BY <1>1, <2>1 DEF Lineage
<1>4. EnteredOf(p, "enter") = {p[e] : e \in 1 .. k - 1} /\ EnteredOf(p, "leave") = {p[e] : e \in 1 .. k}
  BY <1>1 DEF EnteredOf
<1>5. EnteredOf(up, "leave") = EnteredOf(p, "enter")
  BY PathEnd
<1>6. ASSUME NEW d \in 1 .. k - 1 PROVE anc[up[d]] = {up[e] : e \in 1 .. d - 1}
  <2>1. d \in 1 .. k /\ \A e \in 1 .. d - 1 : e \in 1 .. k - 1
    BY <1>2
  <2>2. anc[p[d]] = {p[e] : e \in 1 .. d - 1} /\ up[d] = p[d]
    BY <1>1, <1>2, <2>1 DEF Lineage
  <2>3. {up[e] : e \in 1 .. d - 1} = {p[e] : e \in 1 .. d - 1}
    BY <1>2, <2>1
  <2>. QED  BY <2>2, <2>3
<1>. QED  BY <1>1, <1>2, <1>3, <1>4, <1>5, <1>6 DEF Lineage

\* A traversal keeps to it.
LEMMA WalkLineage ==
  ASSUME NEW par, Sound(path, move, statement_stack, par), path # <<>>, Walk,
         Len(ast) \in Nat, NEW end, Visits(end, par), NEW anc, AncestorsRight(anc),
         Lineage(path, anc)
  PROVE  Lineage(path', anc)
<1>1. PICK c, up, q : c = Current /\ up = Above /\ q = path'
  OBVIOUS
<1>2. /\ Lineage(up, anc)
      /\ anc[c] = {up[e] : e \in 1 .. Len(up)}
      /\ anc[c] \cup {c} = {path[e] : e \in 1 .. Len(path)}
      /\ c \in Nodes /\ up \in Seq(Nodes) /\ path \in Seq(Nodes)
  <2>1. ChainOf(path, par) /\ up = SubSeq(path, 1, Len(path) - 1) /\ c = path[Len(path)]
    BY <1>1 DEF Sound, Above, Current
  <2>2. path \in Seq(Nodes)
    BY <2>1 DEF ChainOf
  <2>3. up \in Seq(Nodes) /\ c \in Nodes
    BY <2>1, PathEnd
  <2>4. /\ Lineage(up, anc)
        /\ anc[c] = {up[e] : e \in 1 .. Len(up)}
        /\ anc[c] \cup {c} = {path[e] : e \in 1 .. Len(path)}
    <3>1. /\ Lineage(up, anc)
          /\ anc[path[Len(path)]] = {up[e] : e \in 1 .. Len(up)}
          /\ anc[path[Len(path)]] \cup {path[Len(path)]} = {path[e] : e \in 1 .. Len(path)}
      <4>1. ChainOf(path, par) /\ up = SubSeq(path, 1, Len(path) - 1)
        BY <2>1
      <4>2. Lineage(up, anc)
        BY <4>1, LineageEnds
      <4>3. anc[path[Len(path)]] = EnteredOf(up, "leave")
        BY <4>1, LineageEnds
      <4>4. anc[path[Len(path)]] \cup {path[Len(path)]} = EnteredOf(path, "leave")
        BY <4>1, LineageEnds
      <4>5. /\ EnteredOf(path, "leave") = {path[e] : e \in 1 .. Len(path)}
            /\ EnteredOf(up, "leave") = {up[e] : e \in 1 .. Len(up)}
        BY DEF EnteredOf
      <4>. QED  BY <4>2, <4>3, <4>4, <4>5
    <3>. QED  BY <2>1, <3>1
  <2>. QED  BY <2>2, <2>3, <2>4
<1>3. /\ ast[c].first_child # NO_NODE =>
           ast[c].first_child \in Nodes /\ anc[ast[c].first_child] = anc[c] \cup {c}
      /\ ast[c].next_sibling # NO_NODE =>
           ast[c].next_sibling \in Nodes /\ anc[ast[c].next_sibling] = anc[c]
  <2>1. ast[c].first_child # NO_NODE => ast[c].first_child \in Nodes
    BY <1>2 DEF Visits
  <2>2. ast[c].next_sibling # NO_NODE => ast[c].next_sibling \in c + 1 .. Len(ast)
    BY <1>2 DEF Visits
  <2>3. ast[c].next_sibling # NO_NODE => ast[c].next_sibling \in Nodes
    BY <1>2, <2>2 DEF Nodes
  <2>. QED  BY <1>2, <2>1, <2>3 DEF AncestorsRight
<1>4. NO_NODE = 0 /\ c # 0 /\ NextSibling(ast, c) = ast[c].next_sibling
      /\ (FirstChild(ast, c) # NO_NODE => FirstChild(ast, c) = ast[c].first_child)
  BY <1>2 DEF NO_NODE, Nodes, NextSibling, FirstChild
<1>5. \/ q = path \/ q = <<>> \/ q = up
      \/ FirstChild(ast, c) # NO_NODE /\ q = Append(path, FirstChild(ast, c))
      \/ NextSibling(ast, c) # NO_NODE /\ q = Append(up, NextSibling(ast, c))
  BY <1>1 DEF Walk, EnterGrammar, LeaveNode
<1>6. CASE q = <<>>
  <2>1. Lineage(q, anc)
    BY <1>6 DEF Lineage
  <2>. QED  BY <1>1, <2>1
<1>7. CASE FirstChild(ast, c) # NO_NODE /\ q = Append(path, FirstChild(ast, c))
  <2>1. PICK x : x = FirstChild(ast, c)
    OBVIOUS
  <2>2. x \in Nodes /\ anc[x] = {path[e] : e \in 1 .. Len(path)} /\ q = Append(path, x)
    BY <1>2, <1>3, <1>4, <1>7, <2>1
  <2>3. Lineage(q, anc)
    BY <1>2, <2>2, LineageGrows
  <2>. QED  BY <1>1, <2>3
<1>8. CASE NextSibling(ast, c) # NO_NODE /\ q = Append(up, NextSibling(ast, c))
  <2>1. PICK x : x = NextSibling(ast, c)
    OBVIOUS
  <2>2. x \in Nodes /\ anc[x] = {up[e] : e \in 1 .. Len(up)} /\ q = Append(up, x)
    BY <1>2, <1>3, <1>4, <1>8, <2>1
  <2>3. Lineage(q, anc)
    BY <1>2, <2>2, LineageGrows
  <2>. QED  BY <1>1, <2>3
<1>9. q = path \/ q = up => Lineage(q, anc)
  BY <1>2
<1>. QED  BY <1>1, <1>5, <1>6, <1>7, <1>8, <1>9

\* The last statement of the stack is the innermost one entered.
LEMMA TopStatement ==
  ASSUME NEW E, Len(ast) \in Nat, StatementsIn(statement_stack, E), E \subseteq Nodes,
         NEW s \in E, StatementAt(s), \A m \in E : StatementAt(m) => m <= s
  PROVE  statement_stack # <<>> /\ StatementAncestor = s
<1>1. PICK stk, k : stk = statement_stack /\ k = Len(stk)
  OBVIOUS
<1>2. /\ stk \in Seq(Nodes) /\ k \in Nat
      /\ {stk[d] : d \in 1 .. k} = {n \in E : StatementAt(n)}
      /\ \A d, e \in 1 .. k : d < e => stk[d] < stk[e]
  BY <1>1 DEF StatementsIn, StatementAt
<1>3. PICK d \in 1 .. k : stk[d] = s
  BY <1>2
<1>4. k \in 1 .. k /\ stk[k] \in E /\ StatementAt(stk[k])
  BY <1>2, <1>3
<1>5. d = k
  <2>0. PICK t : t = stk[k]
    OBVIOUS
  <2>1. t \in E /\ StatementAt(t) /\ t \in Nodes /\ s \in Nodes
    BY <1>4, <2>0
  <2>3. t <= s
    BY <2>1
  <2>4. t \in Nat /\ s \in Nat
    BY <2>1 DEF Nodes
  <2>2. d < k => s < stk[k]
    BY <1>2, <1>3, <1>4
  <2>. QED  BY <1>2, <2>0, <2>2, <2>3, <2>4
<1>6. stk # <<>> /\ stk[Len(stk)] = s
  BY <1>1, <1>3, <1>4, <1>5
<1>. QED  BY <1>1, <1>6 DEF StatementAncestor

LEMMA ParentIs ==
  ASSUME NEW par, Sound(path, move, statement_stack, par), path # <<>>, Len(ast) \in Nat,
         Current # Head_
  PROVE  /\ Parent = par[Current] /\ Parent \in Nodes /\ Parent # NO_NODE
         /\ Parent \in EnteredOf(path, "enter")
<1>1. PICK k : k = Len(path)
  OBVIOUS
<1>2. ChainOf(path, par) /\ k \in Nat \ {0} /\ path[k] = Current
  BY <1>1, PathEnd DEF Sound, Current
<1>3. k > 1
  BY <1>2 DEF ChainOf
<1>4. Parent = path[k - 1] /\ k - 1 \in 1 .. k /\ k \in 2 .. k /\ k - 1 \in 1 .. k - 1
  BY <1>1, <1>2, <1>3 DEF Parent
<1>5. Parent \in Nodes /\ par[path[k]] = path[k - 1]
  BY <1>1, <1>2, <1>4 DEF ChainOf
<1>6. Parent \in EnteredOf(path, "enter")
  BY <1>1, <1>4 DEF EnteredOf
<1>. QED  BY <1>2, <1>4, <1>5, <1>6 DEF Nodes, NO_NODE

\* Tokens that have the same place are the same node.
LEMMA SameValue ==
  ASSUME Len(ast) \in Nat, TokensRight, NEW m \in Nodes, NEW n \in Nodes,
         IsToken(ast, m), IsToken(ast, n), ast[m].value = ast[n].value
  PROVE  m = n
<1>1. m \in Nat /\ n \in Nat /\ ast[m].type = "TOKEN" /\ ast[n].type = "TOKEN"
  BY DEF Nodes, IsToken
<1>2. ast[m].value \in Nat
  BY <1>1 DEF TokensRight, Places
<1>3. m < n => ast[m].value < ast[n].value
  BY <1>1 DEF TokensRight
<1>4. n < m => ast[n].value < ast[m].value
  BY <1>1 DEF TokensRight
<1>. QED  BY <1>1, <1>2, <1>3, <1>4

\* A keyword in the text has a node, the first child of a statement.
LEMMA KeywordNode ==
  ASSUME Len(ast) \in Nat, TokensRight, PlacesRight, NEW end, NEW par, Visits(end, par),
         NEW q \in Places, tokens[q] \in P!STATEMENT_START_KEYWORDS
  PROVE  \E m \in Nodes : KeywordAt(m) /\ ast[m].value = q /\ m - 1 \in Nodes /\ StatementAt(m - 1)
                          /\ par[m] = m - 1
<1>1. q \notin skipped
  BY DEF TokensRight
<1>2. PICK m \in Nodes : ast[m].type = "TOKEN" /\ ast[m].value = q
  BY <1>1 DEF TokensRight
<1>3. KeywordAt(m)
  BY <1>2 DEF KeywordAt, IsToken, TokenAt, Nodes
<1>4. PICK x : x = m - 1
  OBVIOUS
<1>5. x \in Nodes /\ StatementAt(x) /\ ast[x].first_child = m /\ m = x + 1 /\ m # 0
  BY <1>3, <1>4 DEF PlacesRight, Nodes
<1>6. par[m] = x
  BY <1>5 DEF Visits, NO_NODE
<1>. QED  BY <1>2, <1>3, <1>4, <1>5, <1>6

\* Only what follows a LABEL or a GOTO is taken for the name of a label.
LEMMA NamesLabelMeans ==
  ASSUME Len(ast) \in Nat, TokensRight, NamesRight, PlacesRight,
         NEW end, NEW par, Visits(end, par), Sound(path, move, statement_stack, par),
         path # <<>>, NEW n \in Nodes, n = Current, NameAt(n), NEW p, p = ast[n].value
  PROVE  NamesLabel <=> p \in IdentsAfter("LABEL") \cup IdentsAfter("GOTO")
<1>1. PICK m : m = n - 1
  OBVIOUS
<1>2. /\ m \in Nodes /\ n = m + 1 /\ n # Head_ /\ n # 0 /\ m # 0 /\ NO_NODE = 0
      /\ \/ ~ StatementAt(m) /\ ast[m].first_child = n
         \/ IsToken(ast, m) /\ TokenAt(m) \in NAMERS /\ ast[m].next_sibling = n
  BY <1>1 DEF PlacesRight, Nodes, Head_, NO_NODE
<1>3. Parent = par[n] /\ Parent # NO_NODE
  BY <1>2, ParentIs
<1>4. /\ p \in Places /\ p \in Nat /\ tokens[p] = "IDENT" /\ ast[n].type = "TOKEN"
  BY DEF NameAt, IsToken, TokenAt, TokensRight, Places
<1>5. {"LABEL", "GOTO"} \subseteq NAMERS /\ NAMERS \subseteq P!STATEMENT_START_KEYWORDS
  BY DEF NAMERS, P!STATEMENT_START_KEYWORDS
<1>6. CASE ~ StatementAt(m) /\ ast[m].first_child = n
  <2>1. Parent = m
    BY <1>2, <1>3, <1>6 DEF Visits
  <2>2. ~ NamesLabel
    BY <1>6, <2>1 DEF NamesLabel, StatementAt
  <2>3. ASSUME NEW keyword \in {"LABEL", "GOTO"}, p \in IdentsAfter(keyword) PROVE FALSE
    <3>1. PICK q : q = p - 1
      OBVIOUS
    <3>2. q \in Places /\ tokens[q] = keyword /\ p = q + 1
      BY <1>4, <2>3, <3>1 DEF IdentsAfter, Places
    <3>3. PICK x \in Nodes : KeywordAt(x) /\ ast[x].value = q /\ StatementAt(x - 1) /\ par[x] = x - 1
      BY <1>5, <3>2, KeywordNode
    <3>4. ast[x].type = "TOKEN" /\ TokenAt(x) \in NAMERS
      BY <1>5, <3>2, <3>3 DEF KeywordAt, IsToken, TokenAt
    <3>5. PICK y : y = ast[x].next_sibling
      OBVIOUS
    <3>6. y # NO_NODE /\ IsToken(ast, y) /\ ast[y].value = p
      BY <1>4, <3>2, <3>3, <3>4, <3>5 DEF NamesRight, IdentFollows
    <3>7. y \in Nodes /\ IsToken(ast, n)
      BY <3>6 DEF IsToken, Nodes, NameAt
    <3>8. y = n
      BY <3>6, <3>7, SameValue
    <3>9. par[n] = par[x]
      <4>1. ast[x].next_sibling # NO_NODE
        BY <3>5, <3>6
      <4>2. par[ast[x].next_sibling] = par[x]
        BY <4>1 DEF Visits
      <4>. QED  BY <3>5, <3>8, <4>2
    <3>. QED  BY <1>3, <1>6, <2>1, <3>3, <3>9
  <2>. QED  BY <2>2, <2>3
<1>7. CASE IsToken(ast, m) /\ TokenAt(m) \in NAMERS /\ ast[m].next_sibling = n
  <2>1. KeywordAt(m)
    BY <1>5, <1>7 DEF KeywordAt
  <2>2. PICK x : x = m - 1
    OBVIOUS
  <2>3. x \in Nodes /\ StatementAt(x) /\ ast[x].first_child = m /\ m = x + 1
    BY <1>2, <2>1, <2>2 DEF PlacesRight, Nodes
  <2>4. par[m] = x /\ par[n] = par[m]
    BY <1>2, <1>7, <2>3 DEF Visits
  <2>5. NamesLabel <=> TokenAt(m) \in {"LABEL", "GOTO"}
    BY <1>3, <1>7, <2>3, <2>4 DEF NamesLabel, StatementAt, FirstChild
  <2>6. ast[m].value + 1 = p
    BY <1>2, <1>7 DEF NamesRight, IsToken
  <2>7. ast[m].value \in Places
    BY <1>2, <1>7 DEF TokensRight, IsToken
  <2>8. ast[m].value = p - 1 /\ p > 1
    <3>1. Len(tokens) \in Nat
      BY DEF TokensRight
    <3>2. PICK v : v = ast[m].value
      OBVIOUS
    <3>3. v \in Nat /\ 1 <= v /\ v + 1 = p
      BY <2>6, <2>7, <3>1, <3>2 DEF Places
    <3>. QED  BY <3>2, <3>3
  <2>9. TokenAt(m) = tokens[p - 1]
    BY <2>8 DEF TokenAt
  <2>. QED  BY <1>4, <2>5, <2>8, <2>9 DEF IdentsAfter
<1>. QED  BY <1>2, <1>6, <1>7

\* The statement on top of the stack at a name, and at a keyword.
LEMMA OwnerIs ==
  ASSUME Len(ast) \in Nat, NEW par, Sound(path, move, statement_stack, par), path # <<>>,
         NEW anc, AncestorsRight(anc), Lineage(path, anc), AtToken,
         NEW n \in Nodes, n = Current, NameAt(n)
  PROVE  LastBefore(StatementAncestor, n) /\ statement_stack # <<>>
<1>1. PICK E : E = EnteredOf(path, "enter")
  OBVIOUS
<1>2. move = "enter" /\ ChainOf(path, par) /\ n = path[Len(path)]
  BY DEF AtToken, Sound, Current
<1>3. StatementsIn(statement_stack, E)
  BY <1>1, <1>2 DEF Sound
<1>4. E \subseteq Nodes /\ \A x \in E : x < n
  BY <1>1, <1>2, PathEnd
<1>5. anc[path[Len(path)]] = EnteredOf(path, "enter")
  BY <1>2, LineageEnds
<1>6. PICK s \in E : LastBefore(s, n)
  BY <1>1, <1>2, <1>5 DEF AncestorsRight
<1>7. ASSUME NEW m \in E, StatementAt(m) PROVE m <= s
  <2>1. m \in Nodes /\ m < n /\ m \in Nat /\ s \in Nat
    BY <1>4, <1>6 DEF Nodes
  <2>2. ~ (s < m)
    BY <1>6, <1>7, <2>1 DEF LastBefore
  <2>. QED  BY <2>1, <2>2
<1>8. StatementAt(s)
  BY <1>6 DEF LastBefore
<1>. QED  BY <1>3, <1>4, <1>6, <1>7, <1>8, TopStatement

LEMMA KeywordOwner ==
  ASSUME Len(ast) \in Nat, PlacesRight, NEW end, NEW par, Visits(end, par),
         Sound(path, move, statement_stack, par), path # <<>>, AtToken,
         NEW n \in Nodes, n = Current, KeywordAt(n)
  PROVE  StatementAncestor = n - 1
<1>1. PICK E, s : E = EnteredOf(path, "enter") /\ s = n - 1
  OBVIOUS
<1>2. move = "enter" /\ ChainOf(path, par) /\ n = path[Len(path)]
  BY DEF AtToken, Sound, Current
<1>3. StatementsIn(statement_stack, E)
  BY <1>1, <1>2 DEF Sound
<1>4. E \subseteq Nodes /\ \A x \in E : x < n
  BY <1>1, <1>2, PathEnd
<1>5. s \in Nodes /\ StatementAt(s) /\ ast[s].first_child = n /\ n = s + 1 /\ n # Head_ /\ n # NO_NODE
  BY <1>1 DEF PlacesRight, Nodes, Head_, NO_NODE
<1>6. par[n] = s
  BY <1>5 DEF Visits
<1>7. s \in E
  BY <1>1, <1>5, <1>6, ParentIs
<1>8. ASSUME NEW m \in E PROVE m <= s
  <2>1. m < n /\ m \in Nat /\ s \in Nat
    BY <1>4, <1>5 DEF Nodes
  <2>. QED  BY <1>5, <2>1
<1>9. StatementAncestor = s
  BY <1>3, <1>4, <1>5, <1>7, <1>8, TopStatement
<1>. QED  BY <1>1, <1>9

LEMMA FirstPlace ==
  ASSUME Len(tokens) \in Nat, NEW keyword, NEW name,
         NEW q \in IdentsAfter(keyword), text[q] = name
  PROVE  /\ FirstOf(keyword, name) \in IdentsAfter(keyword)
         /\ text[FirstOf(keyword, name)] = name
         /\ \A r \in IdentsAfter(keyword) : text[r] = name => FirstOf(keyword, name) <= r
<1>1. PICK S : S = {r \in IdentsAfter(keyword) : text[r] = name}
  OBVIOUS
<1>2. S \subseteq Nat /\ S # {}
  BY <1>1 DEF IdentsAfter, Places
<1>3. PICK p \in S : \A r \in S : ~ (<<r, p>> \in OpToRel(<, Nat))
  BY <1>2, NatLessThanWellFounded, WFMin
<1>4. \A r \in S : p <= r
  <2>1. \A r \in S : r \in Nat
    BY <1>2
  <2>2. \A r \in S : ~ (r < p)
    BY <1>3, <2>1 DEF OpToRel
  <2>. QED  BY <2>1, <2>2
<1>5. \E x \in IdentsAfter(keyword) :
        /\ text[x] = name
        /\ \A r \in IdentsAfter(keyword) : text[r] = name => x <= r
  BY <1>1, <1>3, <1>4
<1>. QED  BY <1>5 DEF FirstOf

\* The tables of the second traversal, in terms of the text.
TablesMean ==
  /\ DOMAIN variable_table = {text[p] : p \in IdentsAfter("LET")}
  /\ DOMAIN label_table = Labels
  /\ \A name \in DOMAIN variable_table : variable_table[name].file_pos = FirstOf("LET", name)
  /\ \A name \in DOMAIN label_table : label_table[name].file_pos = FirstOf("LABEL", name)

\* The statement noted for a variable is that of the LET it was found at.
ParentsIn(table) ==
  \A name \in DOMAIN table : \E n \in Nodes :
    /\ IsToken(ast, n) /\ TokenAt(n) = "LET"
    /\ table[name].file_pos = ast[n].value + 1
    /\ table[name].parent_statement = n - 1

\* The last check of an identifier in terms of the text.
LEMMA OwnDeclarationIs ==
  ASSUME Len(ast) \in Nat, TokensRight, NamesRight, PlacesRight, TablesMean,
         ParentsIn(variable_table), LastBefore(StatementAncestor, Current),
         statement_stack # <<>>, NEW n \in Nodes, n = Current, NameAt(n), NEW p, p = ast[n].value,
         text[p] \in DOMAIN variable_table, NEW d, d = FirstOf("LET", text[p])
  PROVE  InOwnDeclaration <=> StatementStart(p) = d - 1 /\ d # p
<1>1. /\ p \in Nat /\ IsToken(ast, n) /\ Name = text[p] /\ Len(tokens) \in Nat
      /\ variable_table[Name].file_pos = d
  BY DEF NameAt, IsToken, TokensRight, Places, Name, TextAt, TablesMean
<1>2. PICK L \in Nodes :
        /\ IsToken(ast, L) /\ TokenAt(L) = "LET"
        /\ d = ast[L].value + 1 /\ variable_table[Name].parent_statement = L - 1
  BY <1>1 DEF ParentsIn
<1>3. d \in IdentsAfter("LET") /\ text[d] = text[p]
  BY <1>1, FirstPlace DEF TablesMean
<1>4. d \in Places /\ tokens[d] = "IDENT" /\ ast[L].value \in Nat /\ ast[L].value = d - 1 /\ L \in Nat
      /\ d \in Nat
  <2>1. ast[L].value \in Places
    BY <1>2 DEF TokensRight, IsToken
  <2>. QED  BY <1>1, <1>2, <1>3, <2>1 DEF IdentsAfter, Places, Nodes
<1>5. PICK y : y = ast[L].next_sibling
  OBVIOUS
<1>6. /\ y \in Nodes /\ IsToken(ast, y) /\ TokenAt(y) = "IDENT" /\ ast[y].value = d
      /\ NextSibling(ast, L) = y
  <2>1. ast[L].type = "TOKEN" /\ TokenAt(L) \in NAMERS
    BY <1>2 DEF NAMERS, IsToken
  <2>2. IdentFollows(L) /\ ast[y].value = d
    BY <1>2, <1>4, <1>5, <2>1 DEF NamesRight
  <2>. QED  BY <1>5, <2>2 DEF IdentFollows, IsToken, NextSibling, Nodes, NO_NODE
<1>7. PICK s, k : s = StatementAncestor /\ k = s + 1
  OBVIOUS
<1>8. /\ k \in Nodes /\ KeywordAt(k) /\ ast[s].first_child = k
      /\ ast[k].value \in Nat /\ StatementStart(p) = ast[k].value
  BY <1>7, StatementStarts
<1>9. s \in Nodes /\ s \in Nat /\ IsGrammar(ast, s) /\ FirstChild(ast, s) = k /\ IsToken(ast, k)
  BY <1>7, <1>8 DEF LastBefore, StatementAt, FirstChild, Nodes, KeywordAt
<1>10. s = L - 1 <=> k = L
  BY <1>4, <1>7, <1>9
<1>11. k = L <=> StatementStart(p) = d - 1
  <2>1. ast[k].value = ast[L].value => k = L
    BY <1>2, <1>8, <1>9, SameValue
  <2>. QED  BY <1>4, <1>8, <2>1
<1>12. y = n <=> d = p
  BY <1>1, <1>6, SameValue
<1>13. ASSUME InOwnDeclaration PROVE StatementStart(p) = d - 1 /\ d # p
  <2>1. s = L - 1 /\ NextSibling(ast, k) # n
    BY <1>2, <1>7, <1>9, <1>13 DEF InOwnDeclaration
  <2>. QED  BY <1>6, <1>10, <1>11, <1>12, <2>1
<1>14. ASSUME StatementStart(p) = d - 1, d # p PROVE InOwnDeclaration
  <2>1. k = L /\ s = L - 1 /\ y # n
    BY <1>10, <1>11, <1>12, <1>14
  <2>2. /\ FirstChild(ast, StatementAncestor) = L /\ NextSibling(ast, L) = y
        /\ StatementAncestor = variable_table[Name].parent_statement
        /\ TextAt(y) = Name /\ y # Current
    BY <1>1, <1>2, <1>3, <1>6, <1>7, <1>9, <2>1 DEF TextAt
  <2>. QED  BY <1>2, <1>6, <2>2 DEF InOwnDeclaration
<1>. QED  BY <1>13, <1>14

\* An identifier is reported exactly when no declaration of it is complete.
LEMMA VariableRight ==
  ASSUME Len(ast) \in Nat, TokensRight, NamesRight, PlacesRight, TablesMean,
         ParentsIn(variable_table), LastBefore(StatementAncestor, Current),
         statement_stack # <<>>, NEW n \in Nodes, n = Current, NameAt(n), NEW p, p = ast[n].value
  PROVE  VariableErrors = {} <=> DeclaredBefore(p)
<1>1. /\ p \in Nat /\ IsToken(ast, n) /\ Name = text[p] /\ Len(tokens) \in Nat /\ Place(n) = p
      /\ tokens[p] = "IDENT"
  BY DEF NameAt, IsToken, TokensRight, Places, Name, TextAt, Place, TokenAt
<1>2. PICK s, k, q : s = StatementAncestor /\ k = s + 1 /\ q = StatementStart(p)
  OBVIOUS
<1>3. /\ q \in Nat /\ q < p
      /\ \A r \in q + 1 .. p : tokens[r] \notin P!STATEMENT_START_KEYWORDS
  BY <1>2, StatementStarts
<1>4. CASE text[p] \notin DOMAIN variable_table
  <2>1. VariableErrors = {"undefined"}
    BY <1>1, <1>4 DEF VariableErrors
  <2>2. ~ DeclaredBefore(p)
    BY <1>4 DEF TablesMean, DeclaredBefore
  <2>. QED  BY <2>1, <2>2
<1>5. CASE text[p] \in DOMAIN variable_table
  <2>1. PICK d : d = FirstOf("LET", text[p])
    OBVIOUS
  <2>2. /\ d \in IdentsAfter("LET") /\ text[d] = text[p]
        /\ \A r \in IdentsAfter("LET") : text[r] = text[p] => d <= r
    BY <1>1, <1>5, <2>1, FirstPlace DEF TablesMean
  <2>3. \A r \in IdentsAfter("LET") : r \in Nat /\ r > 1 /\ tokens[r - 1] = "LET" /\ tokens[r] = "IDENT"
    BY <1>1 DEF IdentsAfter, Places
  <2>4. variable_table[Name].file_pos = d
    BY <1>1, <1>5, <2>1 DEF TablesMean
  <2>5. CASE p < d
    <3>1. VariableErrors = {"used before declaration"}
      BY <1>1, <1>5, <2>4, <2>5 DEF VariableErrors
    <3>2. ASSUME NEW r \in IdentsAfter("LET"), text[r] = text[p], r = p \/ r < q PROVE FALSE
      BY <1>1, <1>3, <2>2, <2>3, <2>5, <3>2
    <3>. QED  BY <1>2, <3>1, <3>2 DEF DeclaredBefore
  <2>6. CASE ~ (p < d)
    <3>1. VariableErrors = {} <=> ~ InOwnDeclaration
      BY <1>1, <1>5, <2>4, <2>6 DEF VariableErrors
    <3>2. InOwnDeclaration <=> q = d - 1 /\ d # p
      BY <1>2, <1>5, <2>1, OwnDeclarationIs
    <3>3. "LET" \in P!STATEMENT_START_KEYWORDS
      BY DEF P!STATEMENT_START_KEYWORDS
    <3>4. \A r \in IdentsAfter("LET") : r <= p => r - 1 <= q
      BY <1>1, <1>3, <2>3, <3>3
    <3>5. ASSUME q = d - 1, d # p, NEW r \in IdentsAfter("LET"), text[r] = text[p],
                 r = p \/ r < q
          PROVE  FALSE
      <4>1. d <= r /\ r \in Nat /\ d \in Nat
        BY <2>2, <2>3, <3>5
      <4>2. r = p
        BY <1>3, <3>5, <4>1
      <4>3. p - 1 <= q
        BY <1>1, <3>4, <3>5, <4>1, <4>2
      <4>. QED  BY <1>1, <1>3, <2>6, <3>5, <4>1, <4>3
    <3>6. ASSUME ~ (q = d - 1 /\ d # p) PROVE DeclaredBefore(p)
      <4>1. CASE d = p
        BY <2>2, <4>1 DEF DeclaredBefore
      <4>2. CASE d # p
        <5>1. d \in Nat /\ d <= p /\ d - 1 <= q /\ q # d - 1
          BY <1>1, <2>2, <2>3, <2>6, <3>4, <3>6, <4>2
        <5>2. q # d
          <6>1. tokens[q] \in P!STATEMENT_START_KEYWORDS
            BY <1>2, StatementStarts DEF KeywordAt, TokenAt
          <6>. QED  BY <2>2, <2>3, <6>1 DEF P!STATEMENT_START_KEYWORDS
        <5>3. d < q
          BY <1>3, <5>1, <5>2
        <5>. QED  BY <1>2, <2>2, <5>3 DEF DeclaredBefore
      <4>. QED  BY <4>1, <4>2
    <3>7. q = d - 1 /\ d # p => ~ DeclaredBefore(p)
      BY <1>2, <3>5 DEF DeclaredBefore
    <3>. QED  BY <3>1, <3>2, <3>6, <3>7
  <2>. QED  BY <1>1, <2>2, <2>3, <2>5, <2>6
<1>. QED  BY <1>4, <1>5

\* What the analyzer should report at the token at p, and nothing else.
WrongAt(p) ==
  \/ tokens[p] = "GOTO" /\ text[p + 1] \notin Labels
  \/ tokens[p] = "LABEL" /\ \E q \in IdentsAfter("LABEL") : text[q] = text[p + 1] /\ q < p + 1
  \/ p \in VariablePlaces /\ text[p] \notin Labels /\ ~ DeclaredBefore(p)

KINDS ==
  {"unknown label", "duplicate label", "undefined", "used before declaration", "own declaration"}

REPORTS == [kind : KINDS, place : Nat]

LEMMA Reported ==
  ASSUME semantic \in Seq(REPORTS), NEW kind \in KINDS, NEW place \in Nat, Report(kind, place)
  PROVE  semantic' \in Seq(REPORTS) /\ semantic' # <<>>
<1>1. PICK r, s : r = [kind |-> kind, place |-> place] /\ s = Append(semantic, r)
  OBVIOUS
<1>2. r \in REPORTS
  BY <1>1 DEF REPORTS
<1>3. s \in Seq(REPORTS) /\ Len(s) = Len(semantic) + 1 /\ Len(semantic) \in Nat
  BY <1>1, <1>2
<1>4. s # <<>>
  BY <1>3
<1>5. semantic' = s
  BY <1>1 DEF Report
<1>. QED  BY <1>3, <1>4, <1>5

\* Each callback of the second pass reports exactly what is wrong at its token.
LEMMA TokenChecked ==
  ASSUME Len(ast) \in Nat, TokensRight, NamesRight, PlacesRight, TablesMean,
         ParentsIn(variable_table), NEW end, NEW par, Visits(end, par),
         Sound(path, move, statement_stack, par), path # <<>>,
         NEW anc, AncestorsRight(anc), Lineage(path, anc), CheckToken, errors = <<>>,
         semantic \in Seq(REPORTS), NEW n \in Nodes, n = Current, NEW p, p = ast[n].value
  PROVE  /\ semantic' \in Seq(REPORTS)
         /\ semantic' = <<>> <=> semantic = <<>> /\ ~ WrongAt(p)
         /\ Continue
<1>1. PICK sem : sem = semantic'
  OBVIOUS
<1>2. /\ AtToken /\ IsToken(ast, n) /\ ast[n].type = "TOKEN" /\ Len(tokens) \in Nat
      /\ p \in Places /\ p \in Nat /\ TokenAt(n) = tokens[p]
  BY DEF CheckToken, AtToken, IsToken, TokensRight, Places, TokenAt
<1>3. PICK x : x = Sibling
  OBVIOUS
<1>4. /\ x = ast[n].next_sibling /\ (HasIdent <=> IdentFollows(n))
      /\ IsToken(ast, x) => x \in Nodes /\ ast[x].value \in Places
  <2>1. x = ast[n].next_sibling
    BY <1>3 DEF Sibling, NextSibling, Nodes, NO_NODE
  <2>2. IsToken(ast, x) => x \in Nodes /\ ast[x].value \in Places
    BY DEF IsToken, Nodes, TokensRight
  <2>. QED  BY <1>3, <2>1, <2>2 DEF HasIdent, IdentFollows
<1>5. ASSUME tokens[p] \in NAMERS
      PROVE  /\ HasIdent /\ ast[x].value = p + 1 /\ tokens[p + 1] = "IDENT" /\ p + 1 \in Places
             /\ TextAt(Sibling) = text[p + 1] /\ Place(Sibling) = p + 1
  <2>1. IdentFollows(n) /\ ast[x].value = p + 1
    BY <1>2, <1>4, <1>5 DEF NamesRight
  <2>2. IsToken(ast, x) /\ TokenAt(x) = "IDENT"
    BY <1>4, <2>1 DEF IdentFollows
  <2>. QED  BY <1>3, <1>4, <2>1, <2>2 DEF TokenAt, TextAt, Place
<1>6. CASE CheckMalformed
  <2>1. tokens[p] \in NAMERS /\ ~ HasIdent
    BY <1>2, <1>6 DEF CheckMalformed, NAMERS
  <2>. QED  BY <1>5, <2>1
<1>7. CASE CheckGoto
  <2>1. tokens[p] = "GOTO" /\ tokens[p] \in NAMERS /\ Continue
    BY <1>2, <1>7 DEF CheckGoto, NAMERS
  <2>2. WrongAt(p) <=> text[p + 1] \notin Labels
    BY <2>1 DEF WrongAt, VariablePlaces
  <2>3. CASE text[p + 1] \in Labels
    <3>1. sem = semantic
      BY <1>1, <1>5, <1>7, <2>1, <2>3 DEF CheckGoto, TablesMean
    <3>. QED  BY <1>1, <2>1, <2>2, <2>3, <3>1
  <2>4. CASE text[p + 1] \notin Labels
    <3>0. PICK kind : kind = "unknown label"
      OBVIOUS
    <3>1. PICK q : q = p + 1
      OBVIOUS
    <3>2. Report(kind, q) /\ kind \in KINDS /\ q \in Nat
      <4>1. TextAt(Sibling) \notin DOMAIN label_table /\ Place(Sibling) = q
        BY <1>5, <2>1, <2>4, <3>1 DEF TablesMean
      <4>2. Report("unknown label", Place(Sibling))
        BY <1>7, <4>1 DEF CheckGoto
      <4>3. Report(kind, q)
        BY <3>0, <4>1, <4>2, Zenon
      <4>4. q \in Nat
        BY <1>2, <3>1
      <4>. QED  BY <3>0, <4>3, <4>4 DEF KINDS
    <3>3. sem \in Seq(REPORTS) /\ sem # <<>>
      BY <1>1, <3>2, Reported
    <3>. QED  BY <1>1, <2>1, <2>2, <2>4, <3>3
  <2>. QED  BY <2>3, <2>4
<1>8. CASE CheckLabel
  <2>1. tokens[p] = "LABEL" /\ tokens[p] \in NAMERS /\ Continue
    BY <1>2, <1>8 DEF CheckLabel, NAMERS
  <2>2. PICK q, f : q = p + 1 /\ f = FirstOf("LABEL", text[p + 1])
    OBVIOUS
  <2>3. q \in IdentsAfter("LABEL") /\ q \in Nat
    <3>1. q \in Places /\ tokens[q] = "IDENT" /\ q > 1 /\ q - 1 = p
      BY <1>2, <1>5, <2>1, <2>2 DEF Places
    <3>2. tokens[q - 1] = "LABEL"
      BY <2>1, <3>1
    <3>. QED  BY <1>2, <3>1, <3>2 DEF IdentsAfter, Places
  <2>4. text[q] \in Labels /\ label_table[text[q]].file_pos = f
    BY <2>2, <2>3 DEF Labels, TablesMean
  <2>5. /\ f \in IdentsAfter("LABEL") /\ text[f] = text[q] /\ f \in Nat
        /\ \A r \in IdentsAfter("LABEL") : text[r] = text[q] => f <= r
    <3>1. /\ f \in IdentsAfter("LABEL") /\ text[f] = text[q]
          /\ \A r \in IdentsAfter("LABEL") : text[r] = text[q] => f <= r
      BY <1>2, <2>2, <2>3, FirstPlace
    <3>. QED  BY <3>1 DEF IdentsAfter, Places
  <2>6. WrongAt(p) <=> \E r \in IdentsAfter("LABEL") : text[r] = text[q] /\ r < q
    BY <2>1, <2>2 DEF WrongAt, VariablePlaces
  <2>7. WrongAt(p) <=> f # q
    <3>1. f # q => f < q
      BY <2>3, <2>5
    <3>2. ASSUME NEW r \in IdentsAfter("LABEL"), text[r] = text[q], r < q PROVE f # q
      <4>1. f <= r /\ r \in Nat
        BY <2>5, <3>2 DEF IdentsAfter, Places
      <4>. QED  BY <2>3, <2>5, <3>2, <4>1
    <3>. QED  BY <2>5, <2>6, <3>1, <3>2
  <2>8. CASE f = q
    <3>1. sem = semantic
      BY <1>1, <1>5, <1>8, <2>1, <2>2, <2>4, <2>8 DEF CheckLabel
    <3>. QED  BY <1>1, <2>1, <2>7, <2>8, <3>1
  <2>9. CASE f # q
    <3>1. text[q] \in DOMAIN label_table
      BY <2>4 DEF TablesMean
    <3>2. PICK kind : kind = "duplicate label"
      OBVIOUS
    <3>3. Report(kind, q) /\ kind \in KINDS
      BY <1>5, <1>8, <2>1, <2>2, <2>4, <2>9, <3>1, <3>2 DEF CheckLabel, KINDS
    <3>4. sem \in Seq(REPORTS) /\ sem # <<>>
      BY <1>1, <2>3, <3>3, Reported
    <3>. QED  BY <1>1, <2>1, <2>7, <2>9, <3>4
  <2>. QED  BY <2>8, <2>9
<1>9. CASE CheckIdent
  <2>1. tokens[p] = "IDENT" /\ Continue /\ NameAt(n)
    BY <1>2, <1>9 DEF CheckIdent, NameAt
  <2>2. Name = text[p] /\ Place(Current) = p
    BY DEF Name, TextAt, Place
  <2>3. NamesLabel <=> p \in IdentsAfter("LABEL") \cup IdentsAfter("GOTO")
    BY <2>1, NamesLabelMeans
  <2>4. p \in VariablePlaces <=> ~ NamesLabel
    BY <1>2, <2>1, <2>3 DEF VariablePlaces
  <2>5. LastBefore(StatementAncestor, Current) /\ statement_stack # <<>>
    BY <1>2, <2>1, OwnerIs
  <2>6. VariableErrors = {} <=> DeclaredBefore(p)
    BY <2>1, <2>5, VariableRight
  <2>7. WrongAt(p) <=> ~ NamesLabel /\ text[p] \notin Labels /\ VariableErrors # {}
    BY <2>1, <2>4, <2>6 DEF WrongAt
  <2>8. DOMAIN label_table = Labels
    BY DEF TablesMean
  <2>9. CASE text[p] \in Labels \/ NamesLabel
    <3>1. sem = semantic
      BY <1>1, <1>9, <2>2, <2>8, <2>9 DEF CheckIdent
    <3>. QED  BY <1>1, <2>1, <2>7, <2>9, <3>1
  <2>10. CASE ~ (text[p] \in Labels \/ NamesLabel)
    <3>1. CASE VariableErrors = {}
      <4>1. sem = semantic
        BY <1>1, <1>9, <2>2, <2>8, <2>10, <3>1 DEF CheckIdent
      <4>. QED  BY <1>1, <2>1, <2>7, <3>1, <4>1
    <3>2. CASE VariableErrors # {}
      <4>1. PICK kind \in VariableErrors : Report(kind, Place(Current))
        BY <1>9, <2>2, <2>8, <2>10, <3>2 DEF CheckIdent
      <4>2. kind \in KINDS
        <5>1. VariableErrors \in {{"undefined"}, {"used before declaration"}, {"own declaration"}, {}}
          BY Zenon DEF VariableErrors
        <5>. QED  BY <4>1, <5>1 DEF KINDS
      <4>3. sem \in Seq(REPORTS) /\ sem # <<>>
        BY <1>1, <1>2, <2>2, <4>1, <4>2, Reported
      <4>. QED  BY <1>1, <2>1, <2>7, <2>10, <3>2, <4>3
    <3>. QED  BY <3>1, <3>2
  <2>. QED  BY <2>9, <2>10
<1>10. CASE CheckOther
  <2>1. tokens[p] \notin {"GOTO", "LABEL", "IDENT"} /\ Continue /\ sem = semantic
    BY <1>1, <1>2, <1>10 DEF CheckOther, analyzerVars
  <2>2. ~ WrongAt(p)
    BY <2>1 DEF WrongAt, VariablePlaces
  <2>. QED  BY <1>1, <2>1, <2>2
<1>. QED  BY <1>6, <1>7, <1>8, <1>9, <1>10 DEF CheckToken

AllRight(r) == \A n \in 1 .. r : IsToken(ast, n) => ~ WrongAt(ast[n].value)

\* What is said of names only depends on the tree and the text.
LEMMA MeaningKept ==
  ASSUME ast' = ast, tokens' = tokens, text' = text
  PROVE  /\ \A anc : AncestorsRight(anc)' <=> AncestorsRight(anc)
         /\ \A table : ParentsIn(table)' <=> ParentsIn(table)
         /\ \A r : AllRight(r)' <=> AllRight(r)
<1>1. \A n : (NameAt(n)' <=> NameAt(n)) /\ (StatementAt(n)' <=> StatementAt(n))
  BY Zenon DEF NameAt, StatementAt, IsGrammar, IsStatement, IsToken, TokenAt
<1>2. ASSUME NEW anc PROVE AncestorsRight(anc)' <=> AncestorsRight(anc)
  <2>1. \A s, n : LastBefore(s, n)' <=> LastBefore(s, n)
    BY <1>1, Zenon DEF LastBefore, Nodes
  <2>. QED  BY <1>1, <2>1, Zenon DEF AncestorsRight, Nodes
<1>3. \A table : ParentsIn(table)' <=> ParentsIn(table)
  BY Zenon DEF ParentsIn, Nodes, IsToken, TokenAt
<1>4. \A keyword : IdentsAfter(keyword)' = IdentsAfter(keyword)
  BY DEF IdentsAfter, Places
<1>5. Labels' = Labels
  BY <1>4 DEF Labels
<1>6. VariablePlaces' = VariablePlaces
  BY <1>4 DEF VariablePlaces, Places
<1>7. \A p : StatementStart(p)' = StatementStart(p)
  BY Zenon DEF StatementStart
<1>8. \A p : DeclaredBefore(p)' <=> DeclaredBefore(p)
  BY <1>4, <1>7 DEF DeclaredBefore
<1>9. \A p : WrongAt(p)' <=> WrongAt(p)
  BY <1>4, <1>5, <1>6, <1>8 DEF WrongAt
<1>10. \A r : AllRight(r)' <=> AllRight(r)
  BY <1>9 DEF AllRight, IsToken
<1>. QED  BY <1>2, <1>3, <1>10

-----------------------------------------------------------------------------
(***************************************************************************)
(* The invariant of what is reported.                                      *)
(***************************************************************************)
LineageInv == stage # "parse" => \E anc : AncestorsRight(anc) /\ Lineage(path, anc)

ParentsInv == stage # "parse" => ParentsIn(variable_table)

VerdictInv ==
  /\ stage \in {"parse", "collect"} => semantic = <<>>
  /\ stage = "done" => path = <<>>
  /\ stage \in {"check", "done"} /\ errors = <<>> =>
       /\ semantic \in Seq(REPORTS)
       /\ \E end, par :
            /\ Visits(end, par)
            /\ Sound(path, move, statement_stack, par)
            /\ semantic = <<>> <=> AllRight(Reach(path, move, end))

MInv == LineageInv /\ ParentsInv /\ VerdictInv

LEMMA LineageKept ==
  ASSUME ast' = ast, tokens' = tokens, text' = text,
         NEW anc, AncestorsRight(anc), Lineage(path', anc)
  PROVE  LineageInv'
<1>1. PICK p : p = path'
  OBVIOUS
<1>2. AncestorsRight(anc)'
  BY MeaningKept
<1>3. Lineage(p, anc)' <=> Lineage(p, anc)
  BY DEF Lineage
<1>4. Lineage(path, anc)'
  BY <1>1, <1>3
<1>. QED  BY <1>2, <1>4 DEF LineageInv

LEMMA StepLineageInv ==
  ASSUME FInv, LineageInv, [Next]_vars
  PROVE  LineageInv'
<1>1. Parsed /\ (stage # "parse" => stack = <<>> /\ TraversalInv)
  BY DEF FInv, StageInv
<1>2. CASE Parse
  BY <1>2 DEF Parse, LineageInv
<1>3. CASE StartCollect \/ StartCheck
  <2>1. /\ ast' = ast /\ tokens' = tokens /\ text' = text /\ stack = <<>> /\ path' = <<Head_>>
    BY <1>1, <1>3 DEF StartCollect, StartCheck, StartTraversal
  <2>2. PICK anc : AncestorsRight(anc)
    BY <1>1, <2>1, ParserSettles
  <2>3. Lineage(<<Head_>>, anc)
    BY <2>2 DEF Lineage, AncestorsRight
  <2>. QED  BY <2>1, <2>2, <2>3, LineageKept
<1>4. CASE CollectNode \/ CheckNode
  <2>1. /\ ast' = ast /\ tokens' = tokens /\ text' = text /\ stack = <<>> /\ path # <<>>
        /\ stage # "parse" /\ (Collect \/ Check)
    BY <1>1, <1>4 DEF CollectNode, CheckNode
  <2>2. PICK anc : AncestorsRight(anc) /\ Lineage(path, anc)
    BY <2>1 DEF LineageInv
  <2>3. PICK end, par : Visits(end, par) /\ Sound(path, move, statement_stack, par)
    BY <1>1, <2>1 DEF TraversalInv
  <2>4. Len(ast) \in Nat
    BY <1>1, <2>1, ParserLeaves DEF After
  <2>5. Walk \/ Continue \/ Stop
    BY <2>1 DEF Collect, Check, CollectToken, CheckToken, CheckMalformed, CheckGoto, CheckLabel,
       CheckIdent, CheckOther
  <2>6. CASE Walk
    <3>1. Lineage(path', anc)
      BY <2>1, <2>2, <2>3, <2>4, <2>6, WalkLineage
    <3>. QED  BY <2>1, <2>2, <3>1, LineageKept
  <2>7. CASE Continue
    <3>1. path' = path
      BY <2>7 DEF Continue
    <3>2. Lineage(path', anc)
      BY <2>2, <3>1
    <3>. QED  BY <2>1, <2>2, <3>2, LineageKept
  <2>8. CASE Stop
    <3>1. path' = <<>>
      BY <2>8 DEF Stop
    <3>2. Lineage(<<>>, anc)
      BY DEF Lineage
    <3>. QED  BY <2>1, <2>2, <3>1, <3>2, LineageKept
  <2>. QED  BY <2>5, <2>6, <2>7, <2>8
<1>5. CASE EndCheck \/ UNCHANGED vars
  <2>1. CASE stage = "parse"
    BY <1>5, <2>1 DEF EndCheck, vars, LineageInv
  <2>2. CASE stage # "parse"
    <3>1. ast' = ast /\ tokens' = tokens /\ text' = text /\ path' = path
      BY <1>5 DEF EndCheck, vars, visitorVars
    <3>2. PICK anc : AncestorsRight(anc) /\ Lineage(path, anc)
      BY <2>2 DEF LineageInv
    <3>3. Lineage(path', anc)
      BY <3>1, <3>2
    <3>. QED  BY <3>1, <3>2, <3>3, LineageKept
  <2>. QED  BY <2>1, <2>2
<1>. QED  BY <1>2, <1>3, <1>4, <1>5, Zenon DEF Next, Finished

\* The statement noted for a variable.
LEMMA CollectParents ==
  ASSUME Len(ast) \in Nat, TokensRight, NamesRight, PlacesRight, NEW end, NEW par, Visits(end, par),
         Sound(path, move, statement_stack, par), path # <<>>, Current \in Nodes, Collect,
         ParentsIn(variable_table)
  PROVE  ParentsIn(variable_table')
<1>1. PICK vt, c : vt = variable_table' /\ c = Current
  OBVIOUS
<1>2. CASE CollectToken /\ CollectVariable /\ HasIdent /\ TextAt(Sibling) \notin DOMAIN variable_table
  <2>1. PICK key, info : key = TextAt(Sibling) /\ info = Info
    OBVIOUS
  <2>2. vt = Put(variable_table, key, info) /\ key \notin DOMAIN variable_table /\ AtToken
        /\ TokenAt(c) = "LET" /\ IsToken(ast, c)
    BY <1>1, <1>2, <2>1 DEF CollectVariable, CollectToken, AtToken
  <2>3. KeywordAt(c) /\ c \in Nodes /\ ast[c].type = "TOKEN" /\ TokenAt(c) \in NAMERS
    BY <1>1, <2>2 DEF KeywordAt, P!STATEMENT_START_KEYWORDS, NAMERS, IsToken
  <2>4. info.parent_statement = c - 1
    BY <1>1, <2>1, <2>2, <2>3, KeywordOwner DEF Info
  <2>5. info.file_pos = ast[c].value + 1
    <3>1. Sibling = ast[c].next_sibling
      BY <1>1, <2>3 DEF Sibling, NextSibling, Nodes, NO_NODE
    <3>2. IdentFollows(c)
      BY <1>2, <3>1 DEF HasIdent, IdentFollows
    <3>3. ast[ast[c].next_sibling].value = ast[c].value + 1
      BY <2>3, <3>2 DEF NamesRight, IdentFollows
    <3>. QED  BY <2>1, <3>1, <3>3 DEF Info
  <2>6. /\ DOMAIN vt = DOMAIN variable_table \cup {key} /\ vt[key] = info
        /\ \A name \in DOMAIN variable_table : vt[name] = variable_table[name]
    BY <2>2 DEF Put
  <2>7. ParentsIn(vt)
    BY <2>2, <2>3, <2>4, <2>5, <2>6 DEF ParentsIn
  <2>. QED  BY <1>1, <2>7
<1>3. CASE ~ (CollectToken /\ CollectVariable /\ HasIdent /\ TextAt(Sibling) \notin DOMAIN variable_table)
  <2>1. vt = variable_table
    BY <1>1, <1>3 DEF Collect, CollectToken, CollectLiteral, CollectLabel, CollectVariable,
       CollectNothing, tableVars
  <2>. QED  BY <1>1, <2>1
<1>. QED  BY <1>2, <1>3

LEMMA StepParentsInv ==
  ASSUME FInv, ParentsInv, [Next]_vars
  PROVE  ParentsInv'
<1>0. PICK vt : vt = variable_table'
  OBVIOUS
<1>1. /\ Parsed
      /\ stage = "parse" => DOMAIN variable_table = {}
      /\ stage # "parse" => stack = <<>> /\ TraversalInv
  BY DEF FInv, StageInv
<1>2. ASSUME ast' = ast, tokens' = tokens, text' = text, ParentsIn(vt) PROVE ParentsInv'
  <2>1. ParentsIn(vt)'
    BY <1>2, MeaningKept
  <2>. QED  BY <1>0, <2>1 DEF ParentsInv
<1>3. CASE Parse
  BY <1>3 DEF Parse, ParentsInv
<1>4. CASE StartCollect
  <2>1. ast' = ast /\ tokens' = tokens /\ text' = text /\ vt = variable_table /\ stage = "parse"
    BY <1>0, <1>4 DEF StartCollect, tableVars
  <2>2. ParentsIn(vt)
    BY <1>1, <2>1 DEF ParentsIn
  <2>. QED  BY <1>2, <2>1, <2>2
<1>5. CASE CollectNode
  <2>1. /\ ast' = ast /\ tokens' = tokens /\ text' = text /\ stack = <<>> /\ path # <<>>
        /\ stage # "parse" /\ Collect
    BY <1>1, <1>5 DEF CollectNode
  <2>2. PICK end, par : Visits(end, par) /\ Sound(path, move, statement_stack, par)
    BY <1>1, <2>1 DEF TraversalInv
  <2>3. Len(ast) \in Nat /\ TokensRight /\ NamesRight /\ PlacesRight
    BY <1>1, <2>1, ParserLeaves, ParserSettles DEF After
  <2>4. Current \in Nodes
    BY <2>1, <2>2, <2>3, PathEnd DEF Sound, Current
  <2>5. ParentsIn(variable_table)
    BY <2>1 DEF ParentsInv
  <2>6. ParentsIn(vt)
    BY <1>0, <2>1, <2>2, <2>3, <2>4, <2>5, CollectParents
  <2>. QED  BY <1>2, <2>1, <2>6
<1>6. CASE StartCheck \/ CheckNode \/ EndCheck \/ UNCHANGED vars
  <2>1. ast' = ast /\ tokens' = tokens /\ text' = text /\ vt = variable_table
    BY <1>0, <1>6 DEF StartCheck, CheckNode, EndCheck, vars, tableVars
  <2>2. CASE stage # "parse"
    BY <1>2, <2>1, <2>2 DEF ParentsInv
  <2>3. CASE stage = "parse"
    BY <1>1, <1>2, <2>1, <2>3 DEF ParentsIn
  <2>. QED  BY <2>2, <2>3
<1>. QED  BY <1>3, <1>4, <1>5, <1>6, Zenon DEF Next, Finished

LEMMA TablesInText ==
  ASSUME FInv, stage \in {"check", "done"}
  PROVE  TablesMean
<1>1. Parsed /\ stack = <<>> /\ TraversalInv
  BY DEF FInv, StageInv
<1>2. Len(ast) \in Nat /\ TokensRight /\ NamesRight
  BY <1>1, ParserLeaves DEF After
<1>3. FirstIn(variable_table, "LET", Len(ast)) /\ FirstIn(label_table, "LABEL", Len(ast))
  BY <1>1 DEF TraversalInv, TablesAt
<1>4. Kept("LET") = IdentsAfter("LET") /\ Kept("LABEL") = IdentsAfter("LABEL")
  BY <1>2, DeclaredInText
<1>5. /\ DOMAIN variable_table = {text[p] : p \in Kept("LET")}
      /\ \A name \in DOMAIN variable_table : variable_table[name].file_pos = FirstOf("LET", name)
  BY <1>2, <1>3, FirstsAreFirst
<1>6. /\ DOMAIN label_table = {text[p] : p \in Kept("LABEL")}
      /\ \A name \in DOMAIN label_table : label_table[name].file_pos = FirstOf("LABEL", name)
  BY <1>2, <1>3, FirstsAreFirst
<1>. QED  BY <1>4, <1>5, <1>6 DEF TablesMean, Labels

LEMMA VerdictKept ==
  ASSUME ast' = ast, tokens' = tokens, text' = text, stage' \in {"check", "done"},
         stage' = "done" => path' = <<>>,
         errors' = <<>> =>
           /\ semantic' \in Seq(REPORTS)
           /\ \E end, par :
                /\ Visits(end, par)
                /\ Sound(path', move', statement_stack', par)
                /\ semantic' = <<>> <=> AllRight(Reach(path', move', end))
  PROVE  VerdictInv'
<1>1. PICK p, m, s, sem : p = path' /\ m = move' /\ s = statement_stack' /\ sem = semantic'
  OBVIOUS
<1>2. ASSUME errors' = <<>>
      PROVE  \E end, par :
               /\ Visits(end, par)'
               /\ Sound(path, move, statement_stack, par)'
               /\ (semantic = <<>>)' <=> AllRight(Reach(path, move, end))'
  <2>1. PICK end, par : /\ Visits(end, par) /\ Sound(p, m, s, par)
                        /\ sem = <<>> <=> AllRight(Reach(p, m, end))
    BY <1>1, <1>2
  <2>2. PICK r : r = Reach(p, m, end)
    OBVIOUS
  <2>3. /\ Visits(end, par)' <=> Visits(end, par)
        /\ Sound(p, m, s, par)' <=> Sound(p, m, s, par)
        /\ Reach(p, m, end)' = r
        /\ AllRight(r)' <=> AllRight(r)
    BY <2>2, TreeKept, MeaningKept
  <2>4. Reach(path, move, end)' = r
    BY <1>1, <2>3
  <2>5. AllRight(Reach(path, move, end))' <=> AllRight(r)
    BY <2>3, <2>4
  <2>6. Sound(path, move, statement_stack, par)'
    BY <1>1, <2>1, <2>3
  <2>. QED  BY <1>1, <2>1, <2>2, <2>3, <2>5, <2>6
<1>3. REPORTS' = REPORTS
  BY DEF REPORTS, KINDS
<1>. QED  BY <1>2, <1>3 DEF VerdictInv

LEMMA StepVerdictInv ==
  ASSUME FInv, MInv, [Next]_vars
  PROVE  VerdictInv'
<1>1. /\ Parsed /\ (stage # "parse" => stack = <<>> /\ TraversalInv) /\ VerdictInv
      /\ stage \in {"parse", "collect", "check", "done"}
  BY DEF FInv, StageInv, MInv
<1>2. CASE Parse \/ StartCollect \/ CollectNode
  BY <1>1, <1>2 DEF Parse, StartCollect, CollectNode, VerdictInv, analyzerVars
<1>3. CASE StartCheck
  <2>1. /\ ast' = ast /\ tokens' = tokens /\ text' = text /\ stack = <<>> /\ stage' = "check"
        /\ semantic' = <<>> /\ StartTraversal
    BY <1>1, <1>3 DEF StartCheck, analyzerVars, VerdictInv
  <2>2. PICK end, par : Visits(end, par) /\ TreeFacts(end, par)
    BY <1>1, <2>1, ParserLeaves DEF After, TreeFacts
  <2>3. Sound(path', move', statement_stack', par) /\ Reach(path', move', end) = 0
    BY <2>1, <2>2, StartSound
  <2>4. AllRight(0)
    BY DEF AllRight
  <2>. QED  BY <2>1, <2>2, <2>3, <2>4, VerdictKept
<1>4. CASE CheckNode
  <2>1. /\ ast' = ast /\ tokens' = tokens /\ text' = text /\ stack = <<>> /\ stage' = stage
        /\ stage = "check" /\ errors' = errors /\ path # <<>> /\ Check
    BY <1>1, <1>4 DEF CheckNode, parserVars
  <2>2. ASSUME errors = <<>>
        PROVE  /\ semantic' \in Seq(REPORTS)
               /\ \E end, par :
                    /\ Visits(end, par)
                    /\ Sound(path', move', statement_stack', par)
                    /\ semantic' = <<>> <=> AllRight(Reach(path', move', end))
    <3>1. PICK end, par :
            /\ Visits(end, par) /\ Sound(path, move, statement_stack, par)
            /\ semantic = <<>> <=> AllRight(Reach(path, move, end))
      BY <1>1, <2>1, <2>2 DEF VerdictInv
    <3>2. semantic \in Seq(REPORTS)
      BY <1>1, <2>1, <2>2 DEF VerdictInv
    <3>3. Len(ast) \in Nat /\ TokensRight /\ NamesRight /\ PlacesRight /\ TreeFacts(end, par)
      BY <1>1, <2>1, <3>1, ParserLeaves, ParserSettles DEF After, TreeFacts
    <3>4. PICK c, r, r2 : c = Current /\ r = Reach(path, move, end) /\ r2 = Reach(path', move', end)
      OBVIOUS
    <3>5. CASE CheckToken
      <4>1. PICK anc : AncestorsRight(anc) /\ Lineage(path, anc)
        BY <2>1 DEF MInv, LineageInv
      <4>2. TablesMean /\ ParentsIn(variable_table)
        BY <2>1, TablesInText DEF MInv, ParentsInv
      <4>3. c \in Nodes /\ AtToken /\ IsToken(ast, c) /\ c \in Nat \ {0}
        <5>1. AtToken /\ IsToken(ast, c)
          BY <3>4, <3>5 DEF CheckToken, AtToken
        <5>. QED  BY <5>1 DEF IsToken, Nodes
      <4>4. PICK p : p = ast[c].value
        OBVIOUS
      <4>5. /\ semantic' \in Seq(REPORTS)
            /\ semantic' = <<>> <=> semantic = <<>> /\ ~ WrongAt(p)
            /\ Continue
        BY <2>1, <2>2, <3>1, <3>2, <3>3, <3>4, <3>5, <4>1, <4>2, <4>3, <4>4, TokenChecked
      <4>6. Sound(path', move', statement_stack', par) /\ r = c - 1 /\ r2 = c
        BY <2>1, <3>1, <3>3, <3>4, <4>3, <4>5, ContinueSound
      <4>7. AllRight(c) <=> AllRight(c - 1) /\ ~ WrongAt(p)
        <5>1. 1 .. c = (1 .. c - 1) \cup {c}
          BY <4>3
        <5>. QED  BY <4>3, <4>4, <5>1 DEF AllRight
      <4>8. semantic = <<>> <=> AllRight(c - 1)
        BY <3>1, <3>4, <4>6
      <4>9. semantic' = <<>> <=> AllRight(r2)
        BY <4>5, <4>6, <4>7, <4>8
      <4>. QED  BY <3>1, <3>4, <4>5, <4>6, <4>9
    <3>6. CASE Walk /\ UNCHANGED analyzerVars
      <4>1. semantic' = semantic
        BY <3>6 DEF analyzerVars
      <4>2. /\ Sound(path', move', statement_stack', par)
            /\ EnterGrammar => r = c - 1 /\ r2 = c
            /\ LeaveNode => r2 = r
            /\ c \in Nodes
        BY <2>1, <3>1, <3>3, <3>4, <3>6, WalkSound
      <4>3. AllRight(r) <=> AllRight(r2)
        <5>1. CASE EnterGrammar
          <6>1. ~ IsToken(ast, c) /\ c \in Nat \ {0} /\ r = c - 1 /\ r2 = c
            BY <3>4, <4>2, <5>1 DEF EnterGrammar, IsGrammar, IsToken, Nodes
          <6>2. 1 .. c = (1 .. c - 1) \cup {c}
            BY <6>1
          <6>. QED  BY <6>1, <6>2 DEF AllRight
        <5>2. CASE LeaveNode
          BY <4>2, <5>2
        <5>. QED  BY <3>6, <5>1, <5>2 DEF Walk
      <4>. QED  BY <3>1, <3>2, <3>4, <4>1, <4>2, <4>3
    <3>. QED  BY <2>1, <3>5, <3>6 DEF Check
  <2>. QED  BY <2>1, <2>2, VerdictKept
<1>5. CASE EndCheck \/ UNCHANGED vars
  <2>1. /\ ast' = ast /\ tokens' = tokens /\ text' = text /\ errors' = errors
        /\ path' = path /\ move' = move /\ statement_stack' = statement_stack
        /\ semantic' = semantic
    BY <1>5 DEF EndCheck, vars, visitorVars, analyzerVars, parserVars
  <2>2. CASE stage \in {"parse", "collect"}
    BY <1>1, <1>5, <2>1, <2>2 DEF EndCheck, vars, VerdictInv
  <2>3. CASE stage \in {"check", "done"}
    <3>1. stage' \in {"check", "done"} /\ (stage' = "done" => path = <<>>)
      BY <1>1, <1>5, <2>3 DEF EndCheck, vars, VerdictInv
    <3>2. errors = <<>> =>
            /\ semantic \in Seq(REPORTS)
            /\ \E end, par :
                 /\ Visits(end, par)
                 /\ Sound(path, move, statement_stack, par)
                 /\ semantic = <<>> <=> AllRight(Reach(path, move, end))
      BY <1>1, <2>3 DEF VerdictInv
    <3>. QED  BY <2>1, <3>1, <3>2, VerdictKept
  <2>. QED  BY <1>1, <2>2, <2>3
<1>. QED  BY <1>2, <1>3, <1>4, <1>5, Zenon DEF Next, Finished

LEMMA InitMInv == Init => MInv
BY DEF Init, MInv, LineageInv, ParentsInv, VerdictInv, NotChecked

LEMMA StepMInv == FInv /\ MInv /\ [Next]_vars => MInv'
BY StepLineageInv, StepParentsInv, StepVerdictInv, Zenon DEF MInv

LEMMA MInvAlways == Spec => []MInv
BY InitMInv, StepMInv, FInvAlways, PTL DEF Spec

\* Without errors of the parser every token has been checked.
LEMMA AllMeant ==
  ASSUME Len(ast) \in Nat, TokensRight, NamesRight, errors = <<>>, skipped = {}, OneKind
  PROVE  AllRight(Len(ast)) <=> Meaningful
<1>1. /\ Len(tokens) \in Nat
      /\ \A n \in Nodes : IsToken(ast, n) => ast[n].value \in Places
      /\ \A p \in Places : \E n \in Nodes : IsToken(ast, n) /\ ast[n].value = p
  BY DEF TokensRight, IsToken, Nodes
<1>2. AllRight(Len(ast)) <=> \A p \in Places : ~ WrongAt(p)
  BY <1>1 DEF AllRight, Nodes
<1>3. ASSUME NEW p \in Places, tokens[p] \in {"GOTO", "LABEL"}
      PROVE  p + 1 \in IdentsAfter(tokens[p])
  <2>1. PICK n \in Nodes : IsToken(ast, n) /\ ast[n].value = p
    BY <1>1
  <2>2. TokenAt(n) = tokens[p] /\ TokenAt(n) \in NAMERS /\ ast[n].type = "TOKEN"
    BY <1>3, <2>1 DEF TokenAt, NAMERS, IsToken
  <2>3. PICK x : x = ast[n].next_sibling
    OBVIOUS
  <2>4. IsToken(ast, x) /\ TokenAt(x) = "IDENT" /\ ast[x].value = p + 1
    BY <2>1, <2>2, <2>3 DEF NamesRight, IdentFollows
  <2>5. PICK q : q = p + 1
    OBVIOUS
  <2>6. q \in Places /\ tokens[q] = "IDENT"
    BY <1>1, <2>4, <2>5 DEF IsToken, Nodes, TokenAt
  <2>7. q > 1 /\ q - 1 = p
    BY <1>1, <2>5 DEF Places
  <2>. QED  BY <2>5, <2>6, <2>7 DEF IdentsAfter
<1>4. ASSUME NEW keyword, NEW p \in IdentsAfter(keyword)
      PROVE  p - 1 \in Places /\ tokens[p - 1] = keyword /\ p \in Nat /\ (p - 1) + 1 = p
  BY <1>1 DEF IdentsAfter, Places
<1>5. ASSUME \A p \in Places : ~ WrongAt(p) PROVE Meaningful
  <2>1. ASSUME NEW p \in IdentsAfter("LABEL"), NEW q \in IdentsAfter("LABEL"),
               text[p] = text[q], p < q
        PROVE  FALSE
    <3>1. PICK r : r = q - 1
      OBVIOUS
    <3>2. r \in Places /\ tokens[r] = "LABEL" /\ r + 1 = q
      BY <1>4, <3>1
    <3>. QED  BY <1>5, <2>1, <3>2 DEF WrongAt
  <2>2. UniqueLabels
    <3>. SUFFICES ASSUME NEW p \in IdentsAfter("LABEL"), NEW q \in IdentsAfter("LABEL"),
                         text[p] = text[q]
                  PROVE  p = q
      BY DEF UniqueLabels
    <3>1. p \in Nat /\ q \in Nat /\ ~ (p < q) /\ ~ (q < p)
      BY <1>4, <2>1
    <3>. QED  BY <3>1
  <2>3. JumpsLand
    <3>. SUFFICES ASSUME NEW p \in IdentsAfter("GOTO") PROVE text[p] \in Labels
      BY DEF JumpsLand
    <3>1. PICK r : r = p - 1
      OBVIOUS
    <3>2. r \in Places /\ tokens[r] = "GOTO" /\ r + 1 = p
      BY <1>4, <3>1
    <3>. QED  BY <1>5, <3>2 DEF WrongAt
  <2>4. \A p \in VariablePlaces : DeclaredBefore(p)
    BY <1>5 DEF WrongAt, OneKind, VariablePlaces
  <2>. QED  BY <2>2, <2>3, <2>4 DEF Meaningful
<1>6. ASSUME Meaningful, NEW p \in Places, WrongAt(p) PROVE FALSE
  <2>1. CASE tokens[p] = "GOTO" /\ text[p + 1] \notin Labels
    BY <1>3, <1>6, <2>1 DEF Meaningful, JumpsLand
  <2>2. CASE tokens[p] = "LABEL" /\ \E q \in IdentsAfter("LABEL") : text[q] = text[p + 1] /\ q < p + 1
    <3>1. PICK r : r = p + 1
      OBVIOUS
    <3>2. r \in IdentsAfter("LABEL") /\ r \in Nat
      BY <1>3, <1>4, <2>2, <3>1
    <3>3. PICK q \in IdentsAfter("LABEL") : text[q] = text[r] /\ q < r
      BY <2>2, <3>1
    <3>4. q = r
      BY <1>6, <3>2, <3>3 DEF Meaningful, UniqueLabels
    <3>. QED  BY <3>2, <3>3, <3>4
  <2>3. CASE p \in VariablePlaces /\ text[p] \notin Labels /\ ~ DeclaredBefore(p)
    BY <1>6, <2>3 DEF Meaningful
  <2>. QED  BY <1>6, <2>1, <2>2, <2>3 DEF WrongAt
<1>. QED  BY <1>2, <1>5, <1>6

\* Every program that parses and keeps labels and variables apart is accepted
\* exactly when it means something (semantic_analyzer.c:47-183).
THEOREM MeaningfulAreAccepted == Spec => []AcceptsMeaningful
<1>1. FInv /\ MInv => AcceptsMeaningful
  <2>. SUFFICES ASSUME FInv, MInv, stage = "done", errors = <<>>, OneKind
                PROVE  semantic = <<>> <=> Meaningful
    BY DEF AcceptsMeaningful
  <2>1. Parsed /\ stack = <<>>
    BY DEF FInv, StageInv
  <2>2. Len(ast) \in Nat /\ TokensRight /\ NamesRight /\ skipped = {}
    BY <2>1, ParserLeaves, ParserSettles DEF After
  <2>3. path = <<>> /\ \E end : semantic = <<>> <=> AllRight(Reach(path, move, end))
    BY DEF MInv, VerdictInv
  <2>4. semantic = <<>> <=> AllRight(Len(ast))
    BY <2>3 DEF Reach
  <2>. QED  BY <2>2, <2>4, AllMeant
<1>. QED  BY <1>1, FInvAlways, MInvAlways, PTL

-----------------------------------------------------------------------------
(***************************************************************************)
(* What the front end hands on to the emitter.                             *)
(***************************************************************************)
\* While the parser runs its tree has the right shape; afterwards, without an
\* error, it is the derivation of the input.
Derivation == \E q : PP!WholeTree(ast, q, tokens)

DerivedInv ==
  /\ stage = "parse" => PP!ShapeInv
  /\ stage # "parse" /\ errors = <<>> => Derivation

LEMMA StepDerivedInv == FInv /\ DerivedInv /\ [Next]_vars => DerivedInv'
<1>. SUFFICES ASSUME FInv, DerivedInv, [Next]_vars PROVE DerivedInv'
  OBVIOUS
<1>1. CASE Parse
  <2>1. PP!Next /\ stage = "parse" /\ stage' = "parse"
    BY <1>1, SameNext, Zenon DEF Parse
  <2>2. PP!ShapeInv'
    BY <2>1, InputsRight, PP!StepShape, Zenon DEF FInv, Parsed, DerivedInv
  <2>. QED  BY <2>1, <2>2, Zenon DEF DerivedInv
<1>2. CASE StartCollect
  <2>1. stage = "parse" /\ stack = <<>> /\ stage' = "collect"
    BY <1>2, Zenon DEF StartCollect
  <2>2. errors = <<>> => Derivation
    BY <2>1, InputsRight, PP!ShapeEnds, Zenon DEF FInv, Parsed, DerivedInv, Derivation
  <2>3. UNCHANGED <<tokens, ast, errors>>
    BY <1>2, Zenon DEF StartCollect, parserVars
  <2>4. Derivation => Derivation'
    BY <2>3, Zenon DEF Derivation
  <2>5. stage' # "parse"
    BY <2>1
  <2>. QED  BY <2>2, <2>3, <2>4, <2>5, Zenon DEF DerivedInv
<1>3. CASE CollectNode \/ StartCheck \/ CheckNode \/ EndCheck
  <2>1. stage # "parse" /\ stage' # "parse"
    BY <1>3 DEF CollectNode, StartCheck, CheckNode, EndCheck
  <2>2. UNCHANGED <<tokens, ast, errors>>
    BY <1>3, Zenon DEF CollectNode, StartCheck, CheckNode, EndCheck, parserVars
  <2>3. Derivation => Derivation'
    BY <2>2, Zenon DEF Derivation
  <2>. QED  BY <2>1, <2>2, <2>3, Zenon DEF DerivedInv
<1>4. CASE UNCHANGED vars
  <2>1. UNCHANGED <<tokens, ast, parserVars, stage>>
    BY <1>4, Zenon DEF vars
  <2>2. UNCHANGED <<position, stack, ret, errors, skipped>>
    BY <2>1, Zenon DEF parserVars
  <2>3. Derivation => Derivation'
    BY <2>1, Zenon DEF Derivation
  <2>4. stage = "parse" => PP!ShapeInv'
    <3>1. UNCHANGED PP!vars
      BY <2>1, <2>2, Zenon DEF PP!vars
    <3>. QED  BY <3>1, InputsRight, PP!StepShape, Zenon DEF FInv, Parsed, DerivedInv
  <2>. QED  BY <2>1, <2>2, <2>3, <2>4, Zenon DEF DerivedInv
<1>. QED  BY <1>1, <1>2, <1>3, <1>4, Zenon DEF Next, Finished

LEMMA InitDerivedInv == Init => DerivedInv
<1>1. Init => PP!Init /\ stage = "parse"
  BY SameInit, Zenon DEF Init
<1>. QED  BY <1>1, InputsRight, PP!InitShape, Zenon DEF DerivedInv

LEMMA DerivedAlways == Spec => []DerivedInv
BY InitDerivedInv, StepDerivedInv, FInvAlways, PTL DEF Spec

\* What the emitter may rely on when the front end has accepted: links to
\* greater nodes only, nodes put together by the rules over all of the input,
\* names where they belong, and, if labels and variables are kept apart, a
\* declaration for each.
Accepts(q) ==
  /\ Len(ast) \in Nat
  /\ \A n \in Nodes : /\ FirstChild(ast, n) \in {0} \cup (n + 1 .. Len(ast))
                      /\ NextSibling(ast, n) \in {0} \cup (n + 1 .. Len(ast))
  /\ PP!Built(ast, q, tokens) /\ PP!Spaced(ast, q) /\ PP!Preceded(ast, q)
  /\ \A n \in Nodes : IsToken(ast, n) => ast[n].value \in Places
  /\ \A p \in Places : \E n \in Nodes : IsToken(ast, n) /\ ast[n].value = p
  /\ \A n \in Nodes : IsToken(ast, n) /\ TokenAt(n) \in NAMERS =>
       IdentFollows(n) /\ ast[NextSibling(ast, n)].value = ast[n].value + 1
  /\ \A n \in Nodes : PP!Gram(ast, n, "PRIMARY") /\ TokenAt(FirstChild(ast, n)) = "IDENT" =>
       ast[FirstChild(ast, n)].value \in VariablePlaces
  /\ DOMAIN variable_table = {text[p] : p \in IdentsAfter("LET")}
  /\ OneKind => Meaningful

LEMMA PrimaryNames ==
  ASSUME NEW q, PP!Built(ast, q, tokens), TokensRight, NamesRight, errors = <<>>,
         Len(ast) \in Nat, \A n \in Nodes : FirstChild(ast, n) \in {0} \cup (n + 1 .. Len(ast)),
         skipped = {},
         NEW n \in Nodes, PP!Gram(ast, n, "PRIMARY"), TokenAt(FirstChild(ast, n)) = "IDENT"
  PROVE  ast[FirstChild(ast, n)].value \in VariablePlaces
<1>1. /\ PP!Ids(ast) = Nodes /\ PP!NO_NODE = 0 /\ NO_NODE = 0
      /\ \A m : PP!IsToken(ast, m) <=> IsToken(ast, m)
      /\ \A m : PP!IsGrammar(ast, m) <=> IsGrammar(ast, m)
  BY DEF PP!Ids, Nodes, PP!NO_NODE, NO_NODE, PP!IsToken, IsToken, PP!IsGrammar, IsGrammar
<1>2. /\ \A m : PP!FirstChild(ast, m) = FirstChild(ast, m)
      /\ \A m : PP!NextSibling(ast, m) = NextSibling(ast, m)
  BY <1>1 DEF PP!FirstChild, FirstChild, PP!NextSibling, NextSibling
<1>3. PICK c, p : c = FirstChild(ast, n) /\ p = ast[c].value
  OBVIOUS
<1>4. IsToken(ast, c) /\ tokens[p] = "IDENT" /\ c \in Nodes /\ c # 0
  <2>1. PP!Tok(ast, tokens, c, {"NUMBER", "IDENT"})
    BY <1>1, <1>2, <1>3 DEF PP!Built, PP!ExpressionBuilt
  <2>2. IsToken(ast, c)
    BY <1>1, <2>1 DEF PP!Tok
  <2>. QED  BY <1>3, <2>2 DEF TokenAt, IsToken, Nodes
<1>5. p \in Places /\ Len(tokens) \in Nat
  BY <1>3, <1>4 DEF TokensRight, IsToken
<1>6. ASSUME NEW kw \in {"LABEL", "GOTO"}, p \in IdentsAfter(kw) PROVE FALSE
  <2>1. p - 1 \in Places /\ tokens[p - 1] = kw
    BY <1>5, <1>6 DEF IdentsAfter, Places
  <2>2. PICK k \in Nodes : ast[k].type = "TOKEN" /\ ast[k].value = p - 1
    BY <2>1 DEF TokensRight
  <2>3. TokenAt(k) = kw /\ TokenAt(k) \in NAMERS /\ IsToken(ast, k)
    BY <2>1, <2>2 DEF TokenAt, NAMERS, IsToken, Nodes
  <2>4. PICK x : x = NextSibling(ast, k)
    OBVIOUS
  <2>5. x = ast[k].next_sibling /\ k # 0
    BY <1>1, <2>4 DEF NextSibling, Nodes
  <2>6. IsToken(ast, x) /\ ast[x].value = p /\ x # 0
    <3>1. IdentFollows(k) /\ ast[ast[k].next_sibling].value = ast[k].value + 1
      BY <2>2, <2>3 DEF NamesRight
    <3>. QED  BY <1>1, <1>5, <2>2, <2>5, <3>1 DEF IdentFollows, Places
  <2>7. x = c
    BY <1>3, <1>4, <1>5, <2>6 DEF TokensRight, IsToken, Nodes, Places
  <2>8. q[c].up = n /\ q[x].up = q[k].up
    BY <1>1, <1>2, <1>3, <1>4, <2>4, <2>6 DEF PP!Built
  <2>9. PP!Gram(ast, q[k].up, "STATEMENT")
    <3>1. PP!Tok(ast, tokens, k, PP!STATEMENT_START_KEYWORDS)
      BY <1>1, <2>3 DEF PP!Tok, TokenAt, PP!STATEMENT_START_KEYWORDS
    <3>. QED  BY <1>1, <3>1 DEF PP!Built
  <2>. QED  BY <2>7, <2>8, <2>9 DEF PP!Gram
<1>. QED  BY <1>3, <1>4, <1>5, <1>6 DEF VariablePlaces

LEMMA Readiness == FInv /\ MInv /\ DerivedInv => (Accepted => \E q : Accepts(q))
<1>. SUFFICES ASSUME FInv, MInv, DerivedInv, Accepted PROVE \E q : Accepts(q)
  OBVIOUS
<1>1. stage = "done" /\ errors = <<>> /\ semantic = <<>>
  BY DEF Accepted
<1>2. Parsed /\ stack = <<>>
  BY <1>1 DEF FInv, StageInv
<1>3. /\ Len(ast) \in Nat /\ TokensRight /\ NamesRight /\ skipped = {}
  BY <1>1, <1>2, ParserLeaves, ParserSettles DEF After
<1>4. PICK q : PP!WholeTree(ast, q, tokens)
  BY <1>1, Zenon DEF DerivedInv, Derivation
<1>5. PP!Built(ast, q, tokens) /\ PP!Spaced(ast, q) /\ PP!Preceded(ast, q)
  BY <1>2, <1>4, InputsRight, PP!TreeBuilt, PP!TreeSpaced, PP!TreePreceded, Zenon DEF Parsed
<1>6. \A n \in Nodes : /\ FirstChild(ast, n) \in {0} \cup (n + 1 .. Len(ast))
                      /\ NextSibling(ast, n) \in {0} \cup (n + 1 .. Len(ast))
  <2>1. PP!IsTree(ast)
    BY <1>2 DEF Parsed, PP!PInv, PP!TreeInv
  <2>. QED
    BY <2>1 DEF PP!IsTree, PP!LinksForward, PP!Ids, PP!NO_NODE, Nodes, FirstChild, NextSibling,
                IsGrammar, NO_NODE
<1>7. \A n \in Nodes : IsToken(ast, n) => ast[n].value \in Places
  BY <1>3 DEF TokensRight, IsToken
<1>8. \A p \in Places : \E n \in Nodes : IsToken(ast, n) /\ ast[n].value = p
  BY <1>3 DEF TokensRight, IsToken, Nodes
<1>9. \A n \in Nodes : IsToken(ast, n) /\ TokenAt(n) \in NAMERS =>
       IdentFollows(n) /\ ast[NextSibling(ast, n)].value = ast[n].value + 1
  BY <1>1, <1>3 DEF NamesRight, IsToken, NextSibling, Nodes, NO_NODE
<1>10. \A n \in Nodes : PP!Gram(ast, n, "PRIMARY") /\ TokenAt(FirstChild(ast, n)) = "IDENT" =>
        ast[FirstChild(ast, n)].value \in VariablePlaces
  BY <1>1, <1>3, <1>5, <1>6, PrimaryNames
<1>11. DOMAIN variable_table = {text[p] : p \in IdentsAfter("LET")}
  <2>1. Kept("LET") = IdentsAfter("LET")
    BY <1>3 DEF Kept
  <2>. QED  BY <1>1, <2>1, TablesHold DEF TablesRight, FirstDeclarations
<1>12. OneKind => Meaningful
  <2>1. path = <<>> /\ \E end : semantic = <<>> <=> AllRight(Reach(path, move, end))
    BY <1>1 DEF MInv, VerdictInv
  <2>2. AllRight(Len(ast))
    BY <1>1, <2>1 DEF Reach
  <2>. QED  BY <1>1, <1>3, <2>2, AllMeant
<1>. QED
  BY <1>3, <1>5, <1>6, <1>7, <1>8, <1>9, <1>10, <1>11, <1>12, Zenon DEF Accepts

\* The tree of an accepted program is what the emitter takes it for
\* (emitter-x86.c:412-530).
THEOREM AcceptedIsReady == Spec => [](Accepted => \E q : Accepts(q))
BY Readiness, FInvAlways, MInvAlways, DerivedAlways, PTL
=============================================================================
