---------------------------- MODULE AstTreeProofs ----------------------------
(***************************************************************************)
(* Adding a child keeps the node array a tree, and only extends it.  These *)
(* are facts about the operators of AstTree, for arrays of any length and  *)
(* nodes of any value; the proofs about the modules that use the tree cite *)
(* them.                                                                   *)
(***************************************************************************)
EXTENDS AstTree, SequenceTheorems, TLAPS

NodesOver(V) ==
  [type : {"TOKEN", "GRAMMAR"}, value : V,
   first_child : Nat, last_child : Nat, next_sibling : Nat]

\* A node as TokenNode and GrammarNode make it.
Fresh(node) ==
  /\ node.first_child = NO_NODE
  /\ node.last_child = NO_NODE
  /\ node.next_sibling = NO_NODE

\* A sequence of nodes with one node replaced by another.
LEMMA ReplaceNode ==
  ASSUME NEW V, NEW ast \in Seq(NodesOver(V)), NEW i \in 1 .. Len(ast),
         NEW node \in NodesOver(V),
         NEW new, new = [ast EXCEPT ![i] = node]
  PROVE  /\ new \in Seq(NodesOver(V))
         /\ Len(new) = Len(ast)
         /\ new[i] = node
         /\ \A j \in 1 .. Len(ast) : j # i => new[j] = ast[j]
BY ExceptSeq

\* A node with one of its links replaced.
LEMMA Update_first_child ==
  ASSUME NEW V, NEW x \in NodesOver(V), NEW n \in Nat
  PROVE  /\ [x EXCEPT !.first_child = n] \in NodesOver(V)
         /\ [x EXCEPT !.first_child = n].first_child = n
         /\ [x EXCEPT !.first_child = n].type = x.type
         /\ [x EXCEPT !.first_child = n].value = x.value
         /\ [x EXCEPT !.first_child = n].last_child = x.last_child
         /\ [x EXCEPT !.first_child = n].next_sibling = x.next_sibling
BY DEF NodesOver

LEMMA Update_last_child ==
  ASSUME NEW V, NEW x \in NodesOver(V), NEW n \in Nat
  PROVE  /\ [x EXCEPT !.last_child = n] \in NodesOver(V)
         /\ [x EXCEPT !.last_child = n].last_child = n
         /\ [x EXCEPT !.last_child = n].type = x.type
         /\ [x EXCEPT !.last_child = n].value = x.value
         /\ [x EXCEPT !.last_child = n].first_child = x.first_child
         /\ [x EXCEPT !.last_child = n].next_sibling = x.next_sibling
BY DEF NodesOver

LEMMA Update_next_sibling ==
  ASSUME NEW V, NEW x \in NodesOver(V), NEW n \in Nat
  PROVE  /\ [x EXCEPT !.next_sibling = n] \in NodesOver(V)
         /\ [x EXCEPT !.next_sibling = n].next_sibling = n
         /\ [x EXCEPT !.next_sibling = n].type = x.type
         /\ [x EXCEPT !.next_sibling = n].value = x.value
         /\ [x EXCEPT !.next_sibling = n].first_child = x.first_child
         /\ [x EXCEPT !.next_sibling = n].last_child = x.last_child
BY DEF NodesOver

\* What AddChild leaves at each place of the array.
LEMMA AddChildAt ==
  ASSUME NEW V, NEW ast \in Seq(NodesOver(V)), LinksForward(ast),
         NEW p, IsGrammar(ast, p), NEW node \in NodesOver(V),
         NEW new, new = AddChild(ast, p, node),
         NEW last, last = ast[p].last_child
  PROVE  /\ new \in Seq(NodesOver(V))
         /\ Len(new) = Len(ast) + 1
         /\ new[Len(ast) + 1] = node
         /\ last \in {NO_NODE} \cup (p + 1 .. Len(ast))
         /\ \A i \in 1 .. Len(ast) :
              /\ new[i].type = ast[i].type
              /\ new[i].value = ast[i].value
              /\ new[i].first_child =
                   IF i = p /\ last = NO_NODE THEN Len(ast) + 1 ELSE ast[i].first_child
              /\ new[i].last_child = IF i = p THEN Len(ast) + 1 ELSE ast[i].last_child
              /\ new[i].next_sibling =
                   IF i = last /\ last # NO_NODE THEN Len(ast) + 1 ELSE ast[i].next_sibling
<1>. DEFINE n == Len(ast) + 1
            app == Append(ast, node)
<1>1. /\ Len(ast) \in Nat
      /\ p \in 1 .. Len(ast)
      /\ app \in Seq(NodesOver(V))
      /\ Len(app) = n
      /\ app[n] = node
      /\ \A i \in 1 .. Len(ast) : app[i] = ast[i] /\ ast[i] \in NodesOver(V)
  BY DEF IsGrammar
<1>2. last \in {NO_NODE} \cup (p + 1 .. Len(ast))
  BY <1>1 DEF LinksForward, Ids
<1>3. app[p].last_child = last /\ app[p] \in NodesOver(V)
  BY <1>1
<1>. HIDE DEF app
<1>5. CASE last = NO_NODE
  <2>. DEFINE r1 == [app[p] EXCEPT !.first_child = n]
              mid == [app EXCEPT ![p] = r1]
              r2 == [mid[p] EXCEPT !.last_child = n]
  <2>1. new = [mid EXCEPT ![p] = r2]
    BY <1>3, <1>5 DEF AddChild, LinkLast, app
  <2>2. r1 \in NodesOver(V)
    BY <1>1, <1>3, Update_first_child, SMTT(30)
  <2>3. /\ mid \in Seq(NodesOver(V)) /\ Len(mid) = n
        /\ mid[p] = r1
        /\ \A i \in 1 .. n : i # p => mid[i] = app[i]
    <3>. HIDE DEF r1
    <3>. QED  BY <1>1, <2>2, ReplaceNode
  <2>4. r2 \in NodesOver(V)
    <3>. HIDE DEF r1, mid
    <3>. QED  BY <1>1, <2>2, <2>3, Update_last_child
  <2>5. /\ new \in Seq(NodesOver(V)) /\ Len(new) = n
        /\ new[p] = r2
        /\ \A i \in 1 .. n : i # p => new[i] = app[i]
    <3>. HIDE DEF r2, mid
    <3>. QED  BY <1>1, <2>1, <2>3, <2>4, ReplaceNode
  <2>6. /\ r2.type = app[p].type /\ r2.value = app[p].value
        /\ r2.first_child = n /\ r2.last_child = n
        /\ r2.next_sibling = app[p].next_sibling
    <3>1. r1.type = app[p].type /\ r1.value = app[p].value
          /\ r1.first_child = n /\ r1.next_sibling = app[p].next_sibling
      BY <1>1, <1>3, Update_first_child
    <3>. HIDE DEF r1, mid
    <3>. QED  BY <1>1, <2>2, <2>3, <3>1, Update_last_child
  <2>. HIDE DEF r1, r2, mid
  <2>. QED  BY <1>1, <1>2, <1>5, <2>5, <2>6
<1>6. CASE last # NO_NODE
  <2>. DEFINE r1 == [app[last] EXCEPT !.next_sibling = n]
              mid == [app EXCEPT ![last] = r1]
              r2 == [mid[p] EXCEPT !.last_child = n]
  <2>1. new = [mid EXCEPT ![p] = r2]
    BY <1>3, <1>6 DEF AddChild, LinkLast, app
  <2>2. last \in 1 .. Len(ast) /\ last # p /\ app[last] \in NodesOver(V)
    BY <1>1, <1>2, <1>6
  <2>3. r1 \in NodesOver(V)
    BY <1>1, <2>2, Update_next_sibling
  <2>4. /\ mid \in Seq(NodesOver(V)) /\ Len(mid) = n
        /\ mid[last] = r1
        /\ \A i \in 1 .. n : i # last => mid[i] = app[i]
    <3>. HIDE DEF r1
    <3>. QED  BY <1>1, <2>2, <2>3, ReplaceNode
  <2>5. r2 \in NodesOver(V) /\ mid[p] = app[p]
    <3>1. mid[p] = app[p]
      BY <1>1, <2>2, <2>4
    <3>. HIDE DEF mid
    <3>. QED  BY <1>1, <1>3, <3>1, Update_last_child
  <2>6. /\ new \in Seq(NodesOver(V)) /\ Len(new) = n
        /\ new[p] = r2
        /\ \A i \in 1 .. n : i # p => new[i] = mid[i]
    <3>. HIDE DEF r2, mid
    <3>. QED  BY <1>1, <2>1, <2>4, <2>5, ReplaceNode
  <2>7. /\ r2.type = app[p].type /\ r2.value = app[p].value
        /\ r2.first_child = app[p].first_child /\ r2.last_child = n
        /\ r2.next_sibling = app[p].next_sibling
        /\ r1.type = app[last].type /\ r1.value = app[last].value
        /\ r1.first_child = app[last].first_child
        /\ r1.last_child = app[last].last_child
        /\ r1.next_sibling = n
    <3>1. /\ r1.type = app[last].type /\ r1.value = app[last].value
          /\ r1.first_child = app[last].first_child
          /\ r1.last_child = app[last].last_child
          /\ r1.next_sibling = n
      BY <1>1, <2>2, Update_next_sibling
    <3>. HIDE DEF r1, mid
    <3>. QED  BY <1>1, <1>3, <2>5, <3>1, Update_last_child
  <2>. HIDE DEF r1, r2, mid
  <2>. QED  BY <1>1, <1>2, <1>6, <2>2, <2>4, <2>6, <2>7, SMTT(30)
<1>. QED  BY <1>5, <1>6

\* The links of the array after AddChild, and nothing else about it.
AddsLink(new, ast, p, last) ==
  /\ \A i \in 1 .. Len(ast) :
       /\ new[i].first_child =
            IF i = p /\ last = NO_NODE THEN Len(ast) + 1 ELSE ast[i].first_child
       /\ new[i].last_child = IF i = p THEN Len(ast) + 1 ELSE ast[i].last_child
       /\ new[i].next_sibling =
            IF i = last /\ last # NO_NODE THEN Len(ast) + 1 ELSE ast[i].next_sibling
       /\ new[i].type = ast[i].type
  /\ Fresh(new[Len(ast) + 1])
  /\ Len(new) = Len(ast) + 1
  /\ Len(ast) \in Nat
  /\ p \in 1 .. Len(ast)
  /\ ast[p].type = "GRAMMAR"
  /\ last = ast[p].last_child
  /\ last \in {NO_NODE} \cup (p + 1 .. Len(ast))

LEMMA ForwardPreserved ==
  ASSUME NEW ast, NEW new, NEW p, NEW last, AddsLink(new, ast, p, last), IsTree(ast)
  PROVE  LinksForward(new)
<1>1. Ids(new) = 1 .. Len(ast) + 1 /\ Len(ast) \in Nat /\ Len(new) = Len(ast) + 1
  BY DEF AddsLink, Ids
<1>2. ASSUME NEW i \in 1 .. Len(ast)
      PROVE  /\ new[i].first_child \in {NO_NODE} \cup (i + 1 .. Len(new))
             /\ new[i].last_child \in {NO_NODE} \cup (i + 1 .. Len(new))
             /\ new[i].next_sibling \in {NO_NODE} \cup (i + 1 .. Len(new))
  <2>1. /\ ast[i].first_child \in {NO_NODE} \cup (i + 1 .. Len(ast))
        /\ ast[i].last_child \in {NO_NODE} \cup (i + 1 .. Len(ast))
        /\ ast[i].next_sibling \in {NO_NODE} \cup (i + 1 .. Len(ast))
    BY DEF IsTree, LinksForward, Ids
  <2>2. /\ new[i].first_child \in {ast[i].first_child, Len(ast) + 1}
        /\ new[i].last_child \in {ast[i].last_child, Len(ast) + 1}
        /\ new[i].next_sibling \in {ast[i].next_sibling, Len(ast) + 1}
    BY DEF AddsLink
  <2>. QED  BY <1>1, <2>1, <2>2
<1>3. /\ new[Len(ast) + 1].first_child = NO_NODE
      /\ new[Len(ast) + 1].last_child = NO_NODE
      /\ new[Len(ast) + 1].next_sibling = NO_NODE
  BY DEF AddsLink, Fresh
<1>. QED  BY <1>1, <1>2, <1>3 DEF LinksForward

LEMMA EndsPreserved ==
  ASSUME NEW ast, NEW new, NEW p, NEW last, AddsLink(new, ast, p, last), IsTree(ast)
  PROVE  EndsMeet(new)
<1>1. /\ Ids(new) = 1 .. Len(ast) + 1
      /\ Len(ast) \in Nat
      /\ 1 \in 1 .. Len(ast)
      /\ Len(ast) + 1 \notin 1 .. Len(ast)
      /\ p \in 1 .. Len(ast)
      /\ Fresh(new[Len(ast) + 1])
  BY DEF AddsLink, Ids
<1>2. \A i \in 1 .. Len(ast) :
        /\ ast[i].last_child \in {NO_NODE} \cup (i + 1 .. Len(ast))
        /\ ast[i].first_child \in {NO_NODE} \cup (i + 1 .. Len(ast))
        /\ ast[i].first_child = NO_NODE <=> ast[i].last_child = NO_NODE
        /\ ast[i].type = "TOKEN" => ast[i].first_child = NO_NODE
        /\ ast[i].last_child # NO_NODE => ast[ast[i].last_child].next_sibling = NO_NODE
  BY DEF IsTree, EndsMeet, LinksForward, Ids
<1>3. ASSUME NEW i \in 1 .. Len(ast)
      PROVE  /\ new[i].first_child = NO_NODE <=> new[i].last_child = NO_NODE
             /\ new[i].type = "TOKEN" => new[i].first_child = NO_NODE
  BY <1>1, <1>2 DEF AddsLink, NO_NODE
<1>4. ASSUME NEW i \in 1 .. Len(ast), new[i].last_child # NO_NODE
      PROVE  new[new[i].last_child].next_sibling = NO_NODE
  <2>1. CASE i = p
    <3>1. new[i].last_child = Len(ast) + 1
      BY <2>1 DEF AddsLink
    <3>. QED  BY <3>1, <1>1 DEF Fresh
  <2>2. CASE i # p
    <3>1. new[i].last_child = ast[i].last_child
      BY <2>2 DEF AddsLink
    <3>2. ast[i].last_child \in 1 .. Len(ast)
      BY <3>1, <1>2, <1>4 DEF NO_NODE
    <3>3. ast[i].last_child # last
      BY <2>2, <3>1, <1>1, <1>4 DEF AddsLink, IsTree, LinksInjective, Ids
    <3>4. new[ast[i].last_child].next_sibling = ast[ast[i].last_child].next_sibling
      BY <3>2, <3>3 DEF AddsLink
    <3>. QED  BY <3>1, <3>4, <1>2, <1>4
  <2>. QED  BY <2>1, <2>2
<1>5. new[1].next_sibling = NO_NODE
  <2>1. last # 1
    BY <1>1 DEF AddsLink, NO_NODE
  <2>2. ast[1].next_sibling = NO_NODE
    BY <1>1 DEF IsTree, EndsMeet, Head_
  <2>. QED  BY <1>1, <2>1, <2>2 DEF AddsLink
<1>6. /\ new[Len(ast) + 1].first_child = NO_NODE
      /\ new[Len(ast) + 1].last_child = NO_NODE
  BY <1>1 DEF Fresh
<1>. QED  BY <1>1, <1>3, <1>4, <1>5, <1>6 DEF EndsMeet, Head_

LEMMA InjectivePreserved ==
  ASSUME NEW ast, NEW new, NEW p, NEW last, AddsLink(new, ast, p, last), IsTree(ast)
  PROVE  LinksInjective(new)
<1>. DEFINE n == Len(ast) + 1
<1>1. /\ Ids(new) = 1 .. n
      /\ Len(ast) \in Nat
      /\ p \in 1 .. Len(ast)
      /\ last = ast[p].last_child
      /\ last = NO_NODE <=> ast[p].first_child = NO_NODE
  BY DEF AddsLink, IsTree, EndsMeet, Ids
<1>2. \A i \in 1 .. Len(ast) :
        /\ ast[i].last_child # n
        /\ ast[i].first_child # n
        /\ ast[i].next_sibling # n
  BY <1>1 DEF IsTree, LinksForward, Ids, NO_NODE
<1>3. /\ new[n].last_child = NO_NODE
      /\ new[n].first_child = NO_NODE
      /\ new[n].next_sibling = NO_NODE
  BY DEF AddsLink, Fresh
<1>4. \A i \in 1 .. Len(ast) :
        /\ new[i].first_child = IF i = p /\ last = NO_NODE THEN n ELSE ast[i].first_child
        /\ new[i].last_child = IF i = p THEN n ELSE ast[i].last_child
        /\ new[i].next_sibling =
             IF i = last /\ last # NO_NODE THEN n ELSE ast[i].next_sibling
  BY DEF AddsLink
<1>5. n # NO_NODE
  BY <1>1 DEF NO_NODE
<1>. HIDE DEF n
<1>6. ASSUME NEW i \in 1 .. n, NEW j \in 1 .. n
      PROVE  /\ i # j /\ new[i].last_child # NO_NODE => new[i].last_child # new[j].last_child
             /\ i # j /\ new[i].first_child # NO_NODE => new[i].first_child # new[j].first_child
             /\ i # j /\ new[i].next_sibling # NO_NODE => new[i].next_sibling # new[j].next_sibling
             /\ new[i].first_child # NO_NODE => new[i].first_child # new[j].next_sibling
  <2>1. CASE i = n
    BY <2>1, <1>3
  <2>2. CASE j = n
    BY <2>2, <1>3
  <2>3. CASE i \in 1 .. Len(ast) /\ j \in 1 .. Len(ast)
    <3>1. i # j /\ new[i].last_child # NO_NODE => new[i].last_child # new[j].last_child
      BY <2>3, <1>2, <1>4 DEF IsTree, LinksInjective, Ids
    <3>2. i # j /\ new[i].first_child # NO_NODE => new[i].first_child # new[j].first_child
      BY <2>3, <1>2, <1>4 DEF IsTree, LinksInjective, Ids
    <3>3. i # j /\ new[i].next_sibling # NO_NODE => new[i].next_sibling # new[j].next_sibling
      BY <2>3, <1>2, <1>4 DEF IsTree, LinksInjective, Ids
    <3>4. new[i].first_child # NO_NODE => new[i].first_child # new[j].next_sibling
      BY <2>3, <1>1, <1>2, <1>4, <1>5 DEF IsTree, LinksInjective, Ids
    <3>. QED  BY <3>1, <3>2, <3>3, <3>4
  <2>. QED  BY <2>1, <2>2, <2>3, <1>1 DEF n
<1>. QED  BY <1>1, <1>6 DEF LinksInjective

LEMMA NoOrphanPreserved ==
  ASSUME NEW ast, NEW new, NEW p, NEW last, AddsLink(new, ast, p, last), IsTree(ast)
  PROVE  NoOrphan(new)
<1>. SUFFICES ASSUME NEW n \in Ids(new) \ {Head_}
     PROVE  \E i \in Ids(new) : n = new[i].first_child \/ n = new[i].next_sibling
  BY DEF NoOrphan
<1>1. CASE n = Len(ast) + 1
  <2>1. CASE last = NO_NODE
    BY <1>1, <2>1 DEF AddsLink, Ids
  <2>2. CASE last # NO_NODE
    <3>1. last \in 1 .. Len(ast) /\ last \in Ids(new)
      BY <2>2 DEF AddsLink, Ids, NO_NODE
    <3>. QED  BY <1>1, <2>2, <3>1 DEF AddsLink
  <2>. QED  BY <2>1, <2>2
<1>2. CASE n \in 1 .. Len(ast)
  <2>1. PICK i \in Ids(ast) : n = ast[i].first_child \/ n = ast[i].next_sibling
    BY <1>2 DEF IsTree, NoOrphan, Ids
  <2>2. i \in 1 .. Len(ast) /\ i \in Ids(new)
    BY <2>1 DEF AddsLink, Ids
  <2>3. CASE n = ast[i].first_child
    <3>1. new[i].first_child = ast[i].first_child
      BY <1>2, <2>2, <2>3 DEF AddsLink, IsTree, EndsMeet, Ids, NO_NODE
    <3>. QED  BY <2>2, <2>3, <3>1
  <2>4. CASE n = ast[i].next_sibling
    <3>1. new[i].next_sibling = ast[i].next_sibling
      BY <1>2, <2>2, <2>4 DEF AddsLink, IsTree, EndsMeet, Ids, NO_NODE
    <3>. QED  BY <2>2, <2>4, <3>1
  <2>. QED  BY <2>1, <2>3, <2>4
<1>. QED  BY <1>1, <1>2 DEF AddsLink, Ids

\* What AddChild changes of the links.
LEMMA AddChildLinks ==
  ASSUME NEW V, NEW ast \in Seq(NodesOver(V)), IsTree(ast),
         NEW p, IsGrammar(ast, p), NEW node \in NodesOver(V), Fresh(node)
  PROVE  AddsLink(AddChild(ast, p, node), ast, p, ast[p].last_child)
<1>. DEFINE new == AddChild(ast, p, node)
            last == ast[p].last_child
<1>0. LinksForward(ast) /\ EndsMeet(ast)
  BY DEF IsTree
<1>1. /\ new \in Seq(NodesOver(V))
      /\ Len(new) = Len(ast) + 1
      /\ new[Len(ast) + 1] = node
      /\ last \in {NO_NODE} \cup (p + 1 .. Len(ast))
      /\ \A i \in 1 .. Len(ast) :
           /\ new[i].type = ast[i].type
           /\ new[i].value = ast[i].value
           /\ new[i].first_child =
                IF i = p /\ last = NO_NODE THEN Len(ast) + 1 ELSE ast[i].first_child
           /\ new[i].last_child = IF i = p THEN Len(ast) + 1 ELSE ast[i].last_child
           /\ new[i].next_sibling =
                IF i = last /\ last # NO_NODE THEN Len(ast) + 1 ELSE ast[i].next_sibling
  BY <1>0, AddChildAt
<1>2. AddsLink(new, ast, p, last)
  BY <1>1, LenProperties DEF AddsLink, IsGrammar
<1>. QED  BY <1>2

\* Adding a node without links as the last child of a grammar node of a tree
\* gives a tree that extends the old one (ast_node_add_child_token and
\* ast_node_add_child_grammar with _ast_add_node_to_linked_list).
THEOREM AddChildTree ==
  ASSUME NEW V, NEW ast \in Seq(NodesOver(V)), IsTree(ast),
         NEW p, IsGrammar(ast, p), NEW node \in NodesOver(V), Fresh(node)
  PROVE  /\ AddChild(ast, p, node) \in Seq(NodesOver(V))
         /\ Len(AddChild(ast, p, node)) = Len(ast) + 1
         /\ AddChild(ast, p, node)[Len(ast) + 1] = node
         /\ IsTree(AddChild(ast, p, node))
         /\ Extends(AddChild(ast, p, node), ast)
<1>. DEFINE new == AddChild(ast, p, node)
            last == ast[p].last_child
<1>0. LinksForward(ast) /\ EndsMeet(ast)
  BY DEF IsTree
<1>1. /\ new \in Seq(NodesOver(V))
      /\ Len(new) = Len(ast) + 1
      /\ new[Len(ast) + 1] = node
      /\ last \in {NO_NODE} \cup (p + 1 .. Len(ast))
      /\ \A i \in 1 .. Len(ast) :
           /\ new[i].type = ast[i].type
           /\ new[i].value = ast[i].value
           /\ new[i].first_child =
                IF i = p /\ last = NO_NODE THEN Len(ast) + 1 ELSE ast[i].first_child
           /\ new[i].last_child = IF i = p THEN Len(ast) + 1 ELSE ast[i].last_child
           /\ new[i].next_sibling =
                IF i = last /\ last # NO_NODE THEN Len(ast) + 1 ELSE ast[i].next_sibling
  BY <1>0, AddChildAt
<1>2. AddsLink(new, ast, p, last)
  BY AddChildLinks
<1>. HIDE DEF new, last
<1>3. IsTree(new)
  BY <1>2, ForwardPreserved, EndsPreserved, InjectivePreserved, NoOrphanPreserved DEF IsTree
<1>4. last # NO_NODE => ast[p].first_child # NO_NODE
  BY <1>2 DEF AddsLink, IsTree, EndsMeet, Ids
<1>5. last # NO_NODE => ast[last].next_sibling = NO_NODE
  BY <1>2 DEF AddsLink, IsTree, EndsMeet, Ids
<1>6. last = NO_NODE => ast[p].first_child = NO_NODE
  BY <1>2 DEF AddsLink, IsTree, EndsMeet, Ids
<1>7. Extends(new, ast)
  BY <1>1, <1>2, <1>5, <1>6 DEF Extends, AddsLink, Ids
<1>. QED  BY <1>1, <1>3, <1>7 DEF new

\* The array of only a root is a tree (ast_create_root_node).
THEOREM RootTree ==
  ASSUME NEW V, NEW node \in NodesOver(V), Fresh(node)
  PROVE  <<node>> \in Seq(NodesOver(V)) /\ IsTree(<<node>>)
<1>1. <<node>> \in Seq(NodesOver(V)) /\ Len(<<node>>) = 1 /\ <<node>>[1] = node
  OBVIOUS
<1>. QED
  BY <1>1 DEF IsTree, LinksForward, EndsMeet, LinksInjective, NoOrphan, Ids, Fresh,
              NO_NODE, Head_

-----------------------------------------------------------------------------
\* The nodes of a tree are numbered in the order of a depth-first traversal:
\* end[n] is the last node below n, par[n] the parent of n.
Numbered(ast, end, par) ==
  /\ end \in [Ids(ast) -> Nat] /\ par \in [Ids(ast) -> Nat]
  /\ end[Head_] = Len(ast)
  /\ \A n \in Ids(ast) :
       /\ ast[n].first_child = NO_NODE => end[n] = n
       /\ ast[n].first_child # NO_NODE => ast[n].first_child = n + 1 /\ par[n + 1] = n
       /\ ast[n].last_child # NO_NODE => end[ast[n].last_child] = end[n] /\ par[ast[n].last_child] = n
       /\ ast[n].next_sibling # NO_NODE =>
            ast[n].next_sibling = end[n] + 1 /\ par[ast[n].next_sibling] = par[n]
       /\ ast[n].next_sibling = NO_NODE /\ n # Head_ =>
            par[n] \in Ids(ast) /\ ast[par[n]].last_child = n

\* The open nodes, below which nodes may be added, are those from the root to
\* p, each the last child of the one above it.
OpenNodes(ast, open, p) ==
  /\ open \subseteq Ids(ast) /\ p \in open /\ Head_ \in open
  /\ \A x \in open : x <= p
  /\ \A x \in open : x = p \/ ast[x].last_child \in open
  /\ \A x \in open : x = Head_ \/ \E y \in open : ast[y].last_child = x

\* A node added below the last open node keeps the numbering, and belongs to
\* all open nodes.
LEMMA AddNumbered ==
  ASSUME NEW ast, NEW new, NEW p, NEW last, AddsLink(new, ast, p, last), IsTree(ast),
         NEW open, OpenNodes(ast, open, p),
         NEW end, NEW par, Numbered(ast, end, par), \A x \in open : end[x] = Len(ast)
  PROVE  \E e, r : /\ Numbered(new, e, r)
                   /\ \A x \in open \cup {Len(ast) + 1} : e[x] = Len(new)
<1>0. PICK k : k = Len(ast) + 1
  OBVIOUS
<1>1. /\ Len(ast) \in Nat /\ Len(new) = k /\ k \in Nat /\ Ids(ast) = 1 .. Len(ast) /\ Ids(new) = 1 .. k
      /\ p \in Ids(ast) /\ open \subseteq Ids(ast) /\ k \notin Ids(ast) /\ k # 0
      /\ Ids(new) = Ids(ast) \cup {k} /\ Head_ = 1 /\ 1 \in Ids(ast) /\ NO_NODE = 0
  BY <1>0 DEF AddsLink, OpenNodes, Ids, Head_, NO_NODE
<1>2. /\ \A i \in Ids(ast) :
           /\ new[i].first_child = IF i = p /\ last = 0 THEN k ELSE ast[i].first_child
           /\ new[i].last_child = IF i = p THEN k ELSE ast[i].last_child
           /\ new[i].next_sibling = IF i = last /\ last # 0 THEN k ELSE ast[i].next_sibling
      /\ new[k].first_child = 0 /\ new[k].last_child = 0 /\ new[k].next_sibling = 0
      /\ last = ast[p].last_child /\ last \in {0} \cup (p + 1 .. Len(ast))
  BY <1>0 DEF AddsLink, Ids, Fresh, NO_NODE
<1>3. \A i \in Ids(ast) :
        /\ ast[i].first_child \in {0} \cup (i + 1 .. Len(ast))
        /\ ast[i].last_child \in {0} \cup (i + 1 .. Len(ast))
        /\ ast[i].next_sibling \in {0} \cup (i + 1 .. Len(ast))
        /\ ast[i].first_child = 0 <=> ast[i].last_child = 0
  BY DEF IsTree, LinksForward, EndsMeet, NO_NODE
<1>4. \A i, j \in Ids(ast) : ast[i].last_child # 0 /\ ast[i].last_child = ast[j].last_child => i = j
  BY DEF IsTree, LinksInjective, NO_NODE
<1>5. /\ end \in [Ids(ast) -> Nat] /\ par \in [Ids(ast) -> Nat]
      /\ end[1] = Len(ast)
      /\ \A n \in Ids(ast) :
           /\ ast[n].first_child = 0 => end[n] = n
           /\ ast[n].first_child # 0 => ast[n].first_child = n + 1 /\ par[n + 1] = n
           /\ ast[n].last_child # 0 => end[ast[n].last_child] = end[n] /\ par[ast[n].last_child] = n
           /\ ast[n].next_sibling # 0 =>
                ast[n].next_sibling = end[n] + 1 /\ par[ast[n].next_sibling] = par[n]
           /\ ast[n].next_sibling = 0 /\ n # 1 => par[n] \in Ids(ast) /\ ast[par[n]].last_child = n
  BY DEF Numbered, NO_NODE, Head_
<1>6. /\ p \in open /\ 1 \in open /\ \A x \in open : x <= p /\ end[x] = Len(ast)
      /\ \A x \in open : x = p \/ ast[x].last_child \in open
      /\ \A x \in open : x = 1 \/ \E y \in open : ast[y].last_child = x
  BY DEF OpenNodes, Head_
<1>7. PICK e, r : /\ e = [n \in Ids(new) |-> IF n = k \/ n \in open THEN k ELSE end[n]]
                  /\ r = [n \in Ids(new) |-> IF n = k THEN p ELSE par[n]]
  OBVIOUS
<1>8. /\ e \in [Ids(new) -> Nat] /\ r \in [Ids(new) -> Nat]
      /\ e[k] = k /\ r[k] = p
      /\ \A x \in open : e[x] = k
      /\ \A n \in Ids(ast) : r[n] = par[n] /\ (n \notin open => e[n] = end[n])
  <2>0. p \in Nat /\ \A n \in Ids(new) : n # k => n \in Ids(ast)
    BY <1>1
  <2>1. e \in [Ids(new) -> Nat]
    BY <1>1, <1>5, <1>7, <2>0
  <2>2. r \in [Ids(new) -> Nat]
    BY <1>1, <1>5, <1>7, <2>0
  <2>3. /\ e[k] = k /\ r[k] = p
        /\ \A x \in open : e[x] = k
        /\ \A n \in Ids(ast) : r[n] = par[n] /\ (n \notin open => e[n] = end[n])
    BY <1>1, <1>7
  <2>. QED  BY <2>1, <2>2, <2>3
\* No open node has a sibling, those above p have children, and only the last
\* children of open nodes are open.
<1>9. \A n \in Ids(ast) : n \in open => end[n] = Len(ast) /\ ast[n].next_sibling = 0
  BY <1>1, <1>3, <1>5, <1>6
<1>10. \A n \in Ids(ast) : n \in open /\ n # p => ast[n].last_child \in open
  BY <1>1, <1>6
<1>11. \A n \in Ids(ast) : n \notin open /\ ast[n].last_child # 0 => ast[n].last_child \notin open
  <2>. SUFFICES ASSUME NEW n \in Ids(ast), n \notin open, ast[n].last_child # 0, ast[n].last_child \in open
                PROVE  FALSE
    OBVIOUS
  <2>1. ast[n].last_child # 1
    BY <1>1, <1>3
  <2>2. PICK y \in open : ast[y].last_child = ast[n].last_child
    BY <1>6, <2>1
  <2>. QED  BY <1>1, <1>4, <2>2
<1>12. last # 0 => last \in Ids(ast) /\ last \notin open /\ end[last] = Len(ast) /\ par[last] = p
                   /\ ast[last].next_sibling = 0
  <2>. SUFFICES ASSUME last # 0
                PROVE  last \in Ids(ast) /\ last \notin open /\ end[last] = Len(ast) /\ par[last] = p
                       /\ ast[last].next_sibling = 0
    OBVIOUS
  <2>1. last \in Ids(ast) /\ last > p
    BY <1>1, <1>2
  <2>2. ast[last].next_sibling = 0
    BY <1>1, <1>2 DEF IsTree, EndsMeet, NO_NODE
  <2>. QED  BY <1>1, <1>2, <1>5, <1>6, <2>1, <2>2
<1>13. last = 0 => p = Len(ast)
  <2>1. p \in Ids(ast) /\ end[p] = Len(ast) /\ last = ast[p].last_child
    BY <1>1, <1>2, <1>6
  <2>2. last = 0 => ast[p].first_child = 0
    BY <1>3, <2>1
  <2>. QED  BY <1>5, <2>1, <2>2
<1>14. ASSUME NEW n \in Ids(ast)
       PROVE  /\ new[n].first_child = 0 => e[n] = n
              /\ new[n].first_child # 0 => new[n].first_child = n + 1 /\ r[n + 1] = n
              /\ new[n].last_child # 0 => e[new[n].last_child] = e[n] /\ r[new[n].last_child] = n
  <2>1. CASE n = p
    <3>1. new[n].last_child = k /\ e[n] = k
      BY <1>1, <1>2, <1>6, <1>8, <2>1
    <3>2. CASE last = 0
      BY <1>0, <1>1, <1>2, <1>8, <1>13, <2>1, <3>1, <3>2
    <3>3. CASE last # 0
      <4>1. new[n].first_child = ast[n].first_child /\ ast[n].first_child # 0
        BY <1>1, <1>2, <1>3, <2>1, <3>3
      <4>2. n + 1 \in Ids(ast)
        BY <1>1, <1>3, <1>5, <4>1
      <4>. QED  BY <1>5, <1>8, <2>1, <3>1, <4>1, <4>2
    <3>. QED  BY <3>2, <3>3
  <2>2. CASE n # p
    <3>1. new[n].last_child = ast[n].last_child /\ new[n].first_child = ast[n].first_child
      BY <1>2, <2>2
    <3>2. ast[n].first_child # 0 => ast[n].first_child = n + 1 /\ r[n + 1] = n
      BY <1>1, <1>3, <1>5, <1>8, SMTT(30)
    <3>3. ASSUME ast[n].last_child # 0
          PROVE  e[ast[n].last_child] = e[n] /\ r[ast[n].last_child] = n
      <4>1. ast[n].last_child \in Ids(ast)
        BY <1>1, <1>3, <3>3
      <4>2. CASE n \in open
        BY <1>5, <1>8, <1>10, <2>2, <3>3, <4>1, <4>2
      <4>3. CASE n \notin open
        BY <1>5, <1>8, <1>11, <3>3, <4>1, <4>3
      <4>. QED  BY <4>2, <4>3
    <3>4. ast[n].first_child = 0 => e[n] = n
      <4>1. CASE n \in open
        <5>1. ast[n].last_child \in Ids(ast)
          BY <1>1, <1>10, <2>2, <4>1
        <5>. QED  BY <1>1, <1>3, <5>1
      <4>2. CASE n \notin open
        BY <1>5, <1>8, <4>2
      <4>. QED  BY <4>1, <4>2
    <3>. QED  BY <3>1, <3>2, <3>3, <3>4
  <2>. QED  BY <2>1, <2>2
<1>15. ASSUME NEW n \in Ids(ast)
       PROVE  /\ new[n].next_sibling # 0 =>
                   new[n].next_sibling = e[n] + 1 /\ r[new[n].next_sibling] = r[n]
              /\ new[n].next_sibling = 0 /\ n # 1 => r[n] \in Ids(new) /\ new[r[n]].last_child = n
  <2>1. CASE n = last
    BY <1>0, <1>1, <1>2, <1>8, <1>12, <2>1
  <2>2. CASE n # last
    <3>1. new[n].next_sibling = ast[n].next_sibling
      BY <1>2, <2>2
    <3>2. ASSUME ast[n].next_sibling # 0
          PROVE  ast[n].next_sibling = e[n] + 1 /\ r[ast[n].next_sibling] = r[n]
      <4>1. n \notin open /\ ast[n].next_sibling \in Ids(ast)
        BY <1>1, <1>3, <1>9, <3>2
      <4>. QED  BY <1>5, <1>8, <3>2, <4>1
    <3>3. ASSUME ast[n].next_sibling = 0, n # 1
          PROVE  r[n] \in Ids(new) /\ new[r[n]].last_child = n
      <4>1. par[n] \in Ids(ast) /\ ast[par[n]].last_child = n
        BY <1>5, <3>3
      <4>2. par[n] # p
        BY <1>2, <2>2, <4>1
      <4>. QED  BY <1>1, <1>2, <1>8, <4>1, <4>2, SMTT(30)
    <3>. QED  BY <3>1, <3>2, <3>3
  <2>. QED  BY <2>1, <2>2
<1>16. /\ new[k].first_child = 0 => e[k] = k
       /\ new[k].next_sibling = 0 => r[k] \in Ids(new) /\ new[r[k]].last_child = k
  BY <1>1, <1>2, <1>8
<1>17. Numbered(new, e, r)
  <2>1. \A n \in Ids(new) :
          /\ new[n].first_child = 0 => e[n] = n
          /\ new[n].first_child # 0 => new[n].first_child = n + 1 /\ r[n + 1] = n
          /\ new[n].last_child # 0 => e[new[n].last_child] = e[n] /\ r[new[n].last_child] = n
          /\ new[n].next_sibling # 0 =>
               new[n].next_sibling = e[n] + 1 /\ r[new[n].next_sibling] = r[n]
          /\ new[n].next_sibling = 0 /\ n # 1 => r[n] \in Ids(new) /\ new[r[n]].last_child = n
    BY <1>1, <1>2, <1>14, <1>15, <1>16
  <2>. QED  BY <1>1, <1>6, <1>8, <2>1 DEF Numbered
<1>. QED  BY <1>0, <1>1, <1>8, <1>17
=============================================================================
