------------------------------- MODULE AstTree -------------------------------
(***************************************************************************)
(* The syntax tree as the compiler stores it (ast/ast.c): an array of      *)
(* nodes, in the order they were added, linked by node ids.  A token node  *)
(* is a leaf.  A grammar node knows its first and last child, and every    *)
(* node knows its next sibling.                                            *)
(*                                                                         *)
(* Here the array is a sequence, so the id of a node is one more than its  *)
(* NodeID in C, and NO_NODE, which is (NodeID)-1 in C, is 0.               *)
(***************************************************************************)
EXTENDS Integers, Sequences

NO_NODE == 0

\* ast_head: the root is always the first node of the array.
Head_ == 1

TokenNode(token) ==
  [type |-> "TOKEN", value |-> token,
   first_child |-> NO_NODE, last_child |-> NO_NODE, next_sibling |-> NO_NODE]

\* Mutant: the tag of the union says token.
GrammarNodeMistagged(grammar) ==
  [type |-> "TOKEN", value |-> grammar,
   first_child |-> NO_NODE, last_child |-> NO_NODE, next_sibling |-> NO_NODE]

GrammarNode(grammar) ==
  [type |-> "GRAMMAR", value |-> grammar,
   first_child |-> NO_NODE, last_child |-> NO_NODE, next_sibling |-> NO_NODE]

IsToken(ast, id) == id \in 1 .. Len(ast) /\ ast[id].type = "TOKEN"

IsGrammar(ast, id) == id \in 1 .. Len(ast) /\ ast[id].type = "GRAMMAR"

\* Mutant: the previous last child is not told about its new sibling.
LinkWithoutSibling(ast, parent, new) ==
  IF ast[parent].last_child # NO_NODE
    THEN [ast EXCEPT ![parent].last_child = new]
    ELSE [ast EXCEPT ![parent].first_child = new, ![parent].last_child = new]

\* Mutant: the first child is replaced by the new one.
LinkOverFirst(ast, parent, new) ==
  IF ast[parent].last_child # NO_NODE
    THEN [ast EXCEPT ![ast[parent].last_child].next_sibling = new,
                     ![parent].first_child = new, ![parent].last_child = new]
    ELSE [ast EXCEPT ![parent].first_child = new, ![parent].last_child = new]

\* _ast_add_node_to_linked_list: the node new, already in the array, becomes
\* the last child of parent.
LinkLast(ast, parent, new) ==
  IF ast[parent].last_child # NO_NODE
    THEN [ast EXCEPT ![ast[parent].last_child].next_sibling = new,
                     ![parent].last_child = new]
    ELSE [ast EXCEPT ![parent].first_child = new, ![parent].last_child = new]

\* ast_node_add_child_token and ast_node_add_child_grammar: the node is put
\* at the end of the array, then linked to its parent.
AddChild(ast, parent, node) == LinkLast(Append(ast, node), parent, Len(ast) + 1)

AddToken(ast, parent, token) == AddChild(ast, parent, TokenNode(token))

AddGrammar(ast, parent, grammar) == AddChild(ast, parent, GrammarNode(grammar))

\* ast_get_first_child
FirstChild(ast, id) == IF IsGrammar(ast, id) THEN ast[id].first_child ELSE NO_NODE

\* ast_get_next_sibling, which trusts the id it is given
NextSibling(ast, id) == IF id = NO_NODE THEN NO_NODE ELSE ast[id].next_sibling

-----------------------------------------------------------------------------
(***************************************************************************)
(* The structure that makes the array a tree.                              *)
(***************************************************************************)
Ids(ast) == 1 .. Len(ast)

\* Links only go to nodes that were added later, or nowhere.
LinksForward(ast) ==
  \A i \in Ids(ast) :
    /\ ast[i].first_child \in {NO_NODE} \cup (i + 1 .. Len(ast))
    /\ ast[i].last_child \in {NO_NODE} \cup (i + 1 .. Len(ast))
    /\ ast[i].next_sibling \in {NO_NODE} \cup (i + 1 .. Len(ast))

\* A node has a first child exactly when it has a last one; tokens have none,
\* the root has no sibling, and the last child of a node is followed by none.
EndsMeet(ast) ==
  /\ \A i \in Ids(ast) :
       /\ ast[i].first_child = NO_NODE <=> ast[i].last_child = NO_NODE
       /\ ast[i].type = "TOKEN" => ast[i].first_child = NO_NODE
       /\ ast[i].last_child # NO_NODE => ast[ast[i].last_child].next_sibling = NO_NODE
  /\ Len(ast) > 0 => ast[Head_].next_sibling = NO_NODE

\* No node is the last child of two nodes, the first child of two nodes, the
\* next sibling of two nodes, or both a first child and a next sibling.
LinksInjective(ast) ==
  \A i, j \in Ids(ast) :
    /\ i # j /\ ast[i].last_child # NO_NODE => ast[i].last_child # ast[j].last_child
    /\ i # j /\ ast[i].first_child # NO_NODE => ast[i].first_child # ast[j].first_child
    /\ i # j /\ ast[i].next_sibling # NO_NODE => ast[i].next_sibling # ast[j].next_sibling
    /\ ast[i].first_child # NO_NODE => ast[i].first_child # ast[j].next_sibling

\* Every node but the root is a first child or a next sibling: none is lost.
NoOrphan(ast) ==
  \A n \in Ids(ast) \ {Head_} :
    \E i \in Ids(ast) : n = ast[i].first_child \/ n = ast[i].next_sibling

IsTree(ast) ==
  /\ LinksForward(ast)
  /\ EndsMeet(ast)
  /\ LinksInjective(ast)
  /\ NoOrphan(ast)

\* One array extends another: old nodes keep their value, and a link that
\* was set is never changed.  Node ids held by a client stay meaningful.
Extends(new, old) ==
  /\ Len(old) <= Len(new)
  /\ \A i \in Ids(old) :
       /\ new[i].type = old[i].type
       /\ new[i].value = old[i].value
       /\ old[i].first_child # NO_NODE => new[i].first_child = old[i].first_child
       /\ old[i].next_sibling # NO_NODE => new[i].next_sibling = old[i].next_sibling
=============================================================================
