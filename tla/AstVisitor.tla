----------------------------- MODULE AstVisitor -----------------------------
(***************************************************************************)
(* The depth-first traversal of a syntax tree that the name table and the  *)
(* semantic analyzer share (ast/ast_visitor.c), one callback a step, with  *)
(* the stack of enclosing statements that both of them keep in their       *)
(* callbacks for grammar nodes.                                            *)
(***************************************************************************)
EXTENDS AstTree

VARIABLES ast,             \* the tree, which a traversal does not change
          path,            \* the nodes whose traversal is running, root first
          move,            \* whether the last of them is yet to "enter" or to "leave"
          statement_stack  \* the STATEMENT nodes entered and not left

visitorVars == <<path, move, statement_stack>>

\* No traversal is running.
Idle == path = <<>> /\ move = "none" /\ statement_stack = <<>>

\* ast_traverse from the root
StartTraversal == path' = <<Head_>> /\ move' = "enter" /\ statement_stack' = <<>>

\* The node visited, and gen_ctx.parent_id
Current == path[Len(path)]
Parent == IF Len(path) > 1 THEN path[Len(path) - 1] ELSE NO_NODE

Above == SubSeq(path, 1, Len(path) - 1)

IsStatement(node) == ast[node].value = "STATEMENT"

\* get_statement_ancestor
StatementAncestor ==
  IF statement_stack = <<>> THEN NO_NODE ELSE statement_stack[Len(statement_stack)]

AtToken == move = "enter" /\ IsToken(ast, Current)

\* The traversal after a token callback that returned CONTINUE, or STOP: a stop
\* ends it at once, and the owner frees the statement stack.
Continue == move' = "leave" /\ UNCHANGED <<path, statement_stack>>
Stop == path' = <<>> /\ move' = "none" /\ statement_stack' = <<>>

\* visit_grammar_enter, then down to the first child if there is one
EnterGrammar ==
  /\ move = "enter"
  /\ IsGrammar(ast, Current)
  /\ statement_stack' = IF IsStatement(Current) THEN Append(statement_stack, Current)
                                                ELSE statement_stack
  /\ IF FirstChild(ast, Current) = NO_NODE
       THEN move' = "leave" /\ UNCHANGED path
       ELSE path' = Append(path, FirstChild(ast, Current)) /\ UNCHANGED move

\* Mutant: a statement is not popped when it is left.
PoppedNever == statement_stack

\* visit_grammar_exit
Popped ==
  IF IsGrammar(ast, Current) /\ IsStatement(Current)
    THEN SubSeq(statement_stack, 1, Len(statement_stack) - 1)
    ELSE statement_stack

\* Mutant: the parent of a last child is entered again, not left.
LeaveNodeRevisit ==
  /\ move = "leave"
  /\ statement_stack' = Popped
  /\ \/ /\ Len(path) = 1
        /\ path' = <<>> /\ move' = "none"
     \/ /\ Len(path) > 1
        /\ NextSibling(ast, Current) # NO_NODE
        /\ path' = Append(Above, NextSibling(ast, Current)) /\ move' = "enter"
     \/ /\ Len(path) > 1
        /\ NextSibling(ast, Current) = NO_NODE
        /\ path' = Above /\ move' = "enter"

\* A node is left, for its next sibling or for the parent it was the last of.
LeaveNode ==
  /\ move = "leave"
  /\ statement_stack' = Popped
  /\ \/ /\ Len(path) = 1
        /\ path' = <<>> /\ move' = "none"
     \/ /\ Len(path) > 1
        /\ NextSibling(ast, Current) # NO_NODE
        /\ path' = Append(Above, NextSibling(ast, Current)) /\ move' = "enter"
     \/ /\ Len(path) > 1
        /\ NextSibling(ast, Current) = NO_NODE
        /\ path' = Above /\ UNCHANGED move

Walk == EnterGrammar \/ LeaveNode

\* The statement stack is the statements among the nodes of the path, from the
\* outermost to the innermost (a node below another was added after it).
StatementsOfPath ==
  LET entered == IF move = "enter" THEN Above ELSE path
  IN  /\ {statement_stack[d] : d \in 1 .. Len(statement_stack)} =
           {n \in {entered[d] : d \in 1 .. Len(entered)} : IsGrammar(ast, n) /\ IsStatement(n)}
      /\ \A d, e \in 1 .. Len(statement_stack) : d < e => statement_stack[d] < statement_stack[e]
=============================================================================
