--------------------------------- MODULE Ast ---------------------------------
(***************************************************************************)
(* The node array of the syntax tree as a component of its own: a block of *)
(* memory that doubles when it is full (ast/ast.c, core/core.c).  Doubling *)
(* may move the block, so a pointer into it that was taken before is       *)
(* stale afterwards, and the size it asks for is a uint32_t, so it wraps   *)
(* around at SIZE_LIMIT.  A write through a stale pointer, or beyond the   *)
(* block, is undefined behaviour.                                          *)
(***************************************************************************)
EXTENDS AstTree

CONSTANTS Token,                 \* the tokens a client may add
          Grammar,               \* the grammar types
          INIT_NODE_ARRAY_SIZE,  \* 512 in the code
          NODE_BYTES,            \* sizeof(ASTNode), 40 bytes
          SIZE_LIMIT,            \* sizes are modulo this, 2^32 bytes
          MaxNodes               \* bound on the nodes of a run

AST_RESIZE_FACTOR == 2

ASSUME AstAssumption ==
  /\ INIT_NODE_ARRAY_SIZE \in Nat \ {0}
  /\ NODE_BYTES \in Nat \ {0}
  /\ SIZE_LIMIT \in Nat \ {0}
  /\ MaxNodes \in Nat
  /\ INIT_NODE_ARRAY_SIZE * NODE_BYTES < SIZE_LIMIT

VARIABLES node_array,           \* the nodes
          node_array_capacity,  \* the nodes the block is meant to hold
          bytes,                \* the size of the block that was allocated
          block,                \* the address of the block
          status                \* "ok", "exited" or "undefined"

vars == <<node_array, node_array_capacity, bytes, block, status>>

\* ast_init
Init ==
  /\ node_array = <<>>
  /\ node_array_capacity = INIT_NODE_ARRAY_SIZE
  /\ bytes = INIT_NODE_ARRAY_SIZE * NODE_BYTES
  /\ block = 0
  /\ status = "ok"

-----------------------------------------------------------------------------
\* Mutant: the array grows one node too late.
IsFullLate == Len(node_array) > node_array_capacity

IsFull == Len(node_array) = node_array_capacity

\* _maybe_resize_node_array: a full array is reallocated at twice its size,
\* in place or at another address.
MaybeResize ==
  \/ /\ ~ IsFull
     /\ UNCHANGED <<node_array_capacity, bytes, block>>
  \/ /\ IsFull
     /\ node_array_capacity' = (node_array_capacity * AST_RESIZE_FACTOR) % SIZE_LIMIT
     /\ bytes' = (node_array_capacity' * NODE_BYTES) % SIZE_LIMIT
     /\ bytes' # 0
     /\ block' \in {0, 1}

\* xrealloc gets no memory, or is asked for none, and exits the process.
ReallocFails ==
  /\ IsFull
  /\ status' = "exited"
  /\ UNCHANGED <<node_array, node_array_capacity, bytes, block>>

\* Mutant: the parent pointer is the one taken before the reallocation.
ParentPointerStale(before, after) == before

\* The block that the parent pointer refers to, fetched after the resize.
ParentPointer(before, after) == after

\* With the resize done, the new node goes to the end of the array: this is
\* defined if the block has room for it and the parent pointer is not stale.
Defined ==
  /\ (Len(node_array) + 1) * NODE_BYTES <= bytes'
  /\ ParentPointer(block, block') = block'

\* The part the three operations share: room for a node, then the new array.
Put(array) ==
  /\ status = "ok"
  /\ Len(node_array) < MaxNodes
  /\ \/ ReallocFails
     \/ /\ MaybeResize
        /\ IF Defined THEN node_array' = array /\ status' = "ok"
                      ELSE node_array' = node_array /\ status' = "undefined"

\* ast_create_root_node
CreateRoot(grammar) ==
  /\ node_array = <<>>
  /\ Put(<<GrammarNode(grammar)>>)

\* ast_node_add_child_token
AddChildToken(parent, token) ==
  /\ IsGrammar(node_array, parent)
  /\ Put(AddToken(node_array, parent, token))

\* ast_node_add_child_grammar
AddChildGrammar(parent, grammar) ==
  /\ IsGrammar(node_array, parent)
  /\ Put(AddGrammar(node_array, parent, grammar))

Next ==
  \/ \E g \in Grammar : CreateRoot(g)
  \/ \E p \in Ids(node_array), t \in Token : AddChildToken(p, t)
  \/ \E p \in Ids(node_array), g \in Grammar : AddChildGrammar(p, g)

Spec == Init /\ [][Next]_vars

-----------------------------------------------------------------------------
NodeSet ==
  [type : {"TOKEN", "GRAMMAR"}, value : Token \cup Grammar,
   first_child : Nat, last_child : Nat, next_sibling : Nat]

TagRight(node) ==
  \/ node.type = "TOKEN" /\ node.value \in Token
  \/ node.type = "GRAMMAR" /\ node.value \in Grammar

\* Types of the fields of struct AST and struct ASTNode (ast.h); the tag of a
\* node says which member of its union it holds.
TypeOK ==
  /\ node_array \in Seq(NodeSet)
  /\ \A n \in Ids(node_array) : TagRight(node_array[n])
  /\ node_array_capacity \in Nat
  /\ bytes \in Nat
  /\ block \in {0, 1}
  /\ status \in {"ok", "exited", "undefined"}

\* Following first_child and next_sibling from the root reaches every node
\* exactly once, whatever was added where (ast.c lines 87-137).
TreeWellFormed == IsTree(node_array)

\* Growing the array never writes outside the block or through a pointer
\* into a block that realloc has moved (lines 54-61 and 101-105).
NoUndefinedBehaviour == status # "undefined"

\* Adding a node changes no node id, value or link that a client has read
\* already (the analyzer and emitter keep NodeIDs and Token pointers).
AppendOnly == [][Extends(node_array', node_array)]_vars
=============================================================================
