----------------------------- MODULE MemoryProofs -----------------------------
(***************************************************************************)
(* The components that keep a block of memory of their own, each by        *)
(* itself.                                                                 *)
(*                                                                         *)
(* The node array is a tree whatever is added where, it only ever grows,   *)
(* and, as long as the sizes it asks for are below the width of a size, no *)
(* write goes outside the block.                                           *)
(*                                                                         *)
(* The batched writer keeps its buffer in bounds, loses nothing, and       *)
(* implements AppendLog, whatever the buffer size and the strings written. *)
(*                                                                         *)
(* Whatever is typed, with words of any length and numbers of any size,    *)
(* each INPUT gives an int that its word may mean, and stays in its frame. *)
(***************************************************************************)
EXTENDS Ast, AstTreeProofs, BatchedWriter, InputHelper

-----------------------------------------------------------------------------
(***************************************************************************)
(* The node array.                                                         *)
(***************************************************************************)
NodeValues == Token \cup Grammar

LEMMA NodeSetIsNodesOver == NodeSet = NodesOver(NodeValues)
BY DEF NodeSet, NodesOver, NodeValues

LEMMA NewNodes ==
  /\ \A t \in Token : /\ TokenNode(t) \in NodesOver(NodeValues)
                       /\ Fresh(TokenNode(t))
                       /\ TagRight(TokenNode(t))
  /\ \A g \in Grammar : /\ GrammarNode(g) \in NodesOver(NodeValues)
                         /\ Fresh(GrammarNode(g))
                         /\ TagRight(GrammarNode(g))
BY DEF TokenNode, GrammarNode, NodesOver, NodeValues, Fresh, TagRight, NO_NODE

\* An array that the next operation may put in the place of node_array.
Successor(array) ==
  /\ array \in Seq(NodesOver(NodeValues))
  /\ Len(array) = Len(node_array) + 1
  /\ IsTree(array)
  /\ Extends(array, node_array)
  /\ TagRight(array[Len(node_array) + 1])

\* Each of the operations puts a successor of the array, or leaves it alone.
LEMMA StepPuts ==
  ASSUME node_array \in Seq(NodesOver(NodeValues)), IsTree(node_array), Next
  PROVE  \E array : Put(array) /\ Successor(array)
<1>1. CASE \E g \in Grammar : CreateRoot(g)
  <2>1. PICK g \in Grammar : CreateRoot(g)
    BY <1>1
  <2>2. /\ GrammarNode(g) \in NodesOver(NodeValues)
        /\ Fresh(GrammarNode(g)) /\ TagRight(GrammarNode(g))
    BY NewNodes
  <2>. DEFINE root == GrammarNode(g)
  <2>. HIDE DEF root
  <2>3. /\ <<root>> \in Seq(NodesOver(NodeValues)) /\ IsTree(<<root>>)
        /\ Len(<<root>>) = 1 /\ TagRight(<<root>>[1])
    BY <2>2, RootTree DEF root
  <2>4. node_array = <<>> /\ Len(node_array) = 0
    BY <2>1 DEF CreateRoot
  <2>5. Extends(<<root>>, node_array)
    BY <2>3, <2>4 DEF Extends, Ids
  <2>6. Put(<<root>>)
    BY <2>1 DEF CreateRoot, root
  <2>7. Successor(<<root>>)
    BY <2>3, <2>4, <2>5 DEF Successor
  <2>. QED  BY <2>6, <2>7
<1>2. CASE \E p \in Ids(node_array), t \in Token : AddChildToken(p, t)
  <2>1. PICK p \in Ids(node_array), t \in Token : AddChildToken(p, t)
    BY <1>2
  <2>2. IsGrammar(node_array, p) /\ Put(AddChild(node_array, p, TokenNode(t)))
    BY <2>1 DEF AddChildToken, AddToken
  <2>3. /\ TokenNode(t) \in NodesOver(NodeValues)
        /\ Fresh(TokenNode(t)) /\ TagRight(TokenNode(t))
    BY NewNodes
  <2>4. Successor(AddChild(node_array, p, TokenNode(t)))
    BY <2>2, <2>3, AddChildTree DEF Successor
  <2>. QED  BY <2>2, <2>4
<1>3. CASE \E p \in Ids(node_array), g \in Grammar : AddChildGrammar(p, g)
  <2>1. PICK p \in Ids(node_array), g \in Grammar : AddChildGrammar(p, g)
    BY <1>3
  <2>2. IsGrammar(node_array, p) /\ Put(AddChild(node_array, p, GrammarNode(g)))
    BY <2>1 DEF AddChildGrammar, AddGrammar
  <2>3. /\ GrammarNode(g) \in NodesOver(NodeValues)
        /\ Fresh(GrammarNode(g)) /\ TagRight(GrammarNode(g))
    BY NewNodes
  <2>4. Successor(AddChild(node_array, p, GrammarNode(g)))
    BY <2>2, <2>3, AddChildTree DEF Successor
  <2>. QED  BY <2>2, <2>4
<1>. QED  BY <1>1, <1>2, <1>3 DEF Next

LEMMA EmptyTree == <<>> \in Seq(NodesOver(NodeValues)) /\ IsTree(<<>>)
BY DEF IsTree, LinksForward, EndsMeet, LinksInjective, NoOrphan, Ids

Inv == TypeOK /\ TreeWellFormed

LEMMA InitInv == Init => Inv
BY EmptyTree, NodeSetIsNodesOver, AstAssumption
   DEF Init, Inv, TypeOK, TreeWellFormed, Ids

\* The array of the next state is the old one, or a successor of it.
LEMMA StepArray ==
  ASSUME Inv, Next
  PROVE  node_array' = node_array \/ Successor(node_array')
<1>1. PICK array : Put(array) /\ Successor(array)
  BY StepPuts, NodeSetIsNodesOver DEF Inv, TypeOK, TreeWellFormed
<1>. QED  BY <1>1 DEF Put, ReallocFails

LEMMA StepInv == Inv /\ [Next]_vars => Inv'
<1>. SUFFICES ASSUME Inv, [Next]_vars PROVE Inv'
  OBVIOUS
<1>1. CASE Next
  <2>1. PICK array : Put(array)
    BY <1>1, StepPuts, NodeSetIsNodesOver DEF Inv, TypeOK, TreeWellFormed
  <2>2. node_array' \in Seq(NodeSet) /\ IsTree(node_array')
    BY <1>1, StepArray, NodeSetIsNodesOver DEF Inv, TypeOK, TreeWellFormed, Successor
  <2>5. \A n \in Ids(node_array') : TagRight(node_array'[n])
    <3>1. CASE node_array' = node_array
      BY <3>1 DEF Inv, TypeOK
    <3>2. CASE Successor(node_array')
      <4>1. /\ Len(node_array) \in Nat
            /\ \A n \in Ids(node_array') : n \in Ids(node_array) \/ n = Len(node_array) + 1
        BY <3>2 DEF Successor, Ids, Inv, TypeOK
      <4>2. \A n \in Ids(node_array) : TagRight(node_array'[n])
        BY <3>2 DEF Successor, Extends, TagRight, Inv, TypeOK
      <4>. QED  BY <3>2, <4>1, <4>2 DEF Successor
    <3>. QED  BY <1>1, <3>1, <3>2, StepArray
  <2>3. /\ node_array_capacity' \in Nat
        /\ bytes' \in Nat
        /\ block' \in {0, 1}
    BY <2>1, AstAssumption
       DEF Put, ReallocFails, MaybeResize, Inv, TypeOK, AST_RESIZE_FACTOR
  <2>4. status' \in {"ok", "exited", "undefined"}
    BY <2>1 DEF Put, ReallocFails
  <2>. QED  BY <2>2, <2>3, <2>4, <2>5 DEF Inv, TypeOK, TreeWellFormed
<1>2. CASE UNCHANGED vars
  BY <1>2 DEF vars, Inv, TypeOK, TreeWellFormed
<1>. QED  BY <1>1, <1>2

LEMMA AlwaysInv == Spec => []Inv
BY InitInv, StepInv, PTL DEF Spec

\* The fields of the AST keep their types (struct AST in ast.h).
THEOREM AstTypeCorrect == Spec => []TypeOK
BY AlwaysInv, PTL DEF Inv

\* Whatever children are added where, the array is a tree: every node but the
\* root is reached by exactly one link (ast.c lines 87-137).
THEOREM TreeSafety == Spec => []TreeWellFormed
BY AlwaysInv, PTL DEF Inv

\* No operation changes what a client has read of the tree.
THEOREM OnlyAppends == Spec => AppendOnly
<1>1. Inv /\ [Next]_vars => [Extends(node_array', node_array)]_vars
  <2>. SUFFICES ASSUME Inv, Next PROVE Extends(node_array', node_array)
    BY DEF vars
  <2>1. Extends(node_array, node_array)
    BY LenProperties DEF Extends, Inv, TypeOK
  <2>. QED  BY <2>1, StepArray DEF Successor
<1>. QED  BY <1>1, AlwaysInv, PTL DEF Spec, AppendOnly

-----------------------------------------------------------------------------
(***************************************************************************)
(* Memory safety.  The block has room for the capacity, and the capacity   *)
(* is at least the size, as long as twice the largest array fits a size.   *)
(***************************************************************************)
SizesFit ==
  /\ INIT_NODE_ARRAY_SIZE < SIZE_LIMIT
  /\ \A n \in 0 .. MaxNodes : 2 * n < SIZE_LIMIT /\ (2 * n) * NODE_BYTES < SIZE_LIMIT

MemInv ==
  /\ Inv
  /\ Len(node_array) <= MaxNodes
  /\ Len(node_array) <= node_array_capacity
  /\ bytes = node_array_capacity * NODE_BYTES
  /\ NoUndefinedBehaviour

LEMMA RoomEnough ==
  ASSUME NEW n \in Nat, NEW m \in Nat, NEW b \in Nat, n <= m
  PROVE  n * b <= m * b
BY SMT

LEMMA StepMem ==
  ASSUME SizesFit, MemInv, Next
  PROVE  MemInv'
<1>. DEFINE n == Len(node_array)
            cap == node_array_capacity
<1>1. n \in Nat /\ cap \in Nat /\ NODE_BYTES \in Nat /\ SIZE_LIMIT \in Nat \ {0}
  BY AstAssumption, LenProperties DEF MemInv, Inv, TypeOK
<1>2. PICK array : Put(array) /\ Successor(array)
  BY StepPuts, NodeSetIsNodesOver DEF MemInv, Inv, TypeOK, TreeWellFormed
<1>3. Inv'
  BY StepInv DEF MemInv
<1>4. CASE ReallocFails
  BY <1>3, <1>4 DEF ReallocFails, MemInv, NoUndefinedBehaviour
<1>5. CASE MaybeResize /\ ~ ReallocFails
  <2>1. n < MaxNodes
    BY <1>2, <1>1, AstAssumption DEF Put
  <2>2. n + 1 <= node_array_capacity' /\ bytes' = node_array_capacity' * NODE_BYTES
    <3>1. CASE ~ IsFull
      BY <3>1, <1>1, <1>5 DEF MaybeResize, IsFull, MemInv
    <3>2. CASE IsFull
      <4>1. n = cap
        BY <3>2 DEF IsFull
      <4>2. 2 * n < SIZE_LIMIT /\ (2 * n) * NODE_BYTES < SIZE_LIMIT
        BY <2>1, <1>1, AstAssumption DEF SizesFit
      <4>3. node_array_capacity' = (2 * n) % SIZE_LIMIT
        BY <3>2, <4>1, <1>1, <1>5 DEF MaybeResize, AST_RESIZE_FACTOR
      <4>4. node_array_capacity' = 2 * n
        BY <4>2, <4>3, <1>1
      <4>5. bytes' = ((2 * n) * NODE_BYTES) % SIZE_LIMIT /\ bytes' # 0
        BY <3>2, <4>4, <1>5 DEF MaybeResize
      <4>6. (2 * n) * NODE_BYTES \in Nat
        BY <1>1
      <4>7. bytes' = (2 * n) * NODE_BYTES
        BY <4>2, <4>5, <4>6, <1>1
      <4>8. n # 0
        BY <4>5, <4>7, <1>1
      <4>. QED  BY <4>4, <4>7, <4>8, <1>1
    <3>. QED  BY <3>1, <3>2
  <2>3. node_array_capacity' \in Nat
    BY <1>3 DEF Inv, TypeOK
  <2>4. (n + 1) * NODE_BYTES <= node_array_capacity' * NODE_BYTES
    BY <2>2, <2>3, <1>1, RoomEnough
  <2>5. Defined
    BY <2>2, <2>4 DEF Defined, ParentPointer
  <2>6. node_array' = array /\ status' = "ok"
    BY <1>2, <1>5, <2>5 DEF Put
  <2>7. Len(node_array') = n + 1
    BY <1>2, <2>6 DEF Successor
  <2>. QED  BY <1>1, <1>3, <2>1, <2>2, <2>6, <2>7, AstAssumption
            DEF MemInv, NoUndefinedBehaviour
<1>. QED  BY <1>2, <1>4, <1>5 DEF Put

\* While twice the nodes of the array fit the uint32_t of xrealloc, no
\* operation writes outside the block or through a stale pointer.  (The run
\* MCAstWrap shows that the hypothesis is needed.)
THEOREM MemorySafety == SizesFit => (Spec => []NoUndefinedBehaviour)
<1>. SUFFICES ASSUME SizesFit PROVE Spec => []NoUndefinedBehaviour
  OBVIOUS
<1>1. Init => MemInv
  <2>. SUFFICES ASSUME Init PROVE MemInv
    OBVIOUS
  <2>1. Len(node_array) = 0
    BY DEF Init
  <2>. QED  BY <2>1, InitInv, AstAssumption DEF Init, MemInv, NoUndefinedBehaviour
<1>2. MemInv /\ [Next]_vars => MemInv'
  <2>. SUFFICES ASSUME MemInv, [Next]_vars PROVE MemInv'
    OBVIOUS
  <2>1. CASE Next
    BY <2>1, StepMem
  <2>2. CASE UNCHANGED vars
    BY <2>2 DEF vars, MemInv, Inv, TypeOK, TreeWellFormed, NoUndefinedBehaviour
  <2>. QED  BY <2>1, <2>2
<1>3. MemInv => NoUndefinedBehaviour
  BY DEF MemInv
<1>. QED  BY <1>1, <1>2, <1>3, PTL DEF Spec

-----------------------------------------------------------------------------
(***************************************************************************)
(* The batched writer.                                                     *)
(***************************************************************************)
\* A sequence is a prefix of any extension of it.
LEMMA ConcatPrefix ==
  ASSUME NEW S, NEW s \in Seq(S), NEW t \in Seq(S)
  PROVE  IsPrefix(s, s \o t)
<1>1. CASE s = <<>>
  BY <1>1, ConcatProperties, EmptySeq, SubSeqEmpty DEF IsPrefix
<1>2. CASE s # <<>>
  <2>1. Len(s) \in 1 .. Len(s)
    BY <1>2, EmptySeq
  <2>2. SubSeq(s \o t, 1, Len(s)) = SubSeq(s, 1, Len(s))
    BY <2>1, SubSeqOfConcat1
  <2>. QED  BY <2>2, ConcatProperties, LenProperties DEF IsPrefix
<1>. QED  BY <1>1, <1>2

\* A sequence splits at any point into two parts.
LEMMA SplitAt ==
  ASSUME NEW S, NEW s \in Seq(S), NEW n \in 0 .. Len(s)
  PROVE  /\ SubSeq(s, 1, n) \in Seq(S)
         /\ SubSeq(s, n + 1, Len(s)) \in Seq(S)
         /\ s = SubSeq(s, 1, n) \o SubSeq(s, n + 1, Len(s))
<1>1. Len(s) \in Nat
  BY LenProperties
<1>2. 1 \in 1 .. Len(s) + 1 /\ n \in 1 - 1 .. Len(s) /\ Len(s) \in n .. Len(s)
  BY <1>1
<1>3. SubSeq(s, 1, n) \o SubSeq(s, n + 1, Len(s)) = SubSeq(s, 1, Len(s))
  BY <1>2, ConcatAdjacentSubSeq
<1>4. SubSeq(s, 1, n) \in Seq(S) /\ SubSeq(s, n + 1, Len(s)) \in Seq(S)
  BY <1>1, ElementOfSeq, SubSeqProperties
<1>. QED  BY <1>3, <1>4, SubSeqFull

\* Concatenation of byte strings.
LEMMA ConcatBytes ==
  ASSUME NEW s \in Seq(Byte), NEW t \in Seq(Byte)
  PROVE  s \o t \in Seq(Byte) /\ Len(s \o t) = Len(s) + Len(t)
BY ConcatProperties

LEMMA AssocBytes ==
  ASSUME NEW s \in Seq(Byte), NEW t \in Seq(Byte), NEW u \in Seq(Byte)
  PROVE  (s \o t) \o u = s \o (t \o u)
BY ConcatAssociative

\* An fwrite that succeeds leaves all of the data in the file.
LEMMA FwriteOk ==
  ASSUME NEW out, NEW data, NEW r \in fwrite(out, data)
  PROVE  r.ok \in BOOLEAN /\ (r.ok => r.file = out \o data)
<1>1. CASE r \in {[file |-> out \o data, ok |-> TRUE]}
  <2>1. r = [file |-> out \o data, ok |-> TRUE]
    BY <1>1
  <2>2. r.file = out \o data /\ r.ok = TRUE
    BY <2>1
  <2>. QED  BY <2>2
<1>2. CASE r \notin {[file |-> out \o data, ok |-> TRUE]}
  <2>1. PICK n \in 0 .. Len(data) - 1 : r = [file |-> out \o SubSeq(data, 1, n), ok |-> FALSE]
    BY <1>2 DEF fwrite
  <2>2. r.ok = FALSE
    BY <2>1
  <2>. QED  BY <2>2
<1>. QED  BY <1>1, <1>2

\* The file of result r holds a leading part u of the data, and v is missing.
Holds(r, out, data) ==
  \E u, v \in Seq(Byte) : r.file = out \o u /\ data = u \o v

LEMMA FwritePart ==
  ASSUME NEW out, NEW data \in Seq(Byte), NEW r \in fwrite(out, data)
  PROVE  Holds(r, out, data)
<1>1. CASE r \in {[file |-> out \o data, ok |-> TRUE]}
  <2>1. data = data \o <<>> /\ <<>> \in Seq(Byte)
    BY ConcatEmptySeq, EmptySeq
  <2>2. r = [file |-> out \o data, ok |-> TRUE]
    BY <1>1
  <2>3. r.file = out \o data
    BY <2>2
  <2>. QED  BY <2>1, <2>3 DEF Holds
<1>2. CASE r \notin {[file |-> out \o data, ok |-> TRUE]}
  <2>1. PICK n \in 0 .. Len(data) - 1 : r = [file |-> out \o SubSeq(data, 1, n), ok |-> FALSE]
    BY <1>2 DEF fwrite
  <2>2. n \in 0 .. Len(data)
    BY LenProperties
  <2>. DEFINE u == SubSeq(data, 1, n)
              v == SubSeq(data, n + 1, Len(data))
  <2>3. u \in Seq(Byte) /\ v \in Seq(Byte) /\ data = u \o v
    BY <2>2, SplitAt
  <2>4. r.file = out \o u
    BY <2>1
  <2>. HIDE DEF u, v
  <2>. QED  BY <2>3, <2>4 DEF Holds
<1>. QED  BY <1>1, <1>2

-----------------------------------------------------------------------------
\* The inductive invariant: what is in the file and the buffer is the output.
WriterInv == WriterTypeOK /\ BufferInBounds /\ NothingLost

LEMMA InitWriter == WriterInit => WriterInv
BY WriterAssumption, EmptySeq, ConcatEmptySeq
   DEF WriterInit, WriterInv, WriterTypeOK, BufferInBounds, NothingLost, buffer_pos

\* The common shape of every call: the file takes in a part u of the pending
\* output, and unless the writer throws the rest of it, v, is in the buffer.
WriterStep ==
  \E u, v \in Seq(Byte) :
    /\ file' = file \o u
    /\ written' = file' \o v
    /\ state' \in {"open", "closed", "thrown"}
    /\ state' = "thrown" => buffer' = buffer
    /\ state' # "thrown" => buffer' = v /\ Len(v) < BUFFER_SIZE

LEMMA StepWriter ==
  ASSUME WriterInv, WriterStep
  PROVE  WriterInv' /\ Log!FileAdvances
<1>1. PICK u, v \in Seq(Byte) :
        /\ file' = file \o u
        /\ written' = file' \o v
        /\ state' \in {"open", "closed", "thrown"}
        /\ state' = "thrown" => buffer' = buffer
        /\ state' # "thrown" => buffer' = v /\ Len(v) < BUFFER_SIZE
  BY DEF WriterStep
<1>2. file \in Seq(Byte) /\ file' \in Seq(Byte) /\ written' \in Seq(Byte)
  BY <1>1, ConcatBytes DEF WriterInv, WriterTypeOK
<1>3. WriterInv'
  BY <1>1, <1>2 DEF WriterInv, WriterTypeOK, BufferInBounds, NothingLost, buffer_pos
<1>4. IsPrefix(file, file \o u) /\ IsPrefix(file', file' \o v)
  BY <1>2, ConcatPrefix
<1>. QED  BY <1>1, <1>3, <1>4 DEF Log!FileAdvances, IsPrefix, Log!IsPrefix

\* With str handed over, the pending output is the buffer followed by str.
LEMMA Pending ==
  ASSUME WriterInv, state = "open", NEW str \in Seq(Byte)
  PROVE  /\ buffer \o str \in Seq(Byte)
         /\ Len(buffer \o str) = Len(buffer) + Len(str)
         /\ written \o str = file \o (buffer \o str)
         /\ written \o str = (file \o buffer) \o str
<1>1. file \in Seq(Byte) /\ buffer \in Seq(Byte) /\ written = file \o buffer
  BY DEF WriterInv, WriterTypeOK, NothingLost
<1>. QED  BY <1>1, AssocBytes, ConcatBytes

\* A call that flushes, and goes on to leave str alone in the buffer or throws.
LEMMA FlushStep ==
  ASSUME WriterInv, state = "open",
         NEW str \in Seq(Byte), written' = written \o str,
         NEW r \in FlushResults, file' = r.file,
         state' \in {"open", "closed", "thrown"},
         state' = "thrown" => buffer' = buffer,
         state' # "thrown" => r.ok /\ buffer' = str /\ Len(str) < BUFFER_SIZE
  PROVE  WriterStep
<1>1. /\ file \in Seq(Byte) /\ buffer \in Seq(Byte)
      /\ file \o buffer \in Seq(Byte)
  BY ConcatBytes DEF WriterInv, WriterTypeOK
<1>0. r \in fwrite(file, buffer)
  BY DEF FlushResults
<1>2. PICK u, v \in Seq(Byte) : r.file = file \o u /\ buffer = u \o v
  <2>1. Holds(r, file, buffer)
    BY <1>0, <1>1, FwritePart
  <2>. QED  BY <2>1 DEF Holds
<1>3. CASE state' = "thrown"
  <2>1. v \o str \in Seq(Byte)
    BY ConcatBytes
  <2>2. \A w \in Seq(Byte) : (file \o u) \o w = file \o (u \o w)
    BY <1>1, AssocBytes
  <2>3. u \o (v \o str) = buffer \o str
    BY <1>2, AssocBytes
  <2>4. written' = file \o (buffer \o str)
    BY Pending
  <2>5. file' \o (v \o str) = file \o (u \o (v \o str))
    BY <1>2, <2>1, <2>2
  <2>. QED  BY <1>2, <1>3, <2>1, <2>3, <2>4, <2>5 DEF WriterStep
<1>4. CASE state' # "thrown"
  <2>1. r.file = file \o buffer
    BY <1>1, <1>4, FwriteOk DEF FlushResults
  <2>2. written' = file' \o str
    BY <2>1, Pending
  <2>. QED  BY <1>1, <1>4, <2>1, <2>2 DEF WriterStep
<1>. QED  BY <1>3, <1>4

\* A call that only appends to the buffer.
LEMMA StoreStep ==
  ASSUME WriterInv, state = "open",
         NEW str \in Seq(Byte), written' = written \o str,
         Len(str) < BUFFER_SIZE - buffer_pos,
         file' = file, buffer' = buffer \o str, state' = "open"
  PROVE  WriterStep
<1>1. file = file \o <<>> /\ <<>> \in Seq(Byte) /\ file \in Seq(Byte)
  BY ConcatEmptySeq, EmptySeq DEF WriterInv, WriterTypeOK
<1>2. Len(buffer) \in Nat /\ Len(str) \in Nat /\ BUFFER_SIZE \in Nat
  BY LenProperties, WriterAssumption DEF WriterInv, WriterTypeOK
<1>3. Len(buffer \o str) < BUFFER_SIZE
  BY <1>2, Pending DEF buffer_pos
<1>4. written' = file' \o (buffer \o str) /\ buffer \o str \in Seq(Byte)
  BY Pending
<1>5. file' = file \o <<>>
  BY <1>1
<1>. QED  BY <1>1, <1>3, <1>4, <1>5 DEF WriterStep

LEMMA WriteLargeStep ==
  ASSUME WriterInv, state = "open",
         NEW str \in Seq(Byte), written' = written \o str, WriteLarge(str)
  PROVE  WriterStep
<1>1. PICK flushed \in FlushResults :
        IF flushed.ok
          THEN \E r \in fwrite(flushed.file, str) : Finish(r, <<>>)
          ELSE Finish(flushed, buffer)
  BY DEF WriteLarge
<1>2. CASE ~ flushed.ok
  BY <1>1, <1>2, FlushStep DEF Finish
<1>3. CASE flushed.ok
  <2>1. /\ file \in Seq(Byte) /\ buffer \in Seq(Byte)
        /\ file \o buffer \in Seq(Byte) /\ <<>> \in Seq(Byte)
        /\ Len(<<>>) = 0 /\ 0 < BUFFER_SIZE
    BY ConcatBytes, EmptySeq, WriterAssumption DEF WriterInv, WriterTypeOK
  <2>. DEFINE base == file \o buffer
  <2>2. flushed.file = base
    BY <1>3, <2>1, FwriteOk DEF FlushResults
  <2>3. PICK r \in fwrite(base, str) : Finish(r, <<>>)
    BY <1>1, <1>3, <2>2
  <2>4. /\ base \in Seq(Byte)
        /\ \A t \in Seq(Byte) : base \o t = file \o (buffer \o t) /\ buffer \o t \in Seq(Byte)
    BY <2>1, AssocBytes, ConcatBytes
  <2>5. written' = base \o str
    BY Pending
  <2>. HIDE DEF base
  <2>6. r.ok \in BOOLEAN /\ (r.ok => r.file = base \o str)
    BY <2>4, FwriteOk
  <2>7. PICK u, v \in Seq(Byte) : r.file = base \o u /\ str = u \o v
    <3>1. Holds(r, base, str)
      BY FwritePart
    <3>. QED  BY <3>1 DEF Holds
  <2>8. CASE r.ok
    <3>1. file' = file \o (buffer \o str) /\ buffer \o str \in Seq(Byte)
      BY <2>3, <2>4, <2>6, <2>8 DEF Finish
    <3>2. file' \in Seq(Byte) /\ written' = file'
      <4>1. file' = base \o str
        BY <2>3, <2>6, <2>8 DEF Finish
      <4>. QED  BY <4>1, <2>4, <2>5, ConcatBytes
    <3>3. written' = file' \o <<>>
      BY <3>2, ConcatEmptySeq
    <3>. QED  BY <2>1, <2>3, <2>8, <3>1, <3>3 DEF WriterStep, Finish
  <2>9. CASE ~ r.ok
    <3>1. file' = file \o (buffer \o u) /\ buffer \o u \in Seq(Byte)
      BY <2>3, <2>4, <2>7 DEF Finish
    <3>2. (base \o u) \o v = base \o (u \o v)
      BY <2>4, AssocBytes, SMTT(30)
    <3>3. written' = file' \o v
      BY <2>3, <2>5, <2>7, <3>2 DEF Finish
    <3>. QED  BY <2>3, <2>9, <3>1, <3>3 DEF WriterStep, Finish
  <2>. QED  BY <2>6, <2>8, <2>9
<1>. QED  BY <1>2, <1>3

LEMMA WritesStep ==
  ASSUME WriterInv, NEW str \in Strings, Write(str)
  PROVE  WriterStep
<1>1. /\ str \in Seq(Byte) /\ Len(str) \in Nat /\ Len(buffer) \in Nat
      /\ BUFFER_SIZE \in Nat /\ state = "open" /\ written' = written \o str
  BY WriterAssumption, LenProperties DEF Write, Record, WriterInv, WriterTypeOK
<1>2. CASE WriteSmall(str)
  <2>1. CASE FlushesFirst(Len(str))
    <3>1. PICK r \in FlushResults : Finish(r, str)
      BY <1>2, <2>1 DEF WriteSmall, Appended
    <3>. QED  BY <1>1, <1>2, <3>1, FlushStep DEF WriteSmall, Finish
  <2>2. CASE ~ FlushesFirst(Len(str))
    <3>1. Len(str) < BUFFER_SIZE - buffer_pos
      BY <1>1, <2>2 DEF FlushesFirst, buffer_pos
    <3>2. file' = file /\ buffer' = buffer \o str /\ state' = "open"
      BY <1>1, <1>2, <2>2 DEF WriteSmall, Appended, NoFlush, Finish
    <3>. QED  BY <1>1, <3>1, <3>2, StoreStep
  <2>. QED  BY <2>1, <2>2
<1>3. CASE WriteLarge(str)
  BY <1>1, <1>3, WriteLargeStep
<1>. QED  BY <1>2, <1>3 DEF Write

LEMMA PrintfStep ==
  ASSUME WriterInv, NEW str \in Strings, Printf(str)
  PROVE  WriterStep
<1>1. /\ str \in Seq(Byte) /\ Len(str) \in Nat /\ Len(buffer) \in Nat
      /\ BUFFER_SIZE \in Nat /\ state = "open" /\ written' = written \o str
  BY WriterAssumption, LenProperties DEF Printf, Record, WriterInv, WriterTypeOK
<1>2. CASE Len(str) < BUFFER_SIZE - buffer_pos
  <2>1. file' = file /\ buffer' = buffer \o str /\ state' = "open"
    BY <1>1, <1>2 DEF Printf, Finish, buffer_pos
  <2>. QED  BY <1>1, <1>2, <2>1, StoreStep
<1>3. CASE ~ (Len(str) < BUFFER_SIZE - buffer_pos)
  <2>1. PICK r \in FlushResults :
          Finish([file |-> r.file, ok |-> r.ok /\ Len(str) < BUFFER_SIZE], str)
    BY <1>3 DEF Printf
  <2>2. /\ file' = r.file
        /\ state' = IF r.ok /\ Len(str) < BUFFER_SIZE THEN "open" ELSE "thrown"
        /\ buffer' = IF r.ok /\ Len(str) < BUFFER_SIZE THEN str ELSE buffer
    BY <1>1, <2>1 DEF Finish
  <2>. QED  BY <1>1, <2>2, FlushStep
<1>. QED  BY <1>2, <1>3

LEMMA CloseStep ==
  ASSUME WriterInv, Flush \/ Close
  PROVE  /\ WriterStep
         /\ state' # "thrown" => file' = written
<1>1. /\ state = "open" /\ written' = written
      /\ <<>> \in Seq(Byte) /\ Len(<<>>) = 0 /\ 0 < BUFFER_SIZE
      /\ file \in Seq(Byte) /\ buffer \in Seq(Byte)
      /\ written = written \o <<>>
  BY EmptySeq, WriterAssumption, ConcatEmptySeq DEF Flush, Close, WriterInv, WriterTypeOK
<1>2. PICK r \in FlushResults :
        /\ file' = r.file
        /\ buffer' = IF r.ok THEN <<>> ELSE buffer
        /\ state' = IF r.ok THEN (IF Close THEN "closed" ELSE "open") ELSE "thrown"
  <2>1. CASE Close
    BY <2>1 DEF Close
  <2>2. CASE ~ Close
    BY <2>2, <1>1 DEF Flush, Finish
  <2>. QED  BY <2>1, <2>2
<1>3. WriterStep
  BY <1>1, <1>2, FlushStep
<1>4. r.ok => r.file = file \o buffer
  BY <1>1, FwriteOk DEF FlushResults
<1>5. written = file \o buffer
  BY <1>1 DEF WriterInv, NothingLost
<1>. QED  BY <1>2, <1>3, <1>4, <1>5

LEMMA NextWriter == WriterInv /\ [WriterNext]_writerVars => WriterInv'
<1>. SUFFICES ASSUME WriterInv, [WriterNext]_writerVars PROVE WriterInv'
  OBVIOUS
<1>1. ASSUME NEW str \in Strings, Write(str) PROVE WriterInv'
  BY <1>1, WritesStep, StepWriter
<1>2. ASSUME NEW str \in Strings, Printf(str) PROVE WriterInv'
  BY <1>2, PrintfStep, StepWriter
<1>3. CASE Flush \/ Close
  BY <1>3, CloseStep, StepWriter
<1>4. CASE UNCHANGED writerVars
  BY <1>4 DEF writerVars, WriterInv, WriterTypeOK, BufferInBounds, NothingLost, buffer_pos
<1>. QED  BY <1>1, <1>2, <1>3, <1>4 DEF WriterNext

LEMMA AlwaysWriter == WriterSpec => []WriterInv
BY InitWriter, NextWriter, PTL DEF WriterSpec

\* The types of the writer's state are preserved by every call.
THEOREM WriterTypeCorrect == WriterSpec => []WriterTypeOK
BY AlwaysWriter, PTL DEF WriterInv

\* No memcpy or vsnprintf goes beyond the buffer, which always keeps a byte free.
THEOREM BufferSafety == WriterSpec => []BufferInBounds
BY AlwaysWriter, PTL DEF WriterInv

\* Until the process throws, file and buffer together are the whole output.
THEOREM NoLoss == WriterSpec => []NothingLost
BY AlwaysWriter, PTL DEF WriterInv

-----------------------------------------------------------------------------
\* Every step of the writer is a step of the append-only log, or a stutter.
LEMMA StepLog == WriterInv /\ [WriterNext]_writerVars => [Log!Next]_(Log!logVars)
<1>. SUFFICES ASSUME WriterInv, [WriterNext]_writerVars PROVE [Log!Next]_(Log!logVars)
  OBVIOUS
<1>1. ASSUME NEW str \in Strings, Write(str) \/ Printf(str) PROVE Log!Write(str)
  <2>1. Log!FileAdvances
    BY <1>1, WritesStep, PrintfStep, StepWriter
  <2>2. state = "open" /\ written' = written \o str
    BY <1>1 DEF Write, Printf, Record
  <2>3. state' \in {"open", "thrown"}
    BY <1>1, <2>2 DEF Write, WriteSmall, WriteLarge, Printf, Finish
  <2>. QED  BY <2>1, <2>2, <2>3 DEF Log!Write
<1>2. CASE Flush
  <2>1. Log!FileAdvances /\ (state' # "thrown" => file' = written)
    BY <1>2, CloseStep, StepWriter
  <2>. QED  BY <1>2, <2>1 DEF Flush, Finish, Log!Next, Log!Flush
<1>3. CASE Close
  <2>1. Log!FileAdvances /\ (state' # "thrown" => file' = written)
    BY <1>3, CloseStep, StepWriter
  <2>. QED  BY <1>3, <2>1 DEF Close, Log!Next, Log!Close
<1>4. CASE UNCHANGED writerVars
  BY <1>4 DEF writerVars, Log!logVars
<1>. QED  BY <1>1, <1>2, <1>3, <1>4 DEF WriterNext, Log!Next

\* The batched writer implements the append-only log: bytes reach the file in
\* order, none lost or repeated, all of them once the writer is closed.
THEOREM WriterImplementsLog == WriterSpec => ImplementsLog
<1>1. WriterInit => Log!Init
  BY DEF WriterInit, Log!Init
<1>. QED  BY <1>1, StepLog, AlwaysWriter, PTL DEF WriterSpec, ImplementsLog, Log!Spec

-----------------------------------------------------------------------------
(***************************************************************************)
(* The helper behind INPUT.                                                *)
(***************************************************************************)
\* What is left of a number in so many bits has their range.
LEMMA SignedInRange ==
  ASSUME NEW n \in Int, NEW limit \in Nat \ {0}, limit % 2 = 0
  PROVE  Signed(n, limit) \in Range_(limit)
<1>1. PICK low : low = n % limit
  OBVIOUS
<1>2. low \in 0 .. limit - 1
  BY <1>1
<1>3. PICK half \in Nat : half = limit \div 2 /\ limit = 2 * half
  OBVIOUS
<1>4. Signed(n, limit) = IF low < half THEN low ELSE low - limit
  BY <1>1, <1>3 DEF Signed
<1>5. Range_(limit) = -half .. half - 1
  BY <1>3 DEF Range_
<1>. QED  BY <1>2, <1>3, <1>4, <1>5

\* A smaller range is in a larger one.
LEMMA RangesGrow ==
  ASSUME NEW m \in Nat, NEW n \in Nat, m <= n
  PROVE  Range_(m) \subseteq Range_(n)
<1>1. m \div 2 \in Nat /\ n \div 2 \in Nat /\ m \div 2 <= n \div 2
  OBVIOUS
<1>. QED  BY <1>1 DEF Range_

\* What is left of a number that has the range of so many bits, divided by the
\* size of the range.
LEMMA RangeMod ==
  ASSUME NEW limit \in Nat \ {0}, limit % 2 = 0, NEW n \in Range_(limit)
  PROVE  n % limit = IF n < 0 THEN n + limit ELSE n
<1>1. PICK half \in Nat : half = limit \div 2 /\ limit = 2 * half
  OBVIOUS
<1>2. n \in -half .. half - 1
  BY <1>1 DEF Range_
<1>3. CASE n < 0
  <2>1. n + limit \in 0 .. limit - 1
    BY <1>1, <1>2, <1>3
  <2>2. (n + limit) % limit = n + limit
    BY <2>1
  <2>3. n = (n + limit) + (-1) * limit
    BY <1>1, <1>2
  <2>. QED  BY <1>2, <1>3, <2>1, <2>2, <2>3
<1>4. CASE ~ (n < 0)
  <2>1. n \in 0 .. limit - 1
    BY <1>1, <1>2, <1>4
  <2>. QED  BY <1>4, <2>1
<1>. QED  BY <1>3, <1>4

\* Of the numbers a register may hold for n, only n itself has the range of n.
LEMMA RegisterFits ==
  ASSUME NEW limit \in Nat \ {0}, limit % 2 = 0, NEW n \in Range_(limit),
         NEW r \in Register(n, limit), r \in Range_(limit)
  PROVE  r = n
<1>1. r % limit = n % limit
  BY DEF Register
<1>2. PICK half \in Nat : half = limit \div 2 /\ limit = 2 * half
  OBVIOUS
<1>3. r \in -half .. half - 1 /\ n \in -half .. half - 1
  BY <1>2 DEF Range_
<1>4. /\ r % limit = IF r < 0 THEN r + limit ELSE r
      /\ n % limit = IF n < 0 THEN n + limit ELSE n
  BY RangeMod
<1>. QED  BY <1>1, <1>2, <1>3, <1>4

\* What scanf returns in the register for an int that is 1 is not -1.
LEMMA OneIsNoFailure == \A r \in Register(1, INT_LIMIT) : r # -1
<1>1. INT_LIMIT \in Nat \ {0} /\ INT_LIMIT >= 4 /\ INT_LIMIT % 2 = 0
  BY WordsAssumption
<1>2. PICK half \in Nat : half = INT_LIMIT \div 2 /\ INT_LIMIT = 2 * half
  BY <1>1
<1>3. 1 \in Range_(INT_LIMIT) /\ -1 \in Range_(INT_LIMIT)
  BY <1>1, <1>2 DEF Range_
<1>4. \A r \in Register(1, INT_LIMIT) : r \in Range_(INT_LIMIT) => r = 1
  BY <1>1, <1>3, RegisterFits
<1>. QED  BY <1>3, <1>4

\* A long has the bits of a word, or of an int.
LEMMA LongLimits ==
  /\ LongLimit \in Nat \ {0} /\ LongLimit % 2 = 0
  /\ INT_LIMIT \in Nat \ {0} /\ INT_LIMIT % 2 = 0
  /\ WORD_LIMIT \in Nat \ {0} /\ WORD_LIMIT % 2 = 0
  /\ INT_LIMIT <= LongLimit /\ LongLimit <= WORD_LIMIT
BY WordsAssumption DEF LongLimit

\* A number is clamped to a range; one that is in the range of an int is not
\* changed, nor moved there if it is not and the range is that of a word.
LEMMA ClampedFits ==
  ASSUME NEW n \in Int, NEW limit \in Nat \ {0}, limit % 2 = 0
  PROVE  /\ Clamped(n, limit) \in Range_(limit)
         /\ INT_LIMIT <= limit /\ n \in Entered => Clamped(n, limit) = n
         /\ limit = WORD_LIMIT /\ n \notin Entered => Clamped(n, limit) \notin Entered
<1>1. PICK half \in Nat \ {0} : half = limit \div 2 /\ limit = 2 * half
  OBVIOUS
<1>2. PICK int \in Nat \ {0} : int = INT_LIMIT \div 2 /\ INT_LIMIT = 2 * int
  BY WordsAssumption
<1>3. Clamped(n, limit) = IF n > half - 1 THEN half - 1 ELSE IF n < -half THEN -half ELSE n
  BY <1>1 DEF Clamped
<1>4. Entered = -int .. int - 1 /\ Range_(limit) = -half .. half - 1
  BY <1>1, <1>2 DEF Entered, Range_
<1>5. limit = WORD_LIMIT => int < half
  BY <1>1, <1>2, WordsAssumption
<1>. QED  BY <1>1, <1>2, <1>3, <1>4, <1>5

\* The words and pieces that are typed.
LEMMA TypedRight ==
  ASSUME typed \in Inputs
  PROVE  /\ Len(typed) \in Nat
         /\ \A w \in 1 .. Len(typed) :
              /\ Len(typed[w]) \in Nat \ {0}
              /\ \A p \in 1 .. Len(typed[w]) : typed[w][p] \in Pieces
<1>1. typed \in Seq(Seq(Pieces) \ {<<>>})
  BY InputAssumption
<1>2. ASSUME NEW w \in 1 .. Len(typed)
      PROVE  /\ Len(typed[w]) \in Nat \ {0}
             /\ \A p \in 1 .. Len(typed[w]) : typed[w][p] \in Pieces
  <2>1. typed[w] \in Seq(Pieces) /\ typed[w] # <<>>
    BY <1>1
  <2>. QED  BY <2>1
<1>. QED  BY <1>1, <1>2

LEMMA PiecesRight ==
  ASSUME NEW piece \in Pieces
  PROVE  /\ piece.digits \in BOOLEAN /\ piece.number \in Int /\ piece.length \in 1 .. Width
         /\ Signed(piece.first, CHAR_LIMIT) \in Entered
<1>1. /\ piece.digits \in BOOLEAN /\ piece.number \in Int /\ piece.length \in 1 .. Width
      /\ piece.first \in 0 .. CHAR_LIMIT - 1
  BY InputAssumption
<1>2. /\ CHAR_LIMIT \in Nat \ {0} /\ CHAR_LIMIT % 2 = 0
      /\ INT_LIMIT \in Nat /\ CHAR_LIMIT <= INT_LIMIT
  BY InputAssumption, WordsAssumption
<1>3. Signed(piece.first, CHAR_LIMIT) \in Range_(CHAR_LIMIT)
  BY <1>1, <1>2, SignedInRange
<1>4. Range_(CHAR_LIMIT) \subseteq Entered
  BY <1>2, RangesGrow DEF Entered
<1>. QED  BY <1>1, <1>3, <1>4

LEMMA ZeroFits == 0 \in Entered
<1>1. INT_LIMIT \div 2 \in Nat \ {0}
  BY WordsAssumption
<1>. QED  BY <1>1 DEF Entered, Range_

\* The number that strtol has been given, or 0.
Value(piece) == IF piece.digits THEN Clamped(piece.number, LongLimit) ELSE 0

\* The words before this one are all within the field.
Whole(w) == \A v \in 1 .. w - 1 : Len(typed[v]) = 1

\* Call k takes this piece, as far as the words before it are within the field.
Turn(k, w, p) == \A u \in 1 .. Len(typed) : Whole(u) /\ k >= u =>
  IF k < u + Len(typed[u]) THEN w = u /\ p = k - u + 1 ELSE w > u

\* Where scanf goes on, and before that where it has read.
PlaceInv ==
  /\ typed \in Inputs
  /\ word \in Nat \ {0} /\ part \in Nat \ {0}
  /\ word <= Len(typed) => part <= Len(typed[word])
  /\ calls \in Nat \ {0}
  /\ IF phase = "scanf" THEN Turn(calls, word, part) ELSE Turn(calls + 1, word, part)

\* What the buffer holds once scanf has read it.
ReadInv ==
  phase # "scanf" =>
    \A w \in 1 .. Len(typed) : Whole(w) =>
      \A p \in 1 .. Len(typed[w]) : calls = w + p - 1 => stored = typed[w][p] /\ touched # {}

\* Where the value to return comes from, at each part of the helper.
InputInv ==
  /\ PlaceInv /\ ReadInv
  /\ stored \in Pieces
  /\ phase = "check" /\ touched # {} => rax # -1
  /\ phase = "converted" =>
       /\ endptr = IF stored.digits THEN "after" ELSE "start"
       /\ number \in Register(Value(stored), LongLimit)
  /\ phase = "return" /\ touched # {} => rax \in Meaning(stored)
  /\ FrameKept /\ ResultIsInt

LEMMA InitInput == InputInit => InputInv
<1>. SUFFICES ASSUME InputInit PROVE InputInv
  OBVIOUS
<1>1. /\ typed \in Inputs /\ word = 1 /\ part = 1 /\ calls = 1 /\ phase = "scanf"
      /\ stored \in Pieces /\ touched = {}
  BY DEF InputInit
<1>2. Turn(1, 1, 1)
  <2>. SUFFICES ASSUME NEW u \in 1 .. Len(typed), 1 >= u
                PROVE  IF 1 < u + Len(typed[u]) THEN 1 = u /\ 1 = 1 - u + 1 ELSE 1 > u
    BY DEF Turn
  <2>. QED  BY <1>1, TypedRight
<1>3. PlaceInv
  BY <1>1, <1>2, TypedRight DEF PlaceInv
<1>. QED  BY <1>1, <1>3 DEF InputInv, ReadInv, FrameKept, ResultIsInt

\* Whose turn it is does not depend on what changes.
LEMMA TurnKept ==
  ASSUME typed' = typed
  PROVE  \A k, w, p : Turn(k, w, p)' <=> Turn(k, w, p)
BY DEF Turn, Whole

\* A call that scanf has read for leaves the place to the next one.
LEMMA ScanTurns ==
  ASSUME PlaceInv, Scan, NEW nextWord, nextWord = word', NEW nextPart, nextPart = part'
  PROVE  Turn(calls + 1, nextWord, nextPart)
<1>1. /\ typed \in Inputs /\ word \in Nat \ {0} /\ part \in Nat \ {0} /\ calls \in Nat \ {0}
      /\ Turn(calls, word, part)
      /\ word <= Len(typed) => part <= Len(typed[word])
  BY DEF PlaceInv, Scan
<1>. SUFFICES ASSUME NEW u \in 1 .. Len(typed), Whole(u) /\ calls + 1 >= u
              PROVE  IF calls + 1 < u + Len(typed[u])
                       THEN nextWord = u /\ nextPart = (calls + 1) - u + 1 ELSE nextWord > u
  BY DEF Turn
<1>2. /\ Len(typed) \in Nat /\ Len(typed[u]) \in Nat \ {0} /\ u \in Nat \ {0}
      /\ \A w \in 1 .. Len(typed) : Len(typed[w]) \in Nat \ {0}
  BY <1>1, TypedRight
<1>3. \/ word <= Len(typed) /\ part < Len(typed[word]) /\ nextPart = part + 1 /\ nextWord = word
      \/ word <= Len(typed) /\ part = Len(typed[word]) /\ nextWord = word + 1 /\ nextPart = 1
      \/ word > Len(typed) /\ nextWord = word /\ nextPart = part
  <2>1. CASE ~ AtEnd /\ TakePiece
    <3>1. word \in 1 .. Len(typed) /\ Len(typed[word]) \in Nat
      BY <1>1, <1>2, <2>1 DEF AtEnd
    <3>. QED  BY <1>1, <2>1, <3>1 DEF TakePiece
  <2>2. CASE AtEnd /\ UNCHANGED <<word, part>>
    BY <2>2 DEF AtEnd
  <2>. QED  BY <2>1, <2>2 DEF Scan
<1>4. CASE calls >= u
  <2>1. IF calls < u + Len(typed[u]) THEN word = u /\ part = calls - u + 1 ELSE word > u
    BY <1>1, <1>4 DEF Turn
  <2>2. CASE calls < u + Len(typed[u])
    BY <1>1, <1>2, <1>3, <2>1, <2>2
  <2>3. CASE ~ (calls < u + Len(typed[u]))
    BY <1>1, <1>2, <1>3, <2>1, <2>3
  <2>. QED  BY <2>2, <2>3
<1>5. CASE ~ (calls >= u)
  <2>1. calls = u - 1 /\ calls \in 1 .. Len(typed) /\ calls \in 1 .. u - 1
    BY <1>1, <1>2, <1>5
  <2>2. Len(typed[calls]) = 1 /\ Whole(calls)
    BY <1>2, <2>1 DEF Whole
  <2>3. IF calls < calls + Len(typed[calls]) THEN word = calls /\ part = calls - calls + 1 ELSE word > calls
    <3>1. calls >= calls
      BY <1>1
    <3>. QED  BY <1>1, <2>1, <2>2, <3>1 DEF Turn
  <2>4. word = calls /\ part = 1
    BY <1>1, <2>2, <2>3
  <2>5. Len(typed[word]) = 1 /\ word <= Len(typed) /\ Len(typed) \in Nat
    BY <1>2, <2>1, <2>2, <2>4
  <2>6. word + 1 = u
    BY <1>1, <1>2, <2>1, <2>4
  <2>7. nextWord = word + 1 /\ nextPart = 1
    BY <1>1, <1>3, <2>4, <2>5
  <2>8. /\ calls + 1 < u + Len(typed[u])
        /\ (calls + 1) - u + 1 = 1
    BY <1>1, <1>2, <2>1
  <2>. QED  BY <2>6, <2>7, <2>8
<1>. QED  BY <1>4, <1>5

\* The result is an int, and one that the piece may mean.
LEMMA NumberMeans ==
  ASSUME NEW piece \in Pieces, piece.digits, number \in Register(Value(piece), LongLimit),
         NEW result, (Fits /\ result = number) \/ (~ Fits /\ result = 0)
  PROVE  result \in Entered /\ result \in Meaning(piece)
<1>1. number \in Word /\ number \in Int
  <2>1. Word \subseteq Int
    BY LongLimits DEF Word, Range_
  <2>. QED  BY <2>1 DEF Register
<1>2. Fits <=> number \in Entered
  <2>1. INT_LIMIT \div 2 \in Int
    BY LongLimits
  <2>. QED  BY <1>1, <2>1 DEF Fits, Entered, Range_
<1>3. PICK n \in Int : n = piece.number
  BY PiecesRight
<1>4. /\ Value(piece) = Clamped(n, LongLimit)
      /\ number \in Register(Clamped(n, LongLimit), LongLimit)
  BY <1>3 DEF Value
<1>5. CASE cc = CC_MS_64
  <2>1. LongLimit = INT_LIMIT /\ Clamped(n, INT_LIMIT) \in Range_(INT_LIMIT)
    BY <1>5, LongLimits, ClampedFits DEF LongLimit
  <2>2. number \in Entered => number = Clamped(n, INT_LIMIT)
    BY <1>4, <2>1, LongLimits, RegisterFits DEF Entered
  <2>3. Meaning(piece) = {0, Clamped(n, INT_LIMIT)}
    BY <1>3, <1>5 DEF Meaning
  <2>. QED  BY <1>2, <2>2, <2>3, ZeroFits
<1>6. CASE cc # CC_MS_64
  <2>1. LongLimit = WORD_LIMIT /\ Clamped(n, WORD_LIMIT) \in Range_(WORD_LIMIT)
    BY <1>6, LongLimits, ClampedFits DEF LongLimit
  <2>2. number = Clamped(n, WORD_LIMIT)
    BY <1>1, <1>4, <2>1, LongLimits, RegisterFits DEF Word
  <2>3. Meaning(piece) = {IF n \in Entered THEN n ELSE 0}
    BY <1>3, <1>6 DEF Meaning
  <2>4. /\ n \in Entered => Clamped(n, WORD_LIMIT) = n
        /\ n \notin Entered => Clamped(n, WORD_LIMIT) \notin Entered
    <3>1. INT_LIMIT <= WORD_LIMIT
      BY WordsAssumption
    <3>. QED  BY <3>1, LongLimits, ClampedFits
  <2>. QED  BY <1>2, <2>2, <2>3, <2>4, ZeroFits
<1>. QED  BY <1>5, <1>6

\* A step that reads nothing leaves the places alone.
LEMMA PlaceKept ==
  ASSUME InputInv, UNCHANGED <<streamVars, stored, touched>>,
         phase # "scanf", phase' # "scanf"
  PROVE  PlaceInv' /\ ReadInv' /\ stored' \in Pieces /\ FrameKept'
<1>1. UNCHANGED <<cc, typed, word, part, calls, stored, touched>>
  BY DEF streamVars
<1>2. PlaceInv'
  BY <1>1, TurnKept DEF InputInv, PlaceInv
<1>3. ReadInv'
  BY <1>1 DEF InputInv, ReadInv, Whole
<1>. QED  BY <1>1, <1>2, <1>3 DEF InputInv, FrameKept

LEMMA StepScan == InputInv /\ Scan => InputInv'
<1>. SUFFICES ASSUME InputInv, Scan PROVE InputInv'
  OBVIOUS
<1>1. /\ phase = "scanf" /\ phase' = "check" /\ UNCHANGED <<cc, typed, calls>>
      /\ typed \in Inputs /\ word \in Nat \ {0} /\ part \in Nat \ {0} /\ calls \in Nat \ {0}
      /\ word <= Len(typed) => part <= Len(typed[word])
      /\ Turn(calls, word, part)
  BY DEF Scan, InputInv, PlaceInv
<1>2. Len(typed) \in Nat
  BY <1>1, TypedRight
<1>3. CASE ~ AtEnd
  <2>1. /\ stored' = typed[word][part] /\ rax' \in Register(1, INT_LIMIT)
        /\ touched' = BUFFER .. BUFFER + typed[word][part].length
        /\ \/ part < Len(typed[word]) /\ part' = part + 1 /\ word' = word
           \/ ~ (part < Len(typed[word])) /\ word' = word + 1 /\ part' = 1
    BY <1>3 DEF Scan, TakePiece
  <2>2. /\ word \in 1 .. Len(typed) /\ Len(typed[word]) \in Nat \ {0}
        /\ part \in 1 .. Len(typed[word]) /\ typed[word][part] \in Pieces
    <3>1. word \in 1 .. Len(typed)
      BY <1>1, <1>2, <1>3 DEF AtEnd
    <3>2. Len(typed[word]) \in Nat \ {0} /\ part \in 1 .. Len(typed[word])
      BY <1>1, <3>1, TypedRight
    <3>. QED  BY <1>1, <3>1, <3>2, TypedRight
  <2>3. typed[word][part].length \in 1 .. Width
    BY <2>2, PiecesRight
  <2>4. touched' \subseteq BUFFER .. NUMBER - 1 /\ touched' # {}
    <3>1. PICK length \in 1 .. 100 : touched' = -112 .. -112 + length
      BY <2>1, <2>3 DEF BUFFER, Width
    <3>2. -112 \in touched' /\ \A n \in touched' : n \in -112 .. -8 - 1
      BY <3>1
    <3>. QED  BY <3>2 DEF BUFFER, NUMBER
  <2>5. word' \in Nat \ {0} /\ part' \in Nat \ {0} /\ (word' <= Len(typed) => part' <= Len(typed[word']))
    BY <1>1, <1>2, <2>1, <2>2, TypedRight
  <2>6. PlaceInv'
    <3>1. Turn(calls + 1, word, part)'
      <4>1. PICK w, p : w = word' /\ p = part'
        OBVIOUS
      <4>2. Turn(calls + 1, w, p)
        BY <4>1, ScanTurns DEF InputInv
      <4>. QED  BY <1>1, <4>1, <4>2, TurnKept
    <3>. QED  BY <1>1, <2>5, <3>1 DEF PlaceInv
  <2>7. ReadInv'
    <3>. SUFFICES ASSUME NEW w \in 1 .. Len(typed), Whole(w), NEW p \in 1 .. Len(typed[w]),
                         calls = w + p - 1
                  PROVE  stored' = typed[w][p] /\ touched' # {}
      BY <1>1 DEF ReadInv, Whole
    <3>1. Len(typed[w]) \in Nat /\ w \in Nat
      BY <1>1, <1>2, TypedRight
    <3>2. word = w /\ part = p
      BY <1>1, <3>1 DEF Turn
    <3>. QED  BY <2>1, <2>4, <3>2
  <2>8. rax' # -1
    BY <2>1, OneIsNoFailure
  <2>. QED  BY <1>1, <2>1, <2>2, <2>4, <2>6, <2>7, <2>8 DEF InputInv, FrameKept, ResultIsInt
<1>4. CASE AtEnd
  <2>1. stored' \in Pieces /\ touched' = {} /\ UNCHANGED <<word, part>> /\ word > Len(typed)
    BY <1>4 DEF Scan, AtEnd
  <2>2. PlaceInv'
    <3>1. Turn(calls + 1, word, part)'
      <4>1. PICK w, p : w = word' /\ p = part'
        OBVIOUS
      <4>2. Turn(calls + 1, w, p)
        BY <4>1, ScanTurns DEF InputInv
      <4>. QED  BY <1>1, <4>1, <4>2, TurnKept
    <3>. QED  BY <1>1, <2>1, <3>1 DEF PlaceInv
  <2>3. ReadInv'
    <3>. SUFFICES ASSUME NEW w \in 1 .. Len(typed), Whole(w), NEW p \in 1 .. Len(typed[w]),
                         calls = w + p - 1
                  PROVE  FALSE
      BY <1>1 DEF ReadInv, Whole
    <3>1. Len(typed[w]) \in Nat /\ w \in Nat
      BY <1>1, <1>2, TypedRight
    <3>2. word = w
      BY <1>1, <3>1 DEF Turn
    <3>. QED  BY <1>2, <2>1, <3>2
  <2>. QED  BY <1>1, <2>1, <2>2, <2>3 DEF InputInv, FrameKept, ResultIsInt
<1>. QED  BY <1>3, <1>4

LEMMA StepInput == InputInv /\ [InputNext]_inputVars => InputInv'
<1>. SUFFICES ASSUME InputInv, [InputNext]_inputVars
              PROVE  InputInv'
  OBVIOUS
<1>1. CASE Scan
  BY <1>1, StepScan
<1>2. CASE CheckFailure
  <2>1. /\ phase = "check" /\ UNCHANGED <<streamVars, stored, touched>>
        /\ \/ rax = -1 /\ rax' = 0 /\ phase' = "return"
           \/ phase' = "strtol"
    BY <1>2 DEF CheckFailure
  <2>2. PlaceInv' /\ ReadInv' /\ stored' \in Pieces /\ FrameKept'
    BY <2>1, PlaceKept
  <2>3. phase' = "return" => touched' = {} /\ rax' \in Entered
    BY <2>1, ZeroFits DEF InputInv
  <2>. QED  BY <2>1, <2>2, <2>3 DEF InputInv, ResultIsInt, Entered
<1>3. CASE Convert
  <2>1. /\ phase = "strtol" /\ phase' = "converted" /\ UNCHANGED <<streamVars, stored, touched>>
        /\ number' \in Register(Value(stored), LongLimit)
        /\ endptr' = IF stored.digits THEN "after" ELSE "start"
    BY <1>3 DEF Convert, Value
  <2>2. PlaceInv' /\ ReadInv' /\ stored' \in Pieces /\ FrameKept'
    BY <2>1, PlaceKept
  <2>3. Register(Value(stored), LongLimit)' = Register(Value(stored), LongLimit)
    BY <2>1 DEF Register, Value, LongLimit, streamVars
  <2>. QED  BY <2>1, <2>2, <2>3 DEF InputInv, ResultIsInt
<1>4. CASE TakeCharacter
  <2>1. /\ phase = "converted" /\ endptr = "start" /\ phase' = "return"
        /\ rax' = Signed(stored.first, CHAR_LIMIT) /\ UNCHANGED <<streamVars, stored, touched>>
    BY <1>4 DEF TakeCharacter
  <2>2. PlaceInv' /\ ReadInv' /\ stored' \in Pieces /\ FrameKept'
    BY <2>1, PlaceKept
  <2>3. ~ stored.digits /\ rax' \in Entered
    BY <2>1, PiecesRight DEF InputInv
  <2>4. rax' \in Meaning(stored)'
    BY <2>1, <2>3 DEF Meaning, streamVars
  <2>. QED  BY <2>1, <2>2, <2>3, <2>4 DEF InputInv, ResultIsInt, Entered
<1>5. CASE TakeNumber
  <2>1. /\ phase = "converted" /\ endptr # "start" /\ phase' = "return"
        /\ UNCHANGED <<streamVars, stored, touched>>
        /\ (Fits /\ rax' = number) \/ (~ Fits /\ rax' = 0)
    BY <1>5 DEF TakeNumber
  <2>2. PlaceInv' /\ ReadInv' /\ stored' \in Pieces /\ FrameKept'
    BY <2>1, PlaceKept
  <2>3. stored \in Pieces /\ stored.digits /\ number \in Register(Value(stored), LongLimit)
    BY <2>1, PiecesRight DEF InputInv
  <2>4. rax' \in Entered /\ rax' \in Meaning(stored)
    BY <2>1, <2>3, NumberMeans
  <2>5. Meaning(stored)' = Meaning(stored)
    BY <2>1 DEF Meaning, streamVars
  <2>. QED  BY <2>1, <2>2, <2>4, <2>5 DEF InputInv, ResultIsInt, Entered
<1>6. CASE NextInput
  <2>1. /\ phase = "return" /\ phase' = "scanf" /\ calls' = calls + 1
        /\ UNCHANGED <<cc, typed, word, part, stored, touched>>
    BY <1>6 DEF NextInput
  <2>2. PlaceInv'
    BY <2>1, TurnKept DEF InputInv, PlaceInv
  <2>. QED  BY <2>1, <2>2 DEF InputInv, ReadInv, FrameKept, ResultIsInt
<1>7. CASE Returned \/ UNCHANGED inputVars
  <2>1. UNCHANGED <<cc, typed, word, part, calls, phase, rax, stored, endptr, number, touched>>
    BY <1>7 DEF Returned, inputVars
  <2>2. PlaceInv' /\ ReadInv'
    BY <2>1, TurnKept DEF InputInv, PlaceInv, ReadInv, Whole
  <2>3. /\ Meaning(stored)' = Meaning(stored)
        /\ Register(Value(stored), LongLimit)' = Register(Value(stored), LongLimit)
    BY <2>1 DEF Meaning, Register, Value, LongLimit
  <2>. QED  BY <2>1, <2>2, <2>3 DEF InputInv, FrameKept, ResultIsInt, Entered
<1>. QED  BY <1>1, <1>2, <1>3, <1>4, <1>5, <1>6, <1>7 DEF InputNext

\* Whatever is typed, INPUT gives an int and writes to its buffer only
\* (emitter-x86.c:17 and 170-240).
THEOREM ResultIsSafe == InputSpec => []ResultSafe
<1>1. InputInv => ResultSafe
  BY DEF InputInv, ResultSafe
<1>. QED  BY <1>1, InitInput, StepInput, PTL DEF InputSpec

\* Each INPUT stores what its word means, and the pieces of the first word that
\* exceeds the field go to as many INPUTs, under both conventions
\* (emitter-x86.c:17 and 187-240).
THEOREM ResultIsTyped == InputSpec => []AsTyped
<1>1. InputInv => AsTyped
  <2>. SUFFICES ASSUME InputInv, phase = "return",
                       NEW w \in 1 .. Len(typed), \A v \in 1 .. w - 1 : Len(typed[v]) = 1,
                       NEW p \in 1 .. Len(typed[w]), calls = w + p - 1
                PROVE  rax \in Meaning(typed[w][p])
    BY DEF AsTyped
  <2>1. stored = typed[w][p] /\ touched # {}
    BY DEF InputInv, ReadInv, Whole
  <2>. QED  BY <2>1 DEF InputInv
<1>. QED  BY <1>1, InitInput, StepInput, PTL DEF InputSpec
=============================================================================
