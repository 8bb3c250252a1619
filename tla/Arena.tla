-------------------------------- MODULE Arena --------------------------------
(***************************************************************************)
(* The arena allocator (common/arena.c): regions of growing size, of which *)
(* the last one allocated is filled.  All of its arithmetic is on          *)
(* uint32_t, that is, modulo SIZE_LIMIT.                                   *)
(***************************************************************************)
EXTENDS Integers, Sequences

CONSTANTS INITIAL_ARENA_SIZE,  \* 4000 in the code
          POINTER_SIZE,        \* sizeof(void *)
          SIZE_LIMIT           \* 2^32 in the code

ASSUME ArenaAssumption ==
  /\ POINTER_SIZE \in {4, 8}
  /\ SIZE_LIMIT \in Nat
  /\ INITIAL_ARENA_SIZE \in 1 .. SIZE_LIMIT - 1

VARIABLES regions,  \* the regions, linked by prev in the code, the head last
          blocks    \* history: what arena_alloc has returned

arenaVars == <<regions, blocks>>

\* arena_init
ArenaInit == regions = <<>> /\ blocks = <<>>

-----------------------------------------------------------------------------
Region(capacity) == [capacity |-> capacity, length |-> 0]

\* The regions, with a first one if there was none.
Started(size) ==
  IF regions # <<>> THEN regions
  ELSE <<Region(IF size > INITIAL_ARENA_SIZE THEN size ELSE INITIAL_ARENA_SIZE)>>

\* Mutant: blocks begin where the one before ended.
PaddingNone(length) == 0

Padding(length) ==
  IF length % POINTER_SIZE = 0 THEN 0 ELSE POINTER_SIZE - (length % POINTER_SIZE)

\* Mutant: the room is compared with the size alone.
HasRoomUnpadded(region, size) == size <= region.capacity - region.length

HasRoom(region, size) ==
  (Padding(region.length) + size) % SIZE_LIMIT <= region.capacity - region.length

Doubled(region, size) ==
  LET capacity == (region.capacity * 2) % SIZE_LIMIT
  IN Region(IF size > capacity THEN size ELSE capacity)

\* The regions after those of arena_alloc(size) have been allocated.
RegionsFor(size) ==
  LET head == Started(size)[Len(Started(size))]
  IN IF HasRoom(head, size) THEN Started(size)
     ELSE Append(Started(size), Doubled(head, size))

\* Where arena_alloc(size) puts its block.
PlaceFor(size) ==
  LET n == Len(RegionsFor(size))
      length == RegionsFor(size)[n].length
  IN [region |-> n, at |-> length + Padding(length)]

\* Of a region that would have no bytes, xmalloc exits the process.
arena_alloc(size) ==
  LET place == PlaceFor(size) IN
    /\ RegionsFor(size)[place.region].capacity # 0
    /\ regions' = [RegionsFor(size) EXCEPT ![place.region].length = (place.at + size) % SIZE_LIMIT]
    /\ blocks' = Append(blocks, [region |-> place.region, at |-> place.at, size |-> size])

\* What makes xmalloc's exit possible.
NeedsRegion(size) == RegionsFor(size) # regions

-----------------------------------------------------------------------------
(***************************************************************************)
(* Properties.                                                             *)
(***************************************************************************)
End(block) == block.at + block.size

InRegion(block) ==
  /\ block.region \in 1 .. Len(regions)
  /\ End(block) <= regions[block.region].length
  /\ regions[block.region].length <= regions[block.region].capacity
Aligned(block) == block.at % POINTER_SIZE = 0
Apart(b, c) == b.region = c.region => End(b) <= c.at \/ End(c) <= b.at

\* Every block that was ever allocated lies in its region, is aligned for a
\* pointer, and overlaps no other, although the doubling of the capacity may
\* wrap around (arena.c:29-54).
BlocksApart ==
  /\ \A i \in 1 .. Len(blocks) : InRegion(blocks[i]) /\ Aligned(blocks[i])
  /\ \A i, j \in 1 .. Len(blocks) : i # j => Apart(blocks[i], blocks[j])
=============================================================================
