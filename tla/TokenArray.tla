------------------------------ MODULE TokenArray ------------------------------
(***************************************************************************)
(* The array of tokens (frontend/lexer/token.c).  The array is a block     *)
(* that doubles when it is full; the texts of its tokens are C strings in  *)
(* an arena, to which the tokens point.                                    *)
(***************************************************************************)
EXTENDS Arena, StringUtil

CONSTANTS INIT_CAPACITY,  \* 512 in the code
          TOKEN_BYTES     \* sizeof(Token)

CAPACITY_MULTIPLIER == 2

ASSUME TokenArrayAssumption ==
  /\ INIT_CAPACITY \in Nat \ {0}
  /\ TOKEN_BYTES \in Nat \ {0}
  /\ INIT_CAPACITY * TOKEN_BYTES < SIZE_LIMIT

VARIABLES tokens,    \* the tokens
          capacity,  \* how many the block is meant to hold
          bytes,     \* the size of the block
          heap       \* the characters in the arena, by region and place in it

arrayVars == <<tokens, capacity, bytes, heap, arenaVars>>

\* token_array_init
ArrayInit ==
  /\ tokens = <<>>
  /\ capacity = INIT_CAPACITY
  /\ bytes = INIT_CAPACITY * TOKEN_BYTES
  /\ heap = <<>>
  /\ ArenaInit

-----------------------------------------------------------------------------
NULL == [region |-> 0, at |-> 0]

\* The characters of a string with the NUL that ends them.
\* Mutant: the NUL is forgotten.
Unended(str) == str

Ended(str) == Append(str, NUL)

\* The memory after a string has been written to a place.
Write(place, str, memory) ==
  LET ended == Ended(str)
      end == place.at + Len(ended) - 1
      cells == {<<place.region, i>> : i \in place.at .. end}
  IN [a \in cells \cup DOMAIN memory |->
        IF a \in cells THEN ended[a[2] - place.at + 1] ELSE memory[a]]

\* Mutant: the array grows one token too late.
IsFullLate == Len(tokens) > capacity

IsFull == Len(tokens) = capacity

\* _resize_token_array of a full array
MakeRoom ==
  \/ /\ ~ IsFull
     /\ UNCHANGED <<capacity, bytes>>
  \/ /\ IsFull
     /\ capacity' = (capacity * CAPACITY_MULTIPLIER) % SIZE_LIMIT
     /\ bytes' = (capacity' * TOKEN_BYTES) % SIZE_LIMIT
     /\ bytes' # 0

\* The size of the block of arena_allocate_string.
SizeOf(text) == (Len(text) + 2) % SIZE_LIMIT

token_array_push_simple(token) ==
  /\ MakeRoom
  /\ tokens' = Append(tokens, token)
  /\ UNCHANGED <<heap, arenaVars>>

token_array_push(token, text) ==
  /\ MakeRoom
  /\ arena_alloc(SizeOf(text))
  /\ heap' = Write(PlaceFor(SizeOf(text)), text, heap)
  /\ tokens' = Append(tokens, [token EXCEPT !.text = PlaceFor(SizeOf(text))])

\* The escape sequences are replaced in the arena.
token_array_clean_and_push_string(token, text) ==
  LET place == PlaceFor(SizeOf(text)) IN
    /\ MakeRoom
    /\ arena_alloc(SizeOf(text))
    /\ heap' = Write(place, string_clean_escape_sequences(text), Write(place, text, heap))
    /\ tokens' = Append(tokens, [token EXCEPT !.text = place])

\* The characters that a token's pointer leads to, up to the first NUL.
IsString(place, n) ==
  /\ \A i \in 0 .. n : <<place.region, place.at + i>> \in DOMAIN heap
  /\ heap[<<place.region, place.at + n>>] = NUL
  /\ \A i \in 0 .. n - 1 : heap[<<place.region, place.at + i>>] # NUL
Text(t) ==
  IF t.text = NULL THEN <<>>
  ELSE LET n == CHOOSE n \in 0 .. regions[t.text.region].length : IsString(t.text, n)
       IN [i \in 1 .. n |-> heap[<<t.text.region, t.text.at + i - 1>>]]

-----------------------------------------------------------------------------
TextEnds(place) ==
  \E b \in 1 .. Len(blocks), n \in 0 .. SIZE_LIMIT :
    /\ [region |-> blocks[b].region, at |-> blocks[b].at] = place
    /\ n < blocks[b].size
    /\ IsString(place, n)

\* Every token is in the block that holds the array, and every text ends inside
\* the block of the arena that was allocated for it (token.c:53-56 and 71-83,
\* arena.c:78-82).
StoredInBlocks ==
  /\ Len(tokens) * TOKEN_BYTES <= bytes
  /\ \A k \in 1 .. Len(tokens) : tokens[k].text # NULL => TextEnds(tokens[k].text)
=============================================================================
