----------------------------- MODULE LexerProofs -----------------------------
(***************************************************************************)
(* What the lexer promises, whatever the files.  A line fits its buffer,   *)
(* so the text of a token fits a size, and the texts are kept apart.  The  *)
(* buffer shows the part of the file it was read from, so the tokens are   *)
(* where they say; the scanner stands between two lexemes, so they are     *)
(* whole; and what it passed is a token's or may be left out.              *)
(***************************************************************************)
EXTENDS Lexer, SequenceTheorems, FiniteSetTheorems, WellFoundedInduction, TLAPS

-----------------------------------------------------------------------------
(***************************************************************************)
(* What tokens are made of: strings and the runs of characters in them,    *)
(* the loop that replaces escape sequences, and the arena, whose blocks    *)
(* stay apart as long as a block and its padding together fit a size.      *)
(***************************************************************************)
\* A set of numbers has a least one.
LEMMA Least ==
  ASSUME NEW T, T \subseteq Nat, T # {}
  PROVE  \E x \in T : \A y \in T : x <= y
<1>1. PICK x \in T : \A y \in T : ~ (<<y, x>> \in OpToRel(<, Nat))
  BY WFMin, NatLessThanWellFounded
<1>2. \A y \in T : ~ (y < x)
  BY <1>1 DEF OpToRel
<1>. QED  BY <1>2

\* A run ends inside its string, and is as long as it can be.
LEMMA RunEnds ==
  ASSUME NEW S, NEW s \in Seq(S), NEW p \in 0 .. Len(s), NEW chars
  PROVE  /\ RunEnd(s, p, chars) \in p .. Len(s)
         /\ \A i \in p + 1 .. RunEnd(s, p, chars) : s[i] \in chars
         /\ RunEnd(s, p, chars) = Len(s) \/ s[RunEnd(s, p, chars) + 1] \notin chars
<1>. DEFINE Stops == {e \in p .. Len(s) : e = Len(s) \/ s[e + 1] \notin chars}
            IsEnd(e) == /\ \A i \in p + 1 .. e : s[i] \in chars
                        /\ e = Len(s) \/ s[e + 1] \notin chars
<1>1. Len(s) \in Nat /\ p \in Nat
  OBVIOUS
<1>2. Len(s) \in Stops /\ Stops \subseteq Nat
  BY <1>1
<1>3. PICK e \in Stops : \A d \in Stops : e <= d
  <2>. HIDE DEF Stops
  <2>. QED  BY <1>2, Least
<1>4. e \in p .. Len(s) /\ (e = Len(s) \/ s[e + 1] \notin chars)
  OBVIOUS
<1>5. ASSUME NEW i \in p + 1 .. e
      PROVE  s[i] \in chars
  <2>1. i - 1 \in p .. Len(s) /\ i - 1 < e /\ i - 1 + 1 = i
    BY <1>1, <1>4
  <2>2. i - 1 \notin Stops
    <3>. HIDE DEF Stops
    <3>1. e \in Int /\ i - 1 \in Int /\ ~ (e <= i - 1)
      BY <2>1, <1>1, <1>4
    <3>. QED  BY <3>1, <1>3
  <2>. QED  BY <2>1, <2>2
<1>6. \E d \in p .. Len(s) : IsEnd(d)
  BY <1>4, <1>5
<1>. HIDE DEF IsEnd
<1>. DEFINE r == CHOOSE d \in p .. Len(s) : IsEnd(d)
<1>7. r \in p .. Len(s) /\ IsEnd(r)
  BY <1>6
<1>8. RunEnd(s, p, chars) = r
  BY DEF RunEnd, IsEnd
<1>. HIDE DEF r
<1>. QED  BY <1>7, <1>8 DEF IsEnd

\* Stripping cuts a string where nothing but newlines follow.
LEMMA Strips ==
  ASSUME NEW S, NEW s \in Seq(S)
  PROVE  /\ strip_trailing_newlines(s) \in Seq(S)
         /\ Len(strip_trailing_newlines(s)) \in 0 .. Len(s)
         /\ \A i \in 1 .. Len(strip_trailing_newlines(s)) : strip_trailing_newlines(s)[i] = s[i]
         /\ \A i \in Len(strip_trailing_newlines(s)) + 1 .. Len(s) : s[i] \in NEWLINES
         /\ \/ Len(strip_trailing_newlines(s)) = 0
            \/ s[Len(strip_trailing_newlines(s))] \notin NEWLINES
<1>. DEFINE Rests == {n \in 0 .. Len(s) : \A i \in n + 1 .. Len(s) : s[i] \in NEWLINES}
            IsRest(n) == /\ n = 0 \/ s[n] \notin NEWLINES
                         /\ \A i \in n + 1 .. Len(s) : s[i] \in NEWLINES
<1>1. Len(s) \in Nat
  OBVIOUS
<1>2. Len(s) \in Rests /\ Rests \subseteq Nat
  BY <1>1
<1>3. PICK n \in Rests : \A d \in Rests : n <= d
  <2>. HIDE DEF Rests
  <2>. QED  BY <1>2, Least
<1>4. n \in 0 .. Len(s) /\ \A i \in n + 1 .. Len(s) : s[i] \in NEWLINES
  OBVIOUS
<1>5. n = 0 \/ s[n] \notin NEWLINES
  <2>. SUFFICES ASSUME n # 0, s[n] \in NEWLINES
                PROVE  FALSE
    OBVIOUS
  <2>1. n - 1 \in 0 .. Len(s) /\ n - 1 < n
    BY <1>1, <1>4
  <2>2. \A i \in n - 1 + 1 .. Len(s) : s[i] \in NEWLINES
    BY <1>1, <1>4
  <2>3. n - 1 \in Rests
    BY <2>1, <2>2
  <2>. HIDE DEF Rests
  <2>. QED  BY <1>3, <1>4, <2>1, <2>3
<1>6. \E d \in 0 .. Len(s) : IsRest(d)
  BY <1>4, <1>5
<1>. DEFINE r == CHOOSE d \in 0 .. Len(s) : IsRest(d)
<1>. HIDE DEF IsRest
<1>7. r \in 0 .. Len(s) /\ IsRest(r)
  BY <1>6
<1>8. strip_trailing_newlines(s) = SubSeq(s, 1, r)
  BY DEF strip_trailing_newlines, r, IsRest
<1>. HIDE DEF r
<1>9. \A i \in 1 .. r : s[i] \in S
  BY <1>7
<1>10. r \in Int /\ 1 \in Int
  BY <1>7
<1>11. /\ SubSeq(s, 1, r) \in Seq(S)
       /\ Len(SubSeq(s, 1, r)) = IF 1 <= r THEN r - 1 + 1 ELSE 0
       /\ \A i \in 1 .. r - 1 + 1 : SubSeq(s, 1, r)[i] = s[1 + i - 1]
  BY ONLY <1>9, <1>10, SubSeqProperties
<1>12. Len(SubSeq(s, 1, r)) = r /\ \A i \in 1 .. r : SubSeq(s, 1, r)[i] = s[i]
  BY <1>7, <1>11
<1>. QED  BY <1>1, <1>7, <1>8, <1>11, <1>12 DEF IsRest

\* The loop of string_clean_escape_sequences ends: each pass reads on.  So there
\* is a function as Clean describes it, and every text has a cleaned form.
Buffers == [input : Seq(Char), read_idx : Nat, write_idx : Nat]
ReadAll(c) == c.read_idx >= Len(c.input)
Left(c) == IF ReadAll(c) THEN 0 ELSE Len(c.input) - c.read_idx
Writable(c) == c.write_idx <= c.read_idx /\ c.write_idx <= Len(c.input)

LEMMA CleanStepRight ==
  ASSUME NEW c \in Buffers, ~ ReadAll(c)
  PROVE  /\ CleanStep(c) \in Buffers
         /\ Left(CleanStep(c)) \in Nat /\ Left(CleanStep(c)) < Left(c)
         /\ Len(CleanStep(c).input) = Len(c.input)
         /\ Writable(c) => Writable(CleanStep(c))
<1>. DEFINE n == Len(c.input)
            char == c.input[c.read_idx + 1]
            escaped == c.input[c.read_idx + 2]
            plain == char # ESCAPE_CHAR \/ c.read_idx + 1 >= n
            copied == [c.input EXCEPT ![c.write_idx + 1] = char]
<1>1. /\ c.input \in Seq(Char) /\ n \in Nat /\ c.read_idx \in Nat /\ c.write_idx \in Nat
      /\ c.read_idx < n
  BY DEF Buffers, ReadAll
<1>2. char \in Char
  BY <1>1
<1>3. ASSUME NEW s \in Seq(Char), NEW i \in Nat, NEW x \in Char, Len(s) = n
      PROVE  [s EXCEPT ![i] = x] \in Seq(Char) /\ Len([s EXCEPT ![i] = x]) = n
  <2>1. CASE i \in 1 .. Len(s)
    BY <1>3, <2>1, ExceptSeq
  <2>2. CASE i \notin DOMAIN s
    <3>1. [s EXCEPT ![i] = x] = s
      BY <2>2
    <3>. QED  BY <1>3, <3>1
  <2>. QED  BY <2>1, <2>2
<1>4. copied \in Seq(Char) /\ Len(copied) = n
  BY <1>1, <1>2, <1>3
<1>. HIDE DEF copied
<1>5. CASE plain
  <2>1. CleanStep(c) = [input |-> copied, read_idx |-> c.read_idx + 1,
                        write_idx |-> c.write_idx + 1]
    BY <1>5 DEF CleanStep, copied
  <2>. QED  BY <1>1, <1>4, <2>1 DEF Buffers, Left, ReadAll, Writable
<1>6. CASE ~ plain /\ escaped \in DOMAIN DEFAULT_ESCAPE_MAPPINGS
  <2>. DEFINE x == DEFAULT_ESCAPE_MAPPINGS[escaped]
              rewritten == [c.input EXCEPT ![c.write_idx + 1] = x]
  <2>1. escaped \in Char
    BY <1>1, <1>6
  <2>2. x \in Char
    <3>1. escaped \in {"\"", "'", "\\", "n", "0"}
      BY <1>6 DEF DEFAULT_ESCAPE_MAPPINGS
    <3>2. x = IF escaped = "n" THEN "\n" ELSE IF escaped = "0" THEN NUL ELSE escaped
      BY <3>1 DEF DEFAULT_ESCAPE_MAPPINGS
    <3>. QED  BY <2>1, <3>2, CharAssumption DEF NEWLINES
  <2>3. rewritten \in Seq(Char) /\ Len(rewritten) = n
    BY <1>1, <1>3, <2>2
  <2>4. CleanStep(c) = [input |-> rewritten, read_idx |-> c.read_idx + 2,
                        write_idx |-> c.write_idx + 1]
    BY <1>6 DEF CleanStep
  <2>. HIDE DEF rewritten
  <2>. QED  BY <1>1, <1>6, <2>3, <2>4 DEF Buffers, Left, ReadAll, Writable
<1>7. CASE ~ plain /\ escaped \notin DOMAIN DEFAULT_ESCAPE_MAPPINGS
  <2>. DEFINE rewritten == [copied EXCEPT ![c.write_idx + 2] = escaped]
  <2>1. escaped \in Char
    BY <1>1, <1>7
  <2>2. rewritten \in Seq(Char) /\ Len(rewritten) = n
    BY <1>1, <1>3, <1>4, <2>1
  <2>3. CleanStep(c) = [input |-> rewritten, read_idx |-> c.read_idx + 2,
                        write_idx |-> c.write_idx + 2]
    BY <1>7 DEF CleanStep, copied
  <2>. HIDE DEF rewritten
  <2>. QED  BY <1>1, <1>7, <2>2, <2>3 DEF Buffers, Left, ReadAll, Writable
<1>. QED  BY <1>5, <1>6, <1>7

LEMMA LeftIsNat ==
  ASSUME NEW c \in Buffers
  PROVE  Left(c) \in Nat /\ (ReadAll(c) <=> Left(c) = 0)
BY DEF Left, ReadAll, Buffers

\* A function that cleans what has at most n characters left to read.
Within(n) == {c \in Buffers : Left(c) <= n}
Written(c) == SubSeq(c.input, 1, c.write_idx)
IsCleaner(f, n) == f = [c \in Within(n) |-> IF ReadAll(c) THEN Written(c) ELSE f[CleanStep(c)]]

LEMMA CleanersAgree ==
  ASSUME NEW m \in Nat, NEW n \in Nat, NEW f, NEW g, IsCleaner(f, m), IsCleaner(g, n),
         NEW c \in Within(m), c \in Within(n)
  PROVE  f[c] = g[c]
<1>. DEFINE Differ == {k \in Nat : \E d \in Within(m) \cap Within(n) : Left(d) = k /\ f[d] # g[d]}
<1>1. SUFFICES ASSUME f[c] # g[c]
               PROVE  FALSE
  OBVIOUS
<1>2. Left(c) \in Differ /\ Differ \subseteq Nat
  BY <1>1, LeftIsNat DEF Within
<1>3. PICK k \in Differ : \A j \in Differ : k <= j
  <2>. HIDE DEF Differ
  <2>. QED  BY <1>2, Least
<1>4. PICK d \in Within(m) \cap Within(n) : Left(d) = k /\ f[d] # g[d]
  OBVIOUS
<1>5. d \in Buffers /\ Left(d) <= m /\ Left(d) <= n /\ k \in Nat
  BY <1>4 DEF Within
<1>6. /\ f[d] = IF ReadAll(d) THEN Written(d) ELSE f[CleanStep(d)]
      /\ g[d] = IF ReadAll(d) THEN Written(d) ELSE g[CleanStep(d)]
  BY <1>4 DEF IsCleaner
<1>7. ~ ReadAll(d)
  BY <1>4, <1>6
<1>. DEFINE e == CleanStep(d)
<1>8. e \in Buffers /\ Left(e) \in Nat /\ Left(e) < k
  BY <1>4, <1>5, <1>7, CleanStepRight
<1>. HIDE DEF e
<1>9. e \in Within(m) \cap Within(n)
  BY <1>4, <1>5, <1>8 DEF Within
<1>10. Left(e) \notin Differ
  <2>. HIDE DEF Differ
  <2>. QED  BY <1>3, <1>5, <1>8
<1>11. f[e] = g[e]
  BY <1>8, <1>9, <1>10
<1>. QED  BY <1>4, <1>6, <1>7, <1>11 DEF e

LEMMA CleanersExist ==
  ASSUME NEW n \in Nat
  PROVE  \E f : IsCleaner(f, n)
<1>. DEFINE Without == {k \in Nat : ~ \E f : IsCleaner(f, k)}
<1>1. SUFFICES ASSUME n \in Without
               PROVE  FALSE
  OBVIOUS
<1>2. PICK k \in Without : \A j \in Without : k <= j
  <2>1. Without \subseteq Nat
    OBVIOUS
  <2>. HIDE DEF Without
  <2>. QED  BY <1>1, <2>1, Least
<1>3. k \in Nat /\ ~ \E f : IsCleaner(f, k)
  OBVIOUS
<1>4. CASE k = 0
  <2>. DEFINE f == [c \in Within(0) |-> Written(c)]
  <2>1. \A c \in Within(0) : ReadAll(c)
    BY LeftIsNat DEF Within
  <2>2. f = [c \in Within(0) |-> IF ReadAll(c) THEN Written(c) ELSE f[CleanStep(c)]]
    BY <2>1
  <2>. QED  BY <1>3, <1>4, <2>2 DEF IsCleaner
<1>5. CASE k # 0
  <2>1. k - 1 \in Nat /\ ~ (k <= k - 1)
    BY <1>3, <1>5
  <2>2. k - 1 \notin Without
    <3>. HIDE DEF Without
    <3>. QED  BY <1>2, <2>1
  <2>3. PICK g : IsCleaner(g, k - 1)
    BY <2>1, <2>2
  <2>. DEFINE f == [c \in Within(k) |-> IF ReadAll(c) THEN Written(c) ELSE g[CleanStep(c)]]
  <2>4. ASSUME NEW c \in Within(k), ~ ReadAll(c)
        PROVE  f[CleanStep(c)] = g[CleanStep(c)]
    <3>. DEFINE d == CleanStep(c)
    <3>1. c \in Buffers /\ Left(c) <= k /\ Left(c) \in Nat
      BY LeftIsNat DEF Within
    <3>2. d \in Buffers /\ Left(d) \in Nat /\ Left(d) < Left(c)
      BY <2>4, <3>1, CleanStepRight
    <3>. HIDE DEF d
    <3>3. d \in Within(k) /\ d \in Within(k - 1)
      BY <1>3, <3>1, <3>2 DEF Within
    <3>4. g[d] = IF ReadAll(d) THEN Written(d) ELSE g[CleanStep(d)]
      BY <2>3, <3>3 DEF IsCleaner
    <3>5. f[d] = IF ReadAll(d) THEN Written(d) ELSE g[CleanStep(d)]
      BY <3>3
    <3>. QED  BY <3>4, <3>5 DEF d
  <2>5. f = [c \in Within(k) |-> IF ReadAll(c) THEN Written(c) ELSE f[CleanStep(c)]]
    BY <2>4
  <2>. QED  BY <1>3, <2>5 DEF IsCleaner
<1>. QED  BY <1>4, <1>5

LEMMA CleanExists ==
  ASSUME NEW c \in Buffers
  PROVE  Clean[c] = IF ReadAll(c) THEN Written(c) ELSE Clean[CleanStep(c)]
<1>. DEFINE Cleaner(n) == CHOOSE f : IsCleaner(f, n)
            F == [d \in Buffers |-> Cleaner(Left(d))[d]]
<1>1. \A n \in Nat : IsCleaner(Cleaner(n), n)
  BY CleanersExist
<1>. HIDE DEF Cleaner
<1>2. ASSUME NEW d \in Buffers
      PROVE  F[d] = IF ReadAll(d) THEN Written(d) ELSE F[CleanStep(d)]
  <2>. DEFINE n == Left(d)
              e == CleanStep(d)
  <2>1. n \in Nat /\ d \in Within(n)
    BY LeftIsNat DEF Within
  <2>2. F[d] = IF ReadAll(d) THEN Written(d) ELSE Cleaner(n)[e]
    BY <1>1, <2>1 DEF IsCleaner
  <2>3. CASE ~ ReadAll(d)
    <3>1. e \in Buffers /\ Left(e) \in Nat /\ Left(e) < n
      BY <2>3, CleanStepRight
    <3>. HIDE DEF e, n
    <3>2. e \in Within(n) /\ e \in Within(Left(e))
      BY <2>1, <3>1 DEF Within
    <3>3. Cleaner(n)[e] = Cleaner(Left(e))[e]
      BY <1>1, <2>1, <3>1, <3>2, CleanersAgree
    <3>. QED  BY <2>2, <2>3, <3>1, <3>3 DEF e
  <2>. QED  BY <2>2, <2>3
<1>. HIDE DEF F
<1>3. F = [d \in Buffers |-> IF ReadAll(d) THEN Written(d) ELSE F[CleanStep(d)]]
  <2>1. F = [d \in Buffers |-> F[d]]
    BY DEF F
  <2>. QED  BY <1>2, <2>1
<1>. DEFINE IsClean(f) == f = [d \in Buffers |-> IF ReadAll(d) THEN Written(d) ELSE f[CleanStep(d)]]
<1>4. Clean = CHOOSE f : IsClean(f)
  BY DEF Clean, Buffers, ReadAll, Written
<1>5. IsClean(F)
  BY <1>3
<1>6. IsClean(Clean)
  <2>. HIDE DEF IsClean
  <2>. QED  BY <1>4, <1>5
<1>. QED  BY <1>6

\* A cleaned text has characters only, and is no longer than it was.
LEMMA CleanedFits ==
  ASSUME NEW s \in Seq(Char)
  PROVE  /\ string_clean_escape_sequences(s) \in Seq(Char)
         /\ Len(string_clean_escape_sequences(s)) <= Len(s)
<1>. DEFINE Fits(c) == Clean[c] \in Seq(Char) /\ Len(Clean[c]) <= Len(c.input)
            Bad == {k \in Nat : \E c \in Buffers : Left(c) = k /\ Writable(c) /\ ~ Fits(c)}
            start == [input |-> s, read_idx |-> 0, write_idx |-> 0]
<1>1. Bad = {}
  <2>1. SUFFICES ASSUME Bad # {}
                 PROVE  FALSE
    OBVIOUS
  <2>2. Bad \subseteq Nat
    OBVIOUS
  <2>3. PICK k \in Bad : \A j \in Bad : k <= j
    <3>. HIDE DEF Bad
    <3>. QED  BY <2>1, <2>2, Least
  <2>4. PICK c \in Buffers : Left(c) = k /\ Writable(c) /\ ~ Fits(c)
    OBVIOUS
  <2>5. CASE ReadAll(c)
    <3>1. c.input \in Seq(Char) /\ c.write_idx \in 0 .. Len(c.input)
      BY <2>4 DEF Buffers, Writable
    <3>5. Clean[c] = SubSeq(c.input, 1, c.write_idx)
      BY <2>5, CleanExists DEF Written
    <3>2. \A i \in 1 .. c.write_idx : c.input[i] \in Char
      BY <3>1
    <3>3. 1 \in Int /\ c.write_idx \in Int
      BY <3>1
    <3>4. /\ SubSeq(c.input, 1, c.write_idx) \in Seq(Char)
          /\ Len(SubSeq(c.input, 1, c.write_idx))
               = IF 1 <= c.write_idx THEN c.write_idx - 1 + 1 ELSE 0
      BY ONLY <3>2, <3>3, SubSeqProperties
    <3>. QED  BY <2>4, <3>1, <3>4, <3>5
  <2>6. CASE ~ ReadAll(c)
    <3>. DEFINE d == CleanStep(c)
    <3>1. /\ d \in Buffers /\ Left(d) \in Nat /\ Left(d) < k /\ Writable(d)
          /\ Len(d.input) = Len(c.input) /\ Clean[c] = Clean[d]
      BY <2>4, <2>6, CleanStepRight, CleanExists
    <3>. HIDE DEF d
    <3>2. Left(d) \notin Bad
      <4>1. k \in Nat
        BY <2>2
      <4>. HIDE DEF Bad
      <4>. QED  BY <2>3, <3>1, <4>1
    <3>3. Fits(d)
      BY <3>1, <3>2
    <3>. QED  BY <2>4, <3>1, <3>3
  <2>. QED  BY <2>5, <2>6
<1>2. start \in Buffers /\ Writable(start)
  BY DEF Buffers, Writable
<1>3. Fits(start)
  BY <1>1, <1>2, LeftIsNat
<1>. QED  BY <1>3 DEF string_clean_escape_sequences, Cleaned

-----------------------------------------------------------------------------
RegionSet == [capacity : 1 .. SIZE_LIMIT - 1, length : 0 .. SIZE_LIMIT - 1]
BlockSet == [region : Nat \ {0}, at : Nat, size : Nat]

ArenaTypeOK ==
  /\ regions \in Seq(RegionSet)
  /\ blocks \in Seq(BlockSet)

RegionsRight == \A n \in 1 .. Len(regions) : regions[n].length <= regions[n].capacity

\* The inductive invariant: besides the property, no region is over-full.
ArenaInv == ArenaTypeOK /\ RegionsRight /\ BlocksApart

\* The padding leads to the next multiple of the size of a pointer.
LEMMA PaddingAligns ==
  ASSUME NEW length \in Nat
  PROVE  /\ Padding(length) \in 0 .. POINTER_SIZE - 1
         /\ (length + Padding(length)) % POINTER_SIZE = 0
<1>1. CASE POINTER_SIZE = 4
  BY <1>1 DEF Padding
<1>2. CASE POINTER_SIZE = 8
  BY <1>2 DEF Padding
<1>. QED  BY <1>1, <1>2, ArenaAssumption

\* The sizes for which the arithmetic of arena_alloc does not wrap around.
FitsSize(size) == size \in Nat /\ size + POINTER_SIZE <= SIZE_LIMIT

LEMMA StartedRight ==
  ASSUME ArenaTypeOK, RegionsRight, NEW size, FitsSize(size)
  PROVE  /\ Started(size) \in Seq(RegionSet)
         /\ Len(Started(size)) # 0
         /\ Len(Started(size)) >= Len(regions)
         /\ \A n \in 1 .. Len(Started(size)) :
              Started(size)[n].length <= Started(size)[n].capacity
         /\ \A n \in 1 .. Len(regions) : Started(size)[n] = regions[n]
<1>1. CASE regions = <<>>
  <2>. DEFINE c == IF size > INITIAL_ARENA_SIZE THEN size ELSE INITIAL_ARENA_SIZE
  <2>1. c \in 1 .. SIZE_LIMIT - 1
    BY ArenaAssumption DEF FitsSize
  <2>2. Started(size) = <<Region(c)>>
    BY <1>1 DEF Started
  <2>3. Region(c) \in RegionSet /\ Region(c).length <= Region(c).capacity
    BY <2>1, ArenaAssumption DEF Region, RegionSet
  <2>. QED  BY <2>2, <2>3, <1>1
<1>2. CASE regions # <<>>
  <2>1. Started(size) = regions
    BY <1>2 DEF Started
  <2>2. Len(regions) # 0
    BY <1>2 DEF ArenaTypeOK
  <2>. QED  BY <2>1, <2>2 DEF ArenaTypeOK, RegionsRight
<1>. QED  BY <1>1, <1>2

\* Where the block goes: behind what its region holds, aligned, and inside it.
PlacedRight(size) ==
  LET R == RegionsFor(size)
      place == PlaceFor(size)
  IN /\ R \in Seq(RegionSet)
     /\ place.region = Len(R) /\ Len(R) # 0 /\ Len(R) >= Len(regions)
     /\ \A n \in 1 .. Len(R) : R[n].length <= R[n].capacity
     /\ \A n \in 1 .. Len(regions) : R[n] = regions[n]
     /\ place.at \in Nat /\ place.at % POINTER_SIZE = 0
     /\ R[place.region].length <= place.at
     /\ place.at + size <= R[place.region].capacity

LEMMA Placing ==
  ASSUME ArenaTypeOK, RegionsRight, NEW size, FitsSize(size),
         RegionsFor(size)[PlaceFor(size).region].capacity # 0
  PROVE  PlacedRight(size)
<1>. DEFINE S == Started(size)
            head == S[Len(S)]
            pad == Padding(head.length)
<1>1. /\ S \in Seq(RegionSet) /\ Len(S) # 0 /\ Len(S) >= Len(regions)
      /\ \A n \in 1 .. Len(S) : S[n].length <= S[n].capacity
      /\ \A n \in 1 .. Len(regions) : S[n] = regions[n]
  BY StartedRight
<1>. HIDE DEF S
<1>2. /\ head \in RegionSet /\ head.length <= head.capacity
      /\ head.length \in Nat /\ head.capacity \in 1 .. SIZE_LIMIT - 1
      /\ head.capacity \in Nat
  <2>1. Len(S) \in 1 .. Len(S)
    BY <1>1
  <2>2. head \in RegionSet /\ head.length <= head.capacity
    BY <2>1, <1>1
  <2>. HIDE DEF head
  <2>3. head.length \in 0 .. SIZE_LIMIT - 1 /\ head.capacity \in 1 .. SIZE_LIMIT - 1
    BY <2>2 DEF RegionSet
  <2>. QED  BY <2>2, <2>3, ArenaAssumption
<1>3. pad \in 0 .. POINTER_SIZE - 1 /\ (head.length + pad) % POINTER_SIZE = 0
  BY <1>2, PaddingAligns
<1>4. size \in Nat /\ size + POINTER_SIZE <= SIZE_LIMIT /\ POINTER_SIZE \in Nat
      /\ SIZE_LIMIT \in Nat /\ SIZE_LIMIT > 0
  BY ArenaAssumption DEF FitsSize
<1>5. CASE HasRoom(head, size)
  <2>1. RegionsFor(size) = S
    BY <1>5 DEF RegionsFor, S
  <2>2. PlaceFor(size) = [region |-> Len(S), at |-> head.length + pad]
    BY <2>1 DEF PlaceFor
  <2>3. pad + size \in 0 .. SIZE_LIMIT - 1
    BY <1>3, <1>4
  <2>4. (pad + size) % SIZE_LIMIT = pad + size
    BY <2>3, <1>4
  <2>5. pad + size <= head.capacity - head.length
    BY <1>5, <2>4 DEF HasRoom
  <2>. HIDE DEF pad, head
  <2>6. head.length + pad \in Nat /\ head.length <= head.length + pad
        /\ head.length + pad + size <= head.capacity
    <3>1. head.length \in Nat /\ head.capacity \in Nat /\ pad \in Nat /\ size \in Nat
      BY <1>2, <1>3, <1>4
    <3>. QED  BY <3>1, <2>5
  <2>7. S[Len(S)].length = head.length /\ S[Len(S)].capacity = head.capacity
    BY DEF head
  <2>. QED  BY <1>1, <1>3, <2>1, <2>2, <2>6, <2>7 DEF PlacedRight
<1>6. CASE ~ HasRoom(head, size)
  <2>. DEFINE new == Doubled(head, size)
              R == Append(S, new)
  <2>1. RegionsFor(size) = R
    BY <1>6 DEF RegionsFor, S
  <2>2. (head.capacity * 2) % SIZE_LIMIT \in 0 .. SIZE_LIMIT - 1
    BY <1>2, <1>4
  <2>3. /\ new.length = 0 /\ new.capacity \in 0 .. SIZE_LIMIT - 1 /\ size <= new.capacity
        /\ new = [capacity |-> new.capacity, length |-> 0]
    BY <2>2, <1>4, ArenaAssumption DEF Doubled, Region
  <2>. HIDE DEF new, head
  <2>4. /\ Len(R) = Len(S) + 1 /\ R[Len(R)] = new
        /\ \A n \in 1 .. Len(S) : R[n] = S[n]
    BY <1>1
  <2>5. Padding(0) = 0
    <3>1. CASE POINTER_SIZE = 4
      BY <3>1 DEF Padding
    <3>2. CASE POINTER_SIZE = 8
      BY <3>2 DEF Padding
    <3>. QED  BY <3>1, <3>2, ArenaAssumption
  <2>6. PlaceFor(size) = [region |-> Len(R), at |-> 0]
    BY <2>1, <2>3, <2>4, <2>5 DEF PlaceFor
  <2>7. new \in RegionSet
    BY <2>1, <2>3, <2>4, <2>6, <1>4 DEF RegionSet
  <2>8. R \in Seq(RegionSet)
    BY <1>1, <2>7
  <2>9. 0 % POINTER_SIZE = 0
    BY ArenaAssumption
  <2>. HIDE DEF R
  <2>10. \A n \in 1 .. Len(R) : R[n].length <= R[n].capacity
    <3>. SUFFICES ASSUME NEW n \in 1 .. Len(R)
                  PROVE  R[n].length <= R[n].capacity
      OBVIOUS
    <3>1. CASE n = Len(R)
      BY <3>1, <2>3, <2>4, <1>4
    <3>2. CASE n # Len(R)
      BY <3>2, <1>1, <2>4
    <3>. QED  BY <3>1, <3>2
  <2>11. \A n \in 1 .. Len(regions) : R[n] = regions[n]
    BY <1>1, <2>4 DEF ArenaTypeOK
  <2>. QED
    BY <1>1, <2>1, <2>3, <2>4, <2>6, <2>8, <2>9, <2>10, <2>11, <1>4 DEF PlacedRight, ArenaTypeOK
<1>. QED  BY <1>5, <1>6

-----------------------------------------------------------------------------
\* One allocation keeps the invariant.
LEMMA AllocKeeps ==
  ASSUME ArenaInv, NEW size, FitsSize(size), arena_alloc(size)
  PROVE  ArenaInv'
<1>. DEFINE R == RegionsFor(size)
            place == PlaceFor(size)
            N == Len(R)
            block == [region |-> N, at |-> place.at, size |-> size]
<1>1. PlacedRight(size)
  BY Placing DEF ArenaInv, arena_alloc
<1>2. /\ R \in Seq(RegionSet) /\ place.region = N /\ N # 0 /\ N >= Len(regions)
      /\ \A n \in 1 .. N : R[n].length <= R[n].capacity
      /\ \A n \in 1 .. Len(regions) : R[n] = regions[n]
      /\ place.at \in Nat /\ place.at % POINTER_SIZE = 0
      /\ R[N].length <= place.at /\ place.at + size <= R[N].capacity
  BY <1>1 DEF PlacedRight
<1>3. size \in Nat /\ SIZE_LIMIT \in Nat /\ N \in Nat \ {0}
  BY <1>2, ArenaAssumption DEF FitsSize
<1>4. /\ \A n \in 1 .. N : R[n] \in RegionSet
      /\ R[N].length \in Nat
      /\ R[N].capacity \in 1 .. SIZE_LIMIT - 1
  <2>. HIDE DEF R
  <2>1. \A n \in 1 .. N : R[n] \in RegionSet
    BY <1>2
  <2>2. R[N] \in RegionSet
    BY <2>1, <1>3
  <2>3. R[N].length \in 0 .. SIZE_LIMIT - 1 /\ R[N].capacity \in 1 .. SIZE_LIMIT - 1
    BY <2>2 DEF RegionSet
  <2>4. \A x \in 0 .. SIZE_LIMIT - 1 : x \in Nat
    BY <1>3
  <2>. HIDE DEF N
  <2>5. R[N].length \in Nat
    BY <2>3, <2>4, Zenon
  <2>. QED  BY <2>1, <2>3, <2>5, Zenon
<1>5. (place.at + size) % SIZE_LIMIT = place.at + size
  <2>. HIDE DEF place, R
  <2>1. place.at + size \in 0 .. SIZE_LIMIT - 1
    BY <1>2, <1>3, <1>4
  <2>. QED  BY <2>1, <1>3
<1>6. /\ regions' = [R EXCEPT ![N].length = place.at + size]
      /\ blocks' = Append(blocks, block)
  BY <1>2, <1>5 DEF arena_alloc
<1>. DEFINE end == place.at + size
<1>. HIDE DEF R, place, N
<1>7. /\ Len(regions') = N /\ DOMAIN R = 1 .. N
      /\ regions'[N] = [capacity |-> R[N].capacity, length |-> end]
      /\ \A n \in 1 .. N : n # N => regions'[n] = R[n]
  BY <1>2, <1>3, <1>4, <1>6, SMTT(30) DEF RegionSet, N
<1>8. regions'[N] \in RegionSet
  BY <1>2, <1>3, <1>4, <1>7, SMTT(30) DEF RegionSet
<1>9. regions' \in Seq(RegionSet)
  <2>1. \A n \in 1 .. N : regions'[n] \in RegionSet
    BY <1>2, <1>7, <1>8 DEF N
  <2>2. DOMAIN regions' = 1 .. N
    BY <1>6, <1>7
  <2>3. regions' = [n \in 1 .. N |-> regions'[n]]
    BY <1>6, <2>2
  <2>. QED  BY <2>1, <2>3, <1>3
<1>10. block \in BlockSet
  BY <1>2, <1>3 DEF BlockSet
<1>11. blocks \in Seq(BlockSet) /\ blocks' \in Seq(BlockSet)
       /\ Len(blocks') = Len(blocks) + 1 /\ blocks'[Len(blocks) + 1] = block
       /\ \A i \in 1 .. Len(blocks) : blocks'[i] = blocks[i]
  BY <1>6, <1>10 DEF ArenaInv, ArenaTypeOK
<1>12. ArenaTypeOK'
  BY <1>9, <1>11 DEF ArenaTypeOK
<1>13. RegionsRight'
  <2>. SUFFICES ASSUME NEW n \in 1 .. N
                PROVE  regions'[n].length <= regions'[n].capacity
    BY <1>7 DEF RegionsRight
  <2>. QED  BY <1>2, <1>7
<1>14. \A i \in 1 .. Len(blocks) :
         /\ blocks[i].region \in 1 .. Len(regions)
         /\ blocks[i].at + blocks[i].size <= regions[blocks[i].region].length
         /\ blocks[i].at % POINTER_SIZE = 0
         /\ blocks[i].at \in Nat /\ blocks[i].size \in Nat
  <2>. SUFFICES ASSUME NEW i \in 1 .. Len(blocks)
                PROVE  /\ blocks[i].region \in 1 .. Len(regions)
                       /\ blocks[i].at + blocks[i].size <= regions[blocks[i].region].length
                       /\ blocks[i].at % POINTER_SIZE = 0
                       /\ blocks[i].at \in Nat /\ blocks[i].size \in Nat
    OBVIOUS
  <2>1. blocks[i] \in BlockSet
    BY <1>11
  <2>2. InRegion(blocks[i]) /\ Aligned(blocks[i])
    BY DEF ArenaInv, BlocksApart
  <2>. QED  BY <2>1, <2>2 DEF InRegion, Aligned, End, BlockSet
<1>15. \A n \in 1 .. Len(regions) :
         /\ n \in 1 .. N
         /\ regions[n].length \in Nat /\ regions[n].length <= regions'[n].length
         /\ n = N => regions[n].length <= place.at
  <2>. SUFFICES ASSUME NEW n \in 1 .. Len(regions)
                PROVE  /\ n \in 1 .. N
                       /\ regions[n].length \in Nat /\ regions[n].length <= regions'[n].length
                       /\ n = N => regions[n].length <= place.at
    OBVIOUS
  <2>1. n \in 1 .. N /\ regions[n] = R[n] /\ regions[n].length \in Nat
    <3>1. regions \in Seq(RegionSet) /\ Len(regions) \in Nat
      BY DEF ArenaInv, ArenaTypeOK
    <3>2. regions[n] \in RegionSet
      BY <3>1
    <3>3. regions[n].length \in Nat
      BY <3>2, <1>3 DEF RegionSet
    <3>4. n \in 1 .. N
      BY <3>1, <1>2, <1>3
    <3>. QED  BY <3>3, <3>4, <1>2
  <2>2. CASE n = N
    BY <2>1, <2>2, <1>2, <1>3, <1>4, <1>7
  <2>3. CASE n # N
    BY <2>1, <2>3, <1>7
  <2>. QED  BY <2>2, <2>3, <2>1
<1>16. \A i \in 1 .. Len(blocks) :
         /\ blocks[i].region \in 1 .. N
         /\ blocks[i].at + blocks[i].size <= regions'[blocks[i].region].length
         /\ blocks[i].region = N => blocks[i].at + blocks[i].size <= place.at
  <2>. SUFFICES ASSUME NEW i \in 1 .. Len(blocks)
                PROVE  /\ blocks[i].region \in 1 .. N
                       /\ blocks[i].at + blocks[i].size <= regions'[blocks[i].region].length
                       /\ blocks[i].region = N => blocks[i].at + blocks[i].size <= place.at
    OBVIOUS
  <2>. DEFINE n == blocks[i].region
              e == blocks[i].at + blocks[i].size
  <2>1. n \in 1 .. Len(regions) /\ e <= regions[n].length /\ e \in Nat
    BY <1>14
  <2>. HIDE DEF n, e
  <2>2. n \in 1 .. N /\ regions[n].length \in Nat
        /\ regions[n].length <= regions'[n].length
        /\ (n = N => regions[n].length <= place.at)
    BY <2>1, <1>15
  <2>3. regions'[n] \in RegionSet
    BY <2>2, <1>7, <1>9
  <2>4. regions'[n].length \in Nat
    BY <2>3, <1>3 DEF RegionSet
  <2>5. n \in 1 .. N /\ e <= regions'[n].length /\ (n = N => e <= place.at)
    BY <2>1, <2>2, <2>4, <1>2
  <2>. QED  BY <2>5 DEF n, e
<1>17. ASSUME NEW i \in 1 .. Len(blocks')
       PROVE  /\ blocks'[i].region \in 1 .. N
              /\ blocks'[i].at + blocks'[i].size <= regions'[blocks'[i].region].length
              /\ blocks'[i].at % POINTER_SIZE = 0
  <2>1. CASE i = Len(blocks) + 1
    <3>1. blocks'[i] = block
      BY <2>1, <1>11
    <3>. QED  BY <3>1, <1>2, <1>3, <1>7
  <2>2. CASE i # Len(blocks) + 1
    <3>1. blocks'[i] = blocks[i] /\ i \in 1 .. Len(blocks)
      BY <2>2, <1>11, <1>17
    <3>. QED  BY <3>1, <1>14, <1>16
  <2>. QED  BY <2>1, <2>2
<1>18. \A i \in 1 .. Len(blocks) : Apart(blocks[i], block) /\ Apart(block, blocks[i])
  BY <1>16 DEF Apart, End
<1>19. ASSUME NEW i \in 1 .. Len(blocks'), NEW j \in 1 .. Len(blocks'), i # j
       PROVE  Apart(blocks'[i], blocks'[j])
  <2>1. CASE i = Len(blocks) + 1
    BY <2>1, <1>11, <1>18, <1>19
  <2>2. CASE j = Len(blocks) + 1
    BY <2>2, <1>11, <1>18, <1>19
  <2>3. CASE i # Len(blocks) + 1 /\ j # Len(blocks) + 1
    BY <2>3, <1>11, <1>19 DEF ArenaInv, BlocksApart
  <2>. QED  BY <2>1, <2>2, <2>3
<1>20. BlocksApart'
  <2>1. \A i \in 1 .. Len(blocks') : Aligned(blocks[i])' /\ InRegion(blocks[i])'
    BY <1>7, <1>13, <1>17 DEF InRegion, Aligned, End, RegionsRight
  <2>2. \A i, j \in 1 .. Len(blocks') : i # j => Apart(blocks[i], blocks[j])'
    BY <1>19 DEF Apart, End
  <2>. QED  BY <2>1, <2>2 DEF BlocksApart
<1>. QED  BY <1>12, <1>13, <1>20 DEF ArenaInv

LEMMA InitRight == ArenaInit => ArenaInv
BY DEF ArenaInit, ArenaInv, ArenaTypeOK, RegionsRight, BlocksApart
-----------------------------------------------------------------------------
(***************************************************************************)
(* The texts of the tokens in the blocks of the arena.                     *)
(***************************************************************************)
Cell(place, i) == <<place.region, place.at + i>>

\* The memory has a string and its NUL at a place.
StringAt(memory, place, str) ==
  /\ \A i \in 1 .. Len(str) : Cell(place, i - 1) \in DOMAIN memory
                              /\ memory[Cell(place, i - 1)] = str[i]
  /\ Cell(place, Len(str)) \in DOMAIN memory
  /\ memory[Cell(place, Len(str))] = NUL

\* The text at a place is a string, inside the block of that place.
HoldsText(place, str) ==
  /\ str \in Seq(Char \ {NUL})
  /\ \E b \in 1 .. Len(blocks) : /\ blocks[b].region = place.region /\ blocks[b].at = place.at
                                 /\ Len(str) < blocks[b].size
  /\ StringAt(heap, place, str)

\* What is read there is that string.
LEMMA TextIs ==
  ASSUME ArenaInv, NEW t, NEW str, HoldsText(t.text, str), t.text # NULL,
         t.text \in [region : Nat, at : Nat]
  PROVE  Text(t) = str /\ TextEnds(t.text)
<1>. DEFINE place == t.text
            n == Len(str)
<1>1. /\ str \in Seq(Char \ {NUL}) /\ n \in Nat
      /\ \A i \in 1 .. n : str[i] # NUL
      /\ \A i \in 1 .. n : Cell(place, i - 1) \in DOMAIN heap /\ heap[Cell(place, i - 1)] = str[i]
      /\ Cell(place, n) \in DOMAIN heap /\ heap[Cell(place, n)] = NUL
  BY DEF HoldsText, StringAt
<1>2. PICK b \in 1 .. Len(blocks) :
        blocks[b].region = place.region /\ blocks[b].at = place.at /\ n < blocks[b].size
  BY DEF HoldsText
<1>3. /\ blocks[b] \in BlockSet /\ blocks[b].region \in 1 .. Len(regions)
      /\ blocks[b].at + blocks[b].size <= regions[blocks[b].region].length
      /\ regions[blocks[b].region] \in RegionSet
  BY DEF ArenaInv, ArenaTypeOK, BlocksApart, InRegion, End
<1>. DEFINE length == regions[place.region].length
<1>4. place.at \in Nat /\ length \in 0 .. SIZE_LIMIT - 1 /\ blocks[b].size \in Nat
      /\ place.at + blocks[b].size <= length /\ SIZE_LIMIT \in Nat
  BY <1>2, <1>3, ArenaAssumption DEF BlockSet, RegionSet
<1>. HIDE DEF place, n, length
<1>5. n \in 0 .. length /\ n \in 0 .. SIZE_LIMIT
  BY <1>1, <1>2, <1>4
<1>6. IsString(place, n)
  <2>1. ASSUME NEW i \in 0 .. n - 1
        PROVE  Cell(place, i) \in DOMAIN heap /\ heap[Cell(place, i)] # NUL
    <3>1. PICK j \in 1 .. n : j - 1 = i
      <4>1. i + 1 \in 1 .. n /\ (i + 1) - 1 = i
        BY <1>1
      <4>. QED  BY <4>1
    <3>. QED  BY <1>1, <3>1
  <2>2. \A i \in 0 .. n : i = n \/ i \in 0 .. n - 1
    BY <1>1
  <2>. QED  BY <1>1, <2>1, <2>2 DEF IsString, Cell
<1>7. ASSUME NEW m \in 0 .. length, IsString(place, m)
      PROVE  m = n
  <2>1. m \in Nat
    BY <1>4
  <2>2. CASE m < n
    <3>1. m \in 0 .. n - 1
      BY <1>1, <2>1, <2>2
    <3>. QED  BY <1>6, <1>7, <3>1 DEF IsString
  <2>3. CASE n < m
    <3>1. n \in 0 .. m - 1
      BY <1>1, <2>1, <2>3
    <3>. QED  BY <1>6, <1>7, <3>1 DEF IsString
  <2>. QED  BY <1>1, <2>1, <2>2, <2>3
<1>8. n = CHOOSE m \in 0 .. length : IsString(place, m)
  BY <1>5, <1>6, <1>7
<1>9. Text(t) = [i \in 1 .. n |-> heap[<<place.region, place.at + i - 1>>]]
  BY <1>8 DEF Text, place, length
<1>10. \A i \in 1 .. n : heap[<<place.region, place.at + i - 1>>] = str[i]
  <2>. SUFFICES ASSUME NEW i \in 1 .. n
                PROVE  heap[<<place.region, place.at + i - 1>>] = str[i]
    OBVIOUS
  <2>1. place.at + i - 1 = place.at + (i - 1)
    BY <1>1, <1>4
  <2>. QED  BY <1>1, <2>1 DEF Cell
<1>11. str = [i \in 1 .. n |-> str[i]]
  BY <1>1 DEF n
<1>12. Text(t) = str
  BY <1>9, <1>10, <1>11
<1>13. TextEnds(place)
  <2>1. [region |-> blocks[b].region, at |-> blocks[b].at] = place
    BY <1>2 DEF place
  <2>. QED  BY <1>2, <1>5, <1>6, <2>1 DEF TextEnds
<1>. QED  BY <1>12, <1>13 DEF place

\* What its readers see of a string: a text, all of it if there is no NUL in it.
LEMMA CStringIs ==
  ASSUME NEW str \in Seq(Char)
  PROVE  /\ CString(str) \in Seq(Char \ {NUL})
         /\ Len(CString(str)) = RunEnd(str, 0, Char \ {NUL})
         /\ Len(CString(str)) \in 0 .. Len(str)
         /\ \A i \in 1 .. Len(CString(str)) : CString(str)[i] = str[i]
         /\ Len(CString(str)) = Len(str) \/ str[Len(CString(str)) + 1] = NUL
         /\ (\A i \in 1 .. Len(str) : str[i] # NUL) => CString(str) = str
<1>1. PICK e, text, n : /\ e = RunEnd(str, 0, Char \ {NUL})
                        /\ text = CString(str) /\ n = Len(str)
  OBVIOUS
<1>2. n \in Nat /\ 0 \in 0 .. Len(str)
  BY <1>1
<1>3. /\ e \in 0 .. n /\ \A i \in 0 + 1 .. e : str[i] \in Char \ {NUL}
      /\ e = n \/ str[e + 1] \notin Char \ {NUL}
  BY <1>1, <1>2, RunEnds
<1>4. text = SubSeq(str, 1, e)
  BY <1>1 DEF CString
<1>5. text \in Seq(Char) /\ Len(text) = e /\ \A i \in 1 .. e : text[i] = str[i]
  <2>1. e \in Int /\ 1 \in Int /\ e >= 0 /\ \A i \in 1 .. e : str[i] \in Char
    BY <1>2, <1>3
  <2>2. /\ text \in Seq(Char)
        /\ Len(text) = IF 1 <= e THEN e - 1 + 1 ELSE 0
        /\ \A i \in 1 .. e - 1 + 1 : text[i] = str[1 + i - 1]
    BY ONLY <1>4, <2>1, SubSeqProperties
  <2>. QED  BY <2>1, <2>2
<1>6. text \in Seq(Char \ {NUL})
  <2>1. \A i \in 1 .. e : text[i] \in Char \ {NUL}
    BY <1>3, <1>5
  <2>. QED  BY <1>3, <1>5, <2>1
<1>7. e = n \/ str[e + 1] = NUL
  <2>1. ASSUME e # n
        PROVE  e + 1 \in 1 .. Len(str)
    BY <1>1, <1>2, <1>3, <2>1
  <2>. QED  BY <1>3, <2>1
<1>8. ASSUME \A i \in 1 .. n : str[i] # NUL
      PROVE  text = str
  <2>1. e = n
    <3>1. e # n => e + 1 \in 1 .. n
      BY <1>2, <1>3
    <3>. QED  BY <1>7, <1>8, <3>1
  <2>. QED  BY <1>1, <1>5, <2>1, SeqEqual
<1>. QED  BY <1>1, <1>3, <1>5, <1>6, <1>7, <1>8

\* Writing a string leaves the rest of the memory, and leads to a text that is
\* the string up to its first NUL.
Cells(place, n) == {Cell(place, i) : i \in 0 .. n}

LEMMA Writing ==
  ASSUME NEW memory, NEW place, place.at \in Nat, NEW str \in Seq(Char)
  PROVE  /\ \A a \in DOMAIN memory : a \notin Cells(place, Len(str)) =>
              a \in DOMAIN Write(place, str, memory) /\ Write(place, str, memory)[a] = memory[a]
         /\ StringAt(Write(place, str, memory), place, CString(str))
<1>. DEFINE m == Write(place, str, memory)
            ended == Append(str, NUL)
            end == place.at + Len(ended) - 1
            cells == {<<place.region, i>> : i \in place.at .. end}
            n == Len(str)
<1>1. m = [a \in cells \cup DOMAIN memory |->
             IF a \in cells THEN ended[a[2] - place.at + 1] ELSE memory[a]]
  BY DEF Write, Ended
<1>2. /\ n \in Nat /\ Len(ended) = n + 1 /\ ended[n + 1] = NUL
      /\ \A i \in 1 .. n : ended[i] = str[i]
  BY CharAssumption
<1>. HIDE DEF ended
<1>3. cells = Cells(place, n)
  <2>1. end = place.at + n
    BY <1>2
  <2>2. ASSUME NEW i \in place.at .. end
        PROVE  i - place.at \in 0 .. n /\ place.at + (i - place.at) = i
    BY <1>2, <2>1
  <2>3. ASSUME NEW i \in 0 .. n
        PROVE  place.at + i \in place.at .. end
    BY <1>2, <2>1
  <2>. HIDE DEF end, n
  <2>. QED  BY <2>2, <2>3 DEF Cells, Cell
<1>. HIDE DEF cells, m, n
<1>4. ASSUME NEW i \in 0 .. n
      PROVE  Cell(place, i) \in DOMAIN m /\ m[Cell(place, i)] = ended[i + 1]
  <2>1. Cell(place, i) \in cells
    BY <1>3 DEF Cells
  <2>2. Cell(place, i)[2] - place.at + 1 = i + 1
    BY <1>2 DEF Cell
  <2>. QED  BY <1>1, <2>1, <2>2
<1>5. \A a \in DOMAIN memory : a \notin Cells(place, n) => a \in DOMAIN m /\ m[a] = memory[a]
  BY <1>1, <1>3
<1>6. PICK text, e : text = CString(str) /\ e = Len(text)
  OBVIOUS
<1>7. /\ text \in Seq(Char \ {NUL}) /\ e \in 0 .. n /\ \A i \in 1 .. e : text[i] = str[i]
      /\ e = n \/ str[e + 1] = NUL
  BY <1>6, CStringIs DEF n
<1>8. e \in 0 .. n /\ e + 1 \in 1 .. n + 1 /\ (e # n => e + 1 \in 1 .. n)
  BY <1>2, <1>7
<1>9. ended[e + 1] = NUL
  BY <1>2, <1>7, <1>8
<1>10. Len(text) = e /\ \A i \in 1 .. e : text[i] = ended[i]
  BY <1>2, <1>6, <1>7
<1>11. StringAt(m, place, text)
  <2>1. ASSUME NEW i \in 1 .. e
        PROVE  Cell(place, i - 1) \in DOMAIN m /\ m[Cell(place, i - 1)] = text[i]
    <3>1. i - 1 \in 0 .. n /\ i - 1 + 1 = i
      BY <1>2, <1>8
    <3>. QED  BY <1>4, <1>10, <3>1
  <2>2. Cell(place, e) \in DOMAIN m /\ m[Cell(place, e)] = NUL
    BY <1>4, <1>8, <1>9
  <2>. QED  BY <1>10, <2>1, <2>2 DEF StringAt
<1>. QED  BY <1>5, <1>6, <1>11 DEF m, n
\* What arena_alloc returns.
NewBlock(size) == [region |-> PlaceFor(size).region, at |-> PlaceFor(size).at, size |-> size]

LEMMA Allocated ==
  ASSUME ArenaInv, NEW size, FitsSize(size), arena_alloc(size)
  PROVE  /\ ArenaInv'
         /\ PlaceFor(size) \in [region : Nat \ {0}, at : Nat]
         /\ Len(blocks) \in Nat /\ Len(blocks') = Len(blocks) + 1
         /\ blocks'[Len(blocks) + 1] = NewBlock(size)
         /\ \A b \in 1 .. Len(blocks) : /\ blocks'[b] = blocks[b] /\ blocks[b] \in BlockSet
                                        /\ Apart(blocks[b], NewBlock(size))
<1>1. ArenaInv'
  BY AllocKeeps
<1>2. PlaceFor(size).region \in Nat \ {0} /\ PlaceFor(size).at \in Nat
  BY Placing DEF ArenaInv, arena_alloc, PlacedRight
<1>3. PlaceFor(size) \in [region : Nat \ {0}, at : Nat]
  BY <1>2 DEF PlaceFor
<1>. DEFINE n == Len(blocks)
            new == NewBlock(size)
<1>4. blocks' = Append(blocks, new) /\ blocks \in Seq(BlockSet)
  BY DEF arena_alloc, NewBlock, ArenaInv, ArenaTypeOK
<1>. HIDE DEF new
<1>5. /\ n \in Nat /\ Len(blocks') = n + 1 /\ blocks'[n + 1] = new
      /\ \A b \in 1 .. n : blocks'[b] = blocks[b] /\ blocks[b] \in BlockSet
  BY <1>4
<1>. HIDE DEF n
<1>6. \A b \in 1 .. n : Apart(blocks'[b], blocks'[n + 1])
  <2>1. \A b \in 1 .. n : b \in 1 .. n + 1 /\ n + 1 \in 1 .. n + 1 /\ b # n + 1
    BY <1>5
  <2>2. \A i, j \in 1 .. n + 1 : i # j => Apart(blocks[i], blocks[j])'
    BY <1>1, <1>5 DEF ArenaInv, BlocksApart
  <2>. QED  BY <2>1, <2>2 DEF Apart, End
<1>. QED  BY <1>1, <1>3, <1>5, <1>6 DEF n, new

\* An allocation and what is written to its block leave the other texts.
LEMMA TextStays ==
  ASSUME ArenaInv, NEW size, FitsSize(size), arena_alloc(size),
         NEW n \in 0 .. size - 1,
         \A a \in DOMAIN heap : a \notin Cells(PlaceFor(size), n) =>
            a \in DOMAIN heap' /\ heap'[a] = heap[a],
         NEW place, NEW str, HoldsText(place, str)
  PROVE  HoldsText(place, str)'
<1>. DEFINE new == PlaceFor(size)
<1>1. PICK b \in 1 .. Len(blocks) :
        blocks[b].region = place.region /\ blocks[b].at = place.at /\ Len(str) < blocks[b].size
  BY DEF HoldsText
<1>2. /\ blocks'[b] = blocks[b] /\ blocks[b] \in BlockSet /\ b \in 1 .. Len(blocks')
      /\ Apart(blocks[b], NewBlock(size)) /\ new \in [region : Nat \ {0}, at : Nat]
  BY Allocated
<1>3. /\ str \in Seq(Char \ {NUL}) /\ Len(str) \in Nat /\ StringAt(heap, place, str)
      /\ place.at \in Nat /\ blocks[b].size \in Nat /\ new.at \in Nat /\ size \in Nat
  BY <1>1, <1>2 DEF HoldsText, BlockSet, FitsSize
<1>. HIDE DEF new
<1>4. place.region = new.region =>
        place.at + blocks[b].size <= new.at \/ new.at + size <= place.at
  BY <1>1, <1>2 DEF Apart, End, NewBlock, new
<1>5. ASSUME NEW i \in 0 .. Len(str)
      PROVE  Cell(place, i) \notin Cells(new, n)
  <2>. SUFFICES ASSUME NEW k \in 0 .. n, Cell(place, i) = Cell(new, k)
                PROVE  FALSE
    BY DEF Cells
  <2>1. place.region = new.region /\ place.at + i = new.at + k
    BY DEF Cell
  <2>2. PICK p, q, s : p = place.at /\ q = new.at /\ s = blocks[b].size
    OBVIOUS
  <2>3. i \in Nat /\ i < s /\ k \in Nat /\ k < size
    BY <1>1, <1>3, <2>2
  <2>4. p \in Nat /\ q \in Nat /\ s \in Nat /\ p + i = q + k
        /\ (p + s <= q \/ q + size <= p)
    BY <1>3, <1>4, <2>1, <2>2
  <2>. QED  BY <1>3, <2>3, <2>4
<1>6. ASSUME NEW i \in 0 .. Len(str), Cell(place, i) \in DOMAIN heap
      PROVE  Cell(place, i) \in DOMAIN heap' /\ heap'[Cell(place, i)] = heap[Cell(place, i)]
  BY <1>5, <1>6 DEF new
<1>7. \A i \in 1 .. Len(str) : i - 1 \in 0 .. Len(str)
  BY <1>3
<1>8. Len(str) \in 0 .. Len(str)
  BY <1>3
<1>9. StringAt(heap', place, str)
  BY <1>3, <1>6, <1>7, <1>8 DEF StringAt
<1>. QED  BY <1>1, <1>2, <1>3, <1>9 DEF HoldsText

\* So does a step that allocates nothing.
LEMMA TextKept ==
  ASSUME UNCHANGED <<blocks, heap>>, NEW place, NEW str, HoldsText(place, str)
  PROVE  HoldsText(place, str)'
BY DEF HoldsText

\* The text at a place is what is left of a string, which its first NUL ends.
HoldsStart(place, string) == HoldsText(place, CString(string))

\* The text that a push writes to a block of its own, and what becomes of others.
LEMMA TextPushed ==
  ASSUME ArenaInv, NEW text \in Seq(Char), NEW final \in Seq(Char), Len(final) <= Len(text),
         SizeOf(text) = Len(text) + 2, FitsSize(SizeOf(text)), arena_alloc(SizeOf(text)),
         \/ heap' = Write(PlaceFor(SizeOf(text)), final, heap)
         \/ heap' = Write(PlaceFor(SizeOf(text)), final, Write(PlaceFor(SizeOf(text)), text, heap))
  PROVE  /\ \A place, str : HoldsText(place, str) => HoldsText(place, str)'
         /\ \A place : place = PlaceFor(SizeOf(text)) => HoldsStart(place, final)'
<1>. DEFINE size == SizeOf(text)
            new == PlaceFor(size)
            n == Len(text)
            k == Len(final)
<1>1. /\ new \in [region : Nat \ {0}, at : Nat]
      /\ Len(blocks) \in Nat /\ Len(blocks') = Len(blocks) + 1
      /\ blocks'[Len(blocks) + 1] = NewBlock(size)
  BY Allocated
<1>2. new.at \in Nat /\ n \in Nat /\ k \in Nat /\ k <= n /\ size = n + 2
  BY <1>1
<1>. HIDE DEF new, size, n, k
<1>3. Cells(new, k) \subseteq Cells(new, n)
  <2>1. 0 .. k \subseteq 0 .. n
    BY <1>2
  <2>. QED  BY <2>1 DEF Cells
<1>4. PICK memory : /\ heap' = Write(new, final, memory)
                    /\ \A a \in DOMAIN heap : a \notin Cells(new, n) =>
                          a \in DOMAIN memory /\ memory[a] = heap[a]
  <2>1. CASE heap' = Write(new, final, heap)
    BY <2>1
  <2>2. CASE heap' = Write(new, final, Write(new, text, heap))
    <3>1. \A a \in DOMAIN heap : a \notin Cells(new, n) =>
            a \in DOMAIN Write(new, text, heap) /\ Write(new, text, heap)[a] = heap[a]
      BY <1>2, Writing DEF n
    <3>. QED  BY <2>2, <3>1
  <2>. QED  BY <2>1, <2>2 DEF new, size
<1>5. /\ \A a \in DOMAIN memory : a \notin Cells(new, k) => a \in DOMAIN heap' /\ heap'[a] = memory[a]
      /\ StringAt(heap', new, CString(final))
  BY <1>2, <1>4, Writing DEF k
<1>6. \A a \in DOMAIN heap : a \notin Cells(new, n) => a \in DOMAIN heap' /\ heap'[a] = heap[a]
  BY <1>3, <1>4, <1>5
<1>7. n \in 0 .. size - 1
  BY <1>2
<1>8. \A place, str : HoldsText(place, str) => HoldsText(place, str)'
  BY <1>6, <1>7, TextStays DEF new, size
<1>9. PICK str \in Seq(Char \ {NUL}) :
        str = CString(final) /\ Len(str) <= k /\ StringAt(heap', new, str)
  BY <1>2, <1>5, CStringIs DEF k
<1>10. \A place : place = new => HoldsText(place, str)'
  <2>. DEFINE b == Len(blocks) + 1
  <2>1. b \in 1 .. Len(blocks') /\ blocks'[b].region = new.region /\ blocks'[b].at = new.at
        /\ blocks'[b].size = size
    BY <1>1 DEF NewBlock, new
  <2>2. Len(str) < size
    <3>1. Len(str) \in Nat
      OBVIOUS
    <3>. QED  BY <1>2, <1>9, <3>1
  <2>. HIDE DEF b
  <2>3. \E c \in 1 .. Len(blocks') : /\ blocks'[c].region = new.region /\ blocks'[c].at = new.at
                                     /\ Len(str) < blocks'[c].size
    BY <2>1, <2>2
  <2>. QED  BY <1>9, <2>3 DEF HoldsText
<1>11. \A place : place = new => HoldsStart(place, final)'
  BY <1>9, <1>10 DEF HoldsStart
<1>. QED  BY <1>8, <1>11 DEF new, size
-----------------------------------------------------------------------------
\* The block of the array is as large as its capacity says, and holds the tokens.
RoomRight ==
  /\ capacity \in Nat \ {0}
  /\ bytes = capacity * TOKEN_BYTES
  /\ Len(tokens) <= capacity

\* Doubling keeps that as long as the tokens are so few that no size wraps around.
LEMMA RoomKept ==
  ASSUME RoomRight, MakeRoom, Len(tokens) \in Nat, Len(tokens') = Len(tokens) + 1,
         NEW M \in Nat, Len(tokens) + 1 <= M, 2 * M * TOKEN_BYTES < SIZE_LIMIT
  PROVE  RoomRight'
<1>1. CASE ~ IsFull
  BY <1>1 DEF RoomRight, MakeRoom, IsFull
<1>2. CASE IsFull
  <2>. DEFINE c == capacity * CAPACITY_MULTIPLIER
  <2>1. /\ capacity' = c % SIZE_LIMIT /\ bytes' = (capacity' * TOKEN_BYTES) % SIZE_LIMIT
        /\ capacity = Len(tokens) /\ capacity \in Nat \ {0}
    BY <1>2 DEF MakeRoom, IsFull, RoomRight
  <2>2. c \in Nat /\ c = 2 * capacity /\ c <= 2 * M /\ Len(tokens) + 1 <= c
    BY <2>1 DEF CAPACITY_MULTIPLIER
  <2>. HIDE DEF c
  <2>3. TOKEN_BYTES \in Nat \ {0} /\ SIZE_LIMIT \in Nat
    BY TokenArrayAssumption, ArenaAssumption
  <2>4. \A x, y, z \in Nat : x <= y => x * z <= y * z
    OBVIOUS
  <2>5. c * TOKEN_BYTES <= 2 * M * TOKEN_BYTES /\ c * TOKEN_BYTES \in Nat
    <3>1. 2 * M \in Nat
      OBVIOUS
    <3>. QED  BY <2>2, <2>3, <2>4, <3>1
  <2>6. c * TOKEN_BYTES < SIZE_LIMIT
    <3>1. 2 * M * TOKEN_BYTES \in Nat
      BY <2>3
    <3>. QED  BY <2>3, <2>5, <3>1
  <2>7. c <= c * TOKEN_BYTES
    <3>1. c * 1 <= c * TOKEN_BYTES
      BY <2>2, <2>3
    <3>. QED  BY <2>2, <3>1
  <2>8. c \in 0 .. SIZE_LIMIT - 1 /\ c * TOKEN_BYTES \in 0 .. SIZE_LIMIT - 1
    BY <2>2, <2>3, <2>5, <2>6, <2>7
  <2>9. capacity' = c
    BY <2>1, <2>3, <2>8
  <2>10. \A x \in 0 .. SIZE_LIMIT - 1 : x % SIZE_LIMIT = x
    BY <2>3
  <2>11. bytes' = c * TOKEN_BYTES
    BY <2>1, <2>8, <2>9, <2>10
  <2>12. c # 0
    BY <2>2
  <2>. QED  BY <2>2, <2>9, <2>11, <2>12 DEF RoomRight
<1>. QED  BY <1>1, <1>2

-----------------------------------------------------------------------------
(***************************************************************************)
(* The lines that are read, and the room for their texts.                  *)
(***************************************************************************)

LEMMA Constants ==
  /\ MAX_LINE_BUFFER \in Nat /\ MAX_LINE_BUFFER > 1
  /\ SIZE_LIMIT \in Nat /\ POINTER_SIZE \in Nat
  /\ MAX_LINE_BUFFER + 1 + POINTER_SIZE <= SIZE_LIMIT
BY FileReaderAssumption, ArenaAssumption, LineAssumption

-----------------------------------------------------------------------------
ReaderInv ==
  /\ file \in Seq(Char)
  /\ offset \in 0 .. Len(file)
  /\ line_buffer \in Seq(Char)
  /\ Len(line_buffer) < MAX_LINE_BUFFER

\* The inductive invariant: a line fits its buffer, and the texts are apart.
LexInv ==
  /\ ReaderInv
  /\ pos \in Nat
  /\ ArenaInv

\* fgets stops inside the file, leaves room for the NUL, and stops early only
\* at a newline.
LEMMA FgetsStops ==
  ASSUME ReaderInv
  PROVE  /\ fgets_end \in offset .. Len(file)
         /\ fgets_end - offset < MAX_LINE_BUFFER
         /\ \A i \in offset + 1 .. fgets_end - 1 : file[i] # "\n"
         /\ \/ fgets_end = Len(file)
            \/ fgets_end - offset = MAX_LINE_BUFFER - 1
            \/ fgets_end > offset /\ file[fgets_end] = "\n"
<1>. DEFINE IsStop(e) == \/ e = Len(file)
                         \/ e - offset = fgets_size - 1
                         \/ e > offset /\ file[e] = "\n"
            Stops == {e \in offset .. Len(file) : IsStop(e)}
            IsEnd(e) == /\ \A i \in offset + 1 .. e - 1 : file[i] # "\n"
                        /\ e - offset <= fgets_size - 1
                        /\ IsStop(e)
<1>1. /\ Len(file) \in Nat /\ offset \in Nat /\ offset <= Len(file)
      /\ fgets_size \in Nat /\ fgets_size > 1 /\ fgets_size = MAX_LINE_BUFFER
  BY Constants DEF ReaderInv, fgets_size
<1>2. Len(file) \in Stops /\ Stops \subseteq Nat
  BY <1>1
<1>3. PICK e \in Stops : \A d \in Stops : e <= d
  <2>. HIDE DEF Stops
  <2>. QED  BY <1>2, Least
<1>4. e \in offset .. Len(file) /\ IsStop(e)
  OBVIOUS
<1>5. ASSUME NEW i \in offset + 1 .. e - 1
      PROVE  file[i] # "\n"
  <2>1. i \in offset .. Len(file) /\ i > offset /\ i \in Int /\ e \in Int /\ ~ (e <= i)
    BY <1>1, <1>4
  <2>2. i \notin Stops
    <3>. HIDE DEF Stops
    <3>. QED  BY <1>3, <2>1
  <2>. QED  BY <2>1, <2>2
<1>6. e - offset <= fgets_size - 1
  <2>. SUFFICES ASSUME e - offset > fgets_size - 1
                PROVE  FALSE
    BY <1>1, <1>4
  <2>. DEFINE d == offset + fgets_size - 1
  <2>1. d \in offset .. Len(file) /\ d - offset = fgets_size - 1 /\ ~ (e <= d)
    BY <1>1, <1>4
  <2>2. d \in Stops
    BY <2>1
  <2>. HIDE DEF Stops, d
  <2>. QED  BY <1>3, <2>1, <2>2
<1>7. \E d \in offset .. Len(file) : IsEnd(d)
  BY <1>4, <1>5, <1>6
<1>8. fgets_end = CHOOSE d \in offset .. Len(file) : IsEnd(d)
  BY DEF fgets_end
<1>. HIDE DEF IsEnd
<1>9. fgets_end \in offset .. Len(file) /\ IsEnd(fgets_end)
  BY <1>7, <1>8
<1>10. /\ \A i \in offset + 1 .. fgets_end - 1 : file[i] # "\n"
       /\ fgets_end - offset <= fgets_size - 1
       /\ \/ fgets_end = Len(file)
          \/ fgets_end - offset = fgets_size - 1
          \/ fgets_end > offset /\ file[fgets_end] = "\n"
  BY <1>9 DEF IsEnd
<1>. QED  BY <1>1, <1>9, <1>10

LEMMA FgetsFits ==
  ASSUME ReaderInv
  PROVE  /\ fgets_result \in Seq(Char)
         /\ Len(fgets_result) = fgets_end - offset
         /\ Len(fgets_result) < MAX_LINE_BUFFER
         /\ \A i \in 1 .. Len(fgets_result) : fgets_result[i] = file[offset + i]
<1>1. /\ fgets_end \in offset .. Len(file) /\ fgets_end - offset < MAX_LINE_BUFFER
      /\ Len(file) \in Nat /\ offset \in Nat
  BY FgetsStops DEF ReaderInv
<1>2. offset + 1 \in Int /\ fgets_end \in Int
  BY <1>1
<1>3. \A i \in offset + 1 .. fgets_end : file[i] \in Char
  BY <1>1 DEF ReaderInv
<1>4. /\ SubSeq(file, offset + 1, fgets_end) \in Seq(Char)
      /\ Len(SubSeq(file, offset + 1, fgets_end))
           = IF offset + 1 <= fgets_end THEN fgets_end - (offset + 1) + 1 ELSE 0
      /\ \A i \in 1 .. fgets_end - (offset + 1) + 1 :
            SubSeq(file, offset + 1, fgets_end)[i] = file[offset + 1 + i - 1]
  BY ONLY <1>2, <1>3, SubSeqProperties
<1>. QED  BY <1>1, <1>4, Constants DEF fgets_result

\* The text of a token of the line fits a size with its NULs and its padding.
LEMMA TextFits ==
  ASSUME LexInv, NEW from \in Nat, NEW upto \in 0 .. Length
  PROVE  FitsSize(SizeOf(Slice(from, upto))) /\ Len(Slice(from, upto)) \in Nat
<1>. DEFINE text == Slice(from, upto)
<1>1. Length \in Nat /\ Length < MAX_LINE_BUFFER
  BY Constants DEF LexInv, ReaderInv, Length
<1>2. from + 1 \in Int /\ upto \in Int
  BY <1>1
<1>3. \A i \in from + 1 .. upto : line_buffer[i] \in Char
  BY <1>1 DEF LexInv, ReaderInv, Length
<1>4. Len(SubSeq(line_buffer, from + 1, upto))
        = IF from + 1 <= upto THEN upto - (from + 1) + 1 ELSE 0
  BY ONLY <1>2, <1>3, SubSeqProperties
<1>5. Len(text) \in Nat /\ Len(text) < MAX_LINE_BUFFER
  BY <1>1, <1>4, Constants DEF Slice
<1>. HIDE DEF text
<1>6. Len(text) + 2 \in 0 .. SIZE_LIMIT - 1 /\ Len(text) + 2 + POINTER_SIZE <= SIZE_LIMIT
  BY <1>5, Constants, ArenaAssumption
<1>7. (Len(text) + 2) % SIZE_LIMIT = Len(text) + 2
  BY <1>6, Constants
<1>. QED  BY <1>5, <1>6, <1>7 DEF SizeOf, FitsSize, text

-----------------------------------------------------------------------------
LEMMA ArenaKept ==
  ASSUME ArenaInv, UNCHANGED arenaVars
  PROVE  ArenaInv'
BY DEF ArenaInv, ArenaTypeOK, RegionsRight, BlocksApart, InRegion, Aligned, Apart, End, arenaVars

LEMMA PushKeeps ==
  ASSUME LexInv, NEW type, NEW from \in Nat, NEW upto \in 0 .. Length,
         PushSimple(type, from, upto) \/ Push(type, from, upto) \/ PushString(from, upto)
  PROVE  ArenaInv'
<1>1. CASE UNCHANGED arenaVars
  BY <1>1, ArenaKept DEF LexInv
<1>2. CASE arena_alloc(SizeOf(Slice(from, upto)))
  BY <1>2, TextFits, AllocKeeps DEF LexInv
<1>. QED
  BY <1>1, <1>2 DEF PushSimple, Push, PushString, NoMemory, token_array_push_simple,
     token_array_push, token_array_clean_and_push_string, arrayVars

\* The steps within a line.
LEMMA ScanKeeps ==
  ASSUME LexInv, UNCHANGED readerVars, pos' \in Nat, ArenaInv'
  PROVE  LexInv'
BY DEF LexInv, ReaderInv, readerVars

LEMMA RunFromEnds ==
  ASSUME LexInv, pos < Length, NEW chars
  PROVE  RunFrom(chars) \in 0 .. Length
<1>1. line_buffer \in Seq(Char) /\ pos \in 0 .. Len(line_buffer)
  BY DEF LexInv, ReaderInv, Length
<1>2. RunEnd(line_buffer, pos, chars) \in pos .. Len(line_buffer)
  BY <1>1, RunEnds
<1>. QED  BY <1>1, <1>2 DEF RunFrom, Length

\* Reading a line keeps what the reader promises.
LEMMA ReadKeeps ==
  ASSUME ReaderInv, ReadLine \/ EndOfFile \/ LineTooBig \/ CantRead
  PROVE  ReaderInv'
<1>1. fgets_end \in 0 .. Len(file)
  BY FgetsStops DEF ReaderInv
<1>2. fgets_result \in Seq(Char) /\ Len(fgets_result) < MAX_LINE_BUFFER
  BY FgetsFits
<1>3. /\ strip_trailing_newlines(fgets_result) \in Seq(Char)
      /\ Len(strip_trailing_newlines(fgets_result)) <= Len(fgets_result)
  BY <1>2, Strips
<1>4. CASE ReadLine
  <2>1. Len(strip_trailing_newlines(fgets_result)) < MAX_LINE_BUFFER
    BY <1>2, <1>3, Constants
  <2>. QED  BY <1>1, <1>3, <1>4, <2>1 DEF ReadLine, ReaderInv
<1>5. CASE EndOfFile
  BY <1>5, Constants DEF EndOfFile, ReaderInv
<1>6. CASE LineTooBig
  BY <1>1, <1>2, <1>6 DEF LineTooBig, ReaderInv
<1>7. CASE CantRead
  BY <1>7 DEF CantRead, ReaderInv
<1>. QED  BY <1>4, <1>5, <1>6, <1>7

-----------------------------------------------------------------------------
LineEnds(n) == {i \in 1 .. n : file[i] = "\n"}

\* The line buffer shows the part of the file that begins at begin, up to its
\* newlines, and the line counter counts them.
LineInv ==
  /\ \A i \in 1 .. Len(file) : file[i] # NUL
  /\ begin \in Nat /\ begin + Length <= offset
  /\ begin = 0 \/ file[begin] = "\n"
  /\ \A i \in 1 .. Length : line_buffer[i] = file[begin + i] /\ line_buffer[i] # "\n"
  /\ status = "running" =>
       /\ \A i \in begin + Length + 1 .. offset : file[i] \in NEWLINES
       /\ ~ eof => /\ offset = 0 \/ file[offset] = "\n"
                   /\ line = Cardinality(LineEnds(offset))
       /\ Length # 0 => line = Cardinality(LineEnds(begin)) + 1
       /\ Length # 0 /\ begin + Length = offset => offset = Len(file)

\* How the reader finds the end of a line.
LEMMA LineEndsAt ==
  ASSUME ReaderInv, LineInv, ~ Truncated
  PROVE  \/ /\ EndsInNewline /\ fgets_end > offset /\ file[fgets_end] = "\n"
            /\ ~ feof_after
         \/ /\ feof_after /\ fgets_end = Len(file)
            /\ \A i \in offset + 1 .. fgets_end : file[i] # "\n"
<1>1. /\ offset \in Nat /\ fgets_end \in Nat /\ fgets_end >= offset
      /\ Len(fgets_result) = fgets_end - offset
      /\ Len(fgets_result) < MAX_LINE_BUFFER /\ fgets_result \in Seq(Char)
  BY FgetsStops, FgetsFits DEF ReaderInv
<1>2. CASE EndsInNewline
  BY <1>1, <1>2 DEF EndsInNewline, feof_after
<1>3. CASE ~ EndsInNewline
  <2>1. fgets_end > offset => file[fgets_end] # "\n"
    BY <1>1, <1>3 DEF EndsInNewline
  <2>2. feof_after
    BY <1>1, <1>3, Constants DEF Truncated, feof_after, fgets_size
  <2>3. fgets_end = Len(file)
    BY <1>1, <2>1, <2>2, FgetsStops, Constants DEF feof_after, fgets_size
  <2>4. \A i \in offset + 1 .. fgets_end : file[i] # "\n"
    BY <1>1, <2>1, FgetsStops
  <2>. QED  BY <2>2, <2>3, <2>4
<1>. QED  BY <1>2, <1>3

\* Between n and e, the newline at e is the only one.
LEMMA OneLineEnd ==
  ASSUME NEW n \in Nat, NEW e \in Nat, n < e, file[e] = "\n",
         \A i \in n + 1 .. e - 1 : file[i] # "\n"
  PROVE  /\ Cardinality(LineEnds(n)) \in Nat
         /\ Cardinality(LineEnds(e)) = Cardinality(LineEnds(n)) + 1
<1>1. IsFiniteSet(LineEnds(n))
  <2>1. LineEnds(n) \subseteq 1 .. n /\ IsFiniteSet(1 .. n)
    BY FS_Interval DEF LineEnds
  <2>. QED  BY <2>1, FS_Subset
<1>2. LineEnds(e) = LineEnds(n) \cup {e}
  BY DEF LineEnds
<1>3. e \notin LineEnds(n)
  BY DEF LineEnds
<1>. QED  BY <1>1, <1>2, <1>3, FS_AddElement, FS_CardinalityType

LEMMA ReadingALine ==
  ASSUME ReaderInv, LineInv, status = "running", ReadLine
  PROVE  LineInv'
<1>. DEFINE e == fgets_end
            n == Len(strip_trailing_newlines(fgets_result))
<1>1. /\ offset \in Nat /\ e \in Nat /\ offset <= e /\ e <= Len(file) /\ Len(file) \in Nat
      /\ \A i \in offset + 1 .. e - 1 : file[i] # "\n"
  BY FgetsStops DEF ReaderInv
<1>2. /\ fgets_result \in Seq(Char) /\ Len(fgets_result) = e - offset
      /\ \A i \in 1 .. e - offset : fgets_result[i] = file[offset + i]
  BY FgetsFits
<1>3. /\ n \in 0 .. e - offset
      /\ \A i \in 1 .. n : strip_trailing_newlines(fgets_result)[i] = fgets_result[i]
      /\ \A i \in n + 1 .. e - offset : fgets_result[i] \in NEWLINES
      /\ n = 0 \/ fgets_result[n] \notin NEWLINES
  BY <1>2, Strips
<1>4. /\ ~ eof /\ ~ Truncated /\ file' = file /\ offset' = e /\ begin' = offset
      /\ eof' = feof_after /\ line_buffer' = strip_trailing_newlines(fgets_result)
      /\ line' = line + 1
  BY DEF ReadLine
<1>5. Length' = n
  BY <1>4 DEF Length
<1>6. /\ offset = 0 \/ file[offset] = "\n"
      /\ line = Cardinality(LineEnds(offset))
  BY <1>4 DEF LineInv
<1>7. \/ /\ e > offset /\ file[e] = "\n" /\ ~ feof_after
      \/ /\ feof_after /\ e = Len(file)
         /\ \A i \in offset + 1 .. e : file[i] # "\n"
  BY <1>4, LineEndsAt
<1>. HIDE DEF e, n
<1>8. n = e - offset /\ n # 0 => file[e] # "\n"
  BY <1>1, <1>2, <1>3 DEF NEWLINES
<1>9. \A i \in 1 .. n : line_buffer'[i] = file[offset + i] /\ file[offset + i] # "\n"
  <2>. SUFFICES ASSUME NEW i \in 1 .. n
                PROVE  line_buffer'[i] = file[offset + i] /\ file[offset + i] # "\n"
    OBVIOUS
  <2>1. line_buffer'[i] = file[offset + i]
    BY <1>2, <1>3, <1>4 DEF n
  <2>2. file[offset + i] # "\n"
    BY <1>1, <1>3, <1>7, <1>8
  <2>. QED  BY <2>1, <2>2
<1>10. \A i \in offset + n + 1 .. e : file[i] \in NEWLINES
  <2>. SUFFICES ASSUME NEW i \in offset + n + 1 .. e
                PROVE  file[i] \in NEWLINES
    OBVIOUS
  <2>1. i - offset \in n + 1 .. e - offset /\ i - offset \in 1 .. e - offset /\ offset + (i - offset) = i
    BY <1>1, <1>3
  <2>. QED  BY <1>2, <1>3, <2>1
<1>11. ~ feof_after => (e = 0 \/ file[e] = "\n") /\ line + 1 = Cardinality(LineEnds(e))
  BY <1>1, <1>6, <1>7, OneLineEnd
<1>12. n # 0 /\ offset + n = e => e = Len(file)
  BY <1>1, <1>3, <1>7, <1>8
<1>13. \A i \in 1 .. Len(file) : file[i] # NUL
  BY DEF LineInv
<1>14. \A k : {i \in 1 .. k : file'[i] = "\n"} = LineEnds(k)
  BY <1>4 DEF LineEnds
<1>. QED
  BY <1>1, <1>3, <1>4, <1>5, <1>6, <1>9, <1>10, <1>11, <1>12, <1>13, <1>14 DEF LineInv, LineEnds

\* The other outcomes of a read end the scan.
LEMMA ReadingNothing ==
  ASSUME ReaderInv, LineInv, status = "running", status' # "running",
         EndOfFile \/ LineTooBig \/ CantRead
  PROVE  LineInv'
<1>1. CASE EndOfFile
  BY <1>1 DEF EndOfFile, LineInv, Length, ReaderInv
<1>2. CASE LineTooBig
  <2>1. /\ offset \in Nat /\ fgets_end \in Nat /\ offset <= fgets_end
        /\ \A i \in offset + 1 .. fgets_end - 1 : file[i] # "\n"
        /\ Len(fgets_result) = fgets_end - offset /\ fgets_result \in Seq(Char)
        /\ \A i \in 1 .. fgets_end - offset : fgets_result[i] = file[offset + i]
    BY FgetsStops, FgetsFits DEF ReaderInv
  <2>2. fgets_end > offset => file[fgets_end] # "\n"
    BY <1>2, <2>1 DEF LineTooBig, Truncated, EndsInNewline
  <2>3. \A i \in 1 .. fgets_end - offset : fgets_result[i] # "\n"
    BY <2>1, <2>2
  <2>4. offset = 0 \/ file[offset] = "\n"
    BY <1>2 DEF LineTooBig, LineInv
  <2>. QED  BY <1>2, <2>1, <2>3, <2>4 DEF LineTooBig, LineInv, Length
<1>3. CASE CantRead
  BY <1>3 DEF CantRead, LineInv, Length
<1>. QED  BY <1>1, <1>2, <1>3

LEMMA ScanKeepsLine ==
  ASSUME LineInv, UNCHANGED readerVars, status' = "running" => status = "running"
  PROVE  LineInv'
BY DEF LineInv, readerVars, Length, LineEnds

-----------------------------------------------------------------------------
\* A string begins at its delimiter, and no word, number or operator goes on at
\* the place that is scanned next.
ScanInv ==
  /\ delim \in STRING_DELIMS \cup {"none"}
  /\ delim # "none" /\ pos < Length => line_buffer[pos + 1] = delim
  /\ status = "running" /\ delim = "none" /\ 0 < pos /\ pos < Length =>
       /\ line_buffer[pos] \in Letters => line_buffer[pos + 1] \notin VARIABLE_CHARS
       /\ line_buffer[pos] \in NUMERIC_CHARS => line_buffer[pos + 1] \notin NUMERIC_CHARS
       /\ line_buffer[pos] \in OPERATOR_CHARS => line_buffer[pos + 1] \notin OPERATOR_CHARS

\* The classes of characters.
LEMMA Classes ==
  /\ \A c \in Letters : c \notin WHITESPACE_CHARS \cup OPERATOR_CHARS \cup STRING_DELIMS
                                 \cup NUMERIC_CHARS \cup {"_"}
  /\ \A c \in NUMERIC_CHARS : c \notin WHITESPACE_CHARS \cup OPERATOR_CHARS \cup STRING_DELIMS
  /\ \A c \in OPERATOR_CHARS : c \notin WHITESPACE_CHARS \cup STRING_DELIMS \cup VARIABLE_CHARS
  /\ \A c \in STRING_DELIMS : c \notin WHITESPACE_CHARS \cup VARIABLE_CHARS
  /\ NEWLINES \subseteq WHITESPACE_CHARS
  /\ \A c \in WHITESPACE_CHARS : c \notin VARIABLE_CHARS \cup OPERATOR_CHARS \cup NUMERIC_CHARS
  /\ "none" \notin STRING_DELIMS
  /\ \A c \in NUMERIC_CHARS \cup Letters : c \in VARIABLE_CHARS
<1>1. \A c \in Letters : c \notin WHITESPACE_CHARS \cup OPERATOR_CHARS \cup STRING_DELIMS
                                  \cup NUMERIC_CHARS \cup {"_"}
  BY LexerAssumption
<1>2. \A c \in NUMERIC_CHARS : c \notin WHITESPACE_CHARS \cup OPERATOR_CHARS \cup STRING_DELIMS
  BY DEF NUMERIC_CHARS, WHITESPACE_CHARS, OPERATOR_CHARS, STRING_DELIMS
<1>3. \A c \in OPERATOR_CHARS : c \notin WHITESPACE_CHARS \cup STRING_DELIMS \cup NUMERIC_CHARS \cup {"_"}
  BY DEF NUMERIC_CHARS, WHITESPACE_CHARS, OPERATOR_CHARS, STRING_DELIMS
<1>4. \A c \in STRING_DELIMS : c \notin WHITESPACE_CHARS \cup NUMERIC_CHARS \cup {"_", "none"}
  BY DEF NUMERIC_CHARS, WHITESPACE_CHARS, STRING_DELIMS
<1>5. \A c \in WHITESPACE_CHARS : c \notin OPERATOR_CHARS \cup NUMERIC_CHARS \cup {"_"}
  BY DEF NUMERIC_CHARS, WHITESPACE_CHARS, OPERATOR_CHARS
<1>6. NEWLINES \subseteq WHITESPACE_CHARS
  BY DEF NEWLINES, WHITESPACE_CHARS
<1>. QED  BY <1>1, <1>2, <1>3, <1>4, <1>5, <1>6 DEF VARIABLE_CHARS

\* What a slice of the line is.
LEMMA SliceLength ==
  ASSUME LexInv, NEW from \in Nat, NEW upto \in from .. Length
  PROVE  /\ Slice(from, upto) \in Seq(Char)
         /\ Len(Slice(from, upto)) = upto - from
         /\ \A i \in 1 .. upto - from : Slice(from, upto)[i] = line_buffer[from + i]
<1>1. Length \in Nat /\ line_buffer \in Seq(Char) /\ Length = Len(line_buffer)
  BY DEF LexInv, ReaderInv, Length
<1>2. from + 1 \in Int /\ upto \in Int
  BY <1>1
<1>3. \A i \in from + 1 .. upto : line_buffer[i] \in Char
  BY <1>1
<1>4. /\ SubSeq(line_buffer, from + 1, upto) \in Seq(Char)
      /\ Len(SubSeq(line_buffer, from + 1, upto))
           = IF from + 1 <= upto THEN upto - (from + 1) + 1 ELSE 0
      /\ \A i \in 1 .. upto - (from + 1) + 1 :
            SubSeq(line_buffer, from + 1, upto)[i] = line_buffer[from + 1 + i - 1]
  BY ONLY <1>2, <1>3, SubSeqProperties
<1>. QED  BY <1>1, <1>4 DEF Slice

\* The scanner stops at the first character that is not of the run.
LEMMA Runs ==
  ASSUME LexInv, pos < Length, NEW chars, line_buffer[pos + 1] \in chars
  PROVE  /\ RunFrom(chars) \in pos + 1 .. Length
         /\ \A i \in pos + 1 .. RunFrom(chars) : line_buffer[i] \in chars
         /\ RunFrom(chars) < Length => line_buffer[RunFrom(chars) + 1] \notin chars
<1>1. line_buffer \in Seq(Char) /\ pos \in 0 .. Len(line_buffer) /\ pos < Len(line_buffer)
  BY DEF LexInv, ReaderInv, Length
<1>2. /\ RunFrom(chars) \in pos .. Length
      /\ \A i \in pos + 1 .. RunFrom(chars) : line_buffer[i] \in chars
      /\ RunFrom(chars) = Length \/ line_buffer[RunFrom(chars) + 1] \notin chars
  BY <1>1, RunEnds DEF RunFrom, Length
<1>3. RunFrom(chars) # pos
  BY <1>1, <1>2 DEF Length
<1>. QED  BY <1>1, <1>2, <1>3 DEF Length

\* A step within the line: it goes on behind pos, in the normal state, where no
\* run of characters of one kind goes on.
LEMMA ScanOn ==
  ASSUME UNCHANGED readerVars, delim' = "none",
         status' = "running" /\ 0 < pos' /\ pos' < Length =>
           /\ line_buffer[pos'] \in Letters => line_buffer[pos' + 1] \notin VARIABLE_CHARS
           /\ line_buffer[pos'] \in NUMERIC_CHARS => line_buffer[pos' + 1] \notin NUMERIC_CHARS
           /\ line_buffer[pos'] \in OPERATOR_CHARS => line_buffer[pos' + 1] \notin OPERATOR_CHARS
  PROVE  ScanInv'
BY DEF ScanInv, readerVars, Length

LEMMA ScanNext ==
  ASSUME LexInv, ScanInv, [Next]_vars
  PROVE  ScanInv'
<1>1. CASE ReadNextLine
  BY <1>1 DEF ReadNextLine, ScanInv
<1>2. CASE EatWhitespace
  <2>. DEFINE end == RunFrom(WHITESPACE_CHARS)
  <2>1. /\ UNCHANGED readerVars /\ delim' = "none" /\ pos' = end
        /\ end \in pos + 1 .. Length /\ pos \in Nat
        /\ \A i \in pos + 1 .. end : line_buffer[i] \in WHITESPACE_CHARS
    BY <1>2, Runs DEF EatWhitespace, ScansOneOf, LexInv
  <2>. HIDE DEF end
  <2>2. line_buffer[end] \in WHITESPACE_CHARS
    BY <2>1
  <2>3. line_buffer[end] \notin Letters \cup NUMERIC_CHARS \cup OPERATOR_CHARS
    BY <2>2, Classes
  <2>. QED  BY <2>1, <2>3, ScanOn
<1>3. CASE StartString
  <2>1. delim' \in STRING_DELIMS /\ delim' = line_buffer[pos + 1] /\ pos' = pos
        /\ UNCHANGED readerVars
    BY <1>3 DEF StartString, ScansOneOf
  <2>2. delim' # "none"
    BY <2>1, Classes
  <2>. QED  BY <2>1, <2>2 DEF ScanInv, readerVars, Length
<1>4. CASE ParseString
  <2>. DEFINE start == pos + 1
  <2>1. UNCHANGED readerVars /\ delim' = "none" /\ pos \in Nat /\ delim \in STRING_DELIMS
    BY <1>4 DEF ParseString, LexInv, ScanInv
  <2>2. CASE \E c \in Closing(start) : pos' = c + 1
    <3>1. PICK c \in Closing(start) : pos' = c + 1
      BY <2>2
    <3>2. c \in Nat /\ line_buffer[c + 1] = delim
      BY <2>1 DEF Closing
    <3>3. line_buffer[pos'] \notin Letters \cup NUMERIC_CHARS \cup OPERATOR_CHARS
      BY <2>1, <3>1, <3>2, Classes DEF VARIABLE_CHARS
    <3>. QED  BY <2>1, <3>3, ScanOn
  <2>3. CASE pos' = Length
    <3>1. ~ (pos' < Length)
      BY <2>3 DEF LexInv, ReaderInv, Length
    <3>. QED  BY <2>1, <3>1, ScanOn
  <2>. QED  BY <1>4, <2>2, <2>3 DEF ParseString
<1>5. ASSUME NEW chars \in {OPERATOR_CHARS, NUMERIC_CHARS, VARIABLE_CHARS},
             UNCHANGED readerVars, delim' = "none", pos < Length,
             line_buffer[pos + 1] \in chars, pos' = RunFrom(chars)
      PROVE  ScanInv'
  <2>. DEFINE end == RunFrom(chars)
  <2>1. /\ end \in pos + 1 .. Length /\ pos \in Nat
        /\ \A i \in pos + 1 .. end : line_buffer[i] \in chars
        /\ end < Length => line_buffer[end + 1] \notin chars
    BY <1>5, Runs DEF LexInv
  <2>. HIDE DEF end
  <2>2. line_buffer[end] \in chars
    BY <2>1
  <2>3. CASE chars = OPERATOR_CHARS
    <3>1. line_buffer[end] \notin Letters \cup NUMERIC_CHARS
      BY <2>2, <2>3, Classes DEF VARIABLE_CHARS
    <3>. QED  BY <1>5, <2>1, <2>3, <3>1, ScanOn DEF end
  <2>4. CASE chars = NUMERIC_CHARS
    <3>1. line_buffer[end] \notin Letters \cup OPERATOR_CHARS
      BY <2>2, <2>4, Classes
    <3>. QED  BY <1>5, <2>1, <2>4, <3>1, ScanOn DEF end
  <2>5. CASE chars = VARIABLE_CHARS
    <3>1. line_buffer[end] \notin OPERATOR_CHARS
      BY <2>2, <2>5, Classes
    <3>2. end < Length => line_buffer[end + 1] \notin VARIABLE_CHARS \cup NUMERIC_CHARS
      BY <2>1, <2>5 DEF VARIABLE_CHARS
    <3>. QED  BY <1>5, <2>1, <2>5, <3>1, <3>2, ScanOn DEF end
  <2>. QED  BY <2>3, <2>4, <2>5
<1>6. CASE LexOperator
  BY <1>5, <1>6 DEF LexOperator, ScansOneOf
<1>7. CASE LexNumber
  BY <1>5, <1>7 DEF LexNumber, ScansOneOf
<1>8. CASE LexWord
  <2>. DEFINE end == RunFrom(VARIABLE_CHARS)
              word == Slice(pos, end)
  <2>1. /\ UNCHANGED readerVars /\ delim' = "none" /\ pos < Length /\ pos \in Nat /\ Length \in Nat
        /\ line_buffer[pos + 1] \in VARIABLE_CHARS
    <3>1. ScansOneOf(Letters) /\ delim' = delim
      BY <1>8 DEF LexWord
    <3>2. pos \in Nat /\ Length \in Nat
      BY DEF LexInv, ReaderInv, Length
    <3>. QED  BY <3>1, <3>2, Classes DEF ScansOneOf
  <2>2. CASE pos' = Length - 1 + Len(word)
    <3>1. end \in pos + 1 .. Length
      BY <2>1, Runs
    <3>2. Len(word) \in Nat /\ Len(word) # 0
      <4>. HIDE DEF end
      <4>1. end \in pos .. Length /\ end - pos \in Nat /\ end - pos # 0
        BY <2>1, <3>1
      <4>. QED  BY <2>1, <4>1, SliceLength
    <3>3. ~ (pos' < Length)
      BY <2>1, <2>2, <3>2
    <3>. QED  BY <2>1, <3>3, ScanOn
  <2>3. pos' = Length - 1 + Len(word) \/ pos' = end
    BY <1>8 DEF LexWord
  <2>4. CASE pos' = end
    BY <1>5, <2>1, <2>4
  <2>. QED  BY <2>2, <2>3, <2>4
<1>9. CASE InvalidChar
  <2>1. /\ UNCHANGED readerVars /\ delim' = "none" /\ pos' = pos + 1
        /\ line_buffer[pos'] \in NoTokenChars
    BY <1>9 DEF InvalidChar, ScansOneOf
  <2>2. line_buffer[pos'] \notin Letters \cup NUMERIC_CHARS \cup OPERATOR_CHARS
    BY <2>1 DEF NoTokenChars
  <2>. QED  BY <2>1, <2>2, ScanOn
<1>10. CASE Stopped \/ UNCHANGED vars
  BY <1>10 DEF Stopped, vars, readerVars, ScanInv, Length
<1>. QED
  BY <1>1, <1>2, <1>3, <1>4, <1>6, <1>7, <1>8, <1>9, <1>10 DEF Next

-----------------------------------------------------------------------------
Places == [region : Nat, at : Nat]
TokenSet == [type : TokenTypes, text : Places, line : Nat, col : Nat, from : Nat, upto : Nat]

Located(t) ==
  LET ends == LineEnds(t.from) IN
    /\ t.line = Cardinality(ends) + 1
    /\ t.col = t.from + 1 - Max(ends \cup {0})
    /\ t.from <= t.upto /\ t.upto <= Len(file)

\* The tokens lie in the file one after the other, and behind the scanner.
TokensInv ==
  /\ tokens \in Seq(TokenSet)
  /\ errors \in Seq(Locations)
  /\ status \in {"running", "done", "exit"}
  /\ \A k \in 1 .. Len(tokens) : Located(tokens[k])
  /\ \A k \in 1 .. Len(tokens) - 1 : tokens[k].upto <= tokens[k + 1].from
  /\ status = "running" => \A k \in 1 .. Len(tokens) : tokens[k].upto <= Scanned

NewToken(type, place, from, upto) == [Token(type, from, upto) EXCEPT !.text = place]

\* The three ways a step within a line ends: it passes characters, it pushes a
\* token, or it ends the process for want of memory.
Pushes(type, from, upto) ==
  /\ status' = "running"
  /\ \E place \in Places : tokens' = Append(tokens, NewToken(type, place, from, upto))
Skips == status' = "running" /\ tokens' = tokens
Fails == status' = "exit" /\ tokens' = tokens

LEMMA PushOutcome ==
  ASSUME LexInv, status = "running", NEW type, NEW from \in Nat, NEW upto \in from .. Length,
         \/ PushSimple(type, from, upto)
         \/ Push(type, from, upto)
         \/ type = "STRING" /\ PushString(from, upto)
  PROVE  Fails \/ Pushes(type, from, upto)
<1>. DEFINE token == Token(type, from, upto)
            size == SizeOf(Slice(from, upto))
<1>1. CASE UNCHANGED arrayVars /\ status' = "exit"
  BY <1>1 DEF Fails, arrayVars
<1>2. CASE token_array_push_simple(token) /\ UNCHANGED status
  <2>1. NULL \in Places /\ token = NewToken(type, NULL, from, upto)
    BY DEF NULL, Places, NewToken, Token
  <2>. QED  BY <1>2, <2>1 DEF token_array_push_simple, Pushes
<1>3. ASSUME arena_alloc(size), status' = status,
             tokens' = Append(tokens, [token EXCEPT !.text = PlaceFor(size)])
      PROVE  Pushes(type, from, upto)
  <2>1. FitsSize(size)
    <3>1. upto \in 0 .. Length
      BY DEF LexInv, ReaderInv, Length
    <3>. QED  BY <3>1, TextFits
  <2>2. PlacedRight(size)
    BY <1>3, <2>1, Placing DEF LexInv, ArenaInv, arena_alloc
  <2>3. PlaceFor(size) \in Places
    BY <2>2 DEF PlacedRight, PlaceFor, Places
  <2>. QED  BY <1>3, <2>3 DEF Pushes, NewToken
<1>. QED
  BY <1>1, <1>2, <1>3 DEF PushSimple, Push, PushString, NoMemory, token_array_push,
     token_array_clean_and_push_string

LEMMA TokenLocated ==
  ASSUME LexInv, LineInv, status = "running", pos < Length,
         NEW from \in 0 .. Length, NEW upto \in from .. Length, NEW t,
         t.line = line, t.col = from + 1, t.from = begin + from, t.upto = begin + upto
  PROVE  Located(t) /\ line \in Nat
<1>1. /\ Length \in Nat /\ begin \in Nat /\ from \in Nat /\ upto \in Nat /\ pos \in Nat
      /\ offset \in Nat /\ Len(file) \in Nat /\ offset <= Len(file)
      /\ begin + Length <= offset /\ Length # 0
      /\ from <= upto /\ upto <= Length
  BY DEF LexInv, ReaderInv, LineInv, Length
<1>2. /\ \A i \in 1 .. Length : file[begin + i] # "\n"
      /\ begin = 0 \/ file[begin] = "\n"
      /\ line = Cardinality(LineEnds(begin)) + 1
  BY <1>1 DEF LineInv
<1>3. LineEnds(begin + from) = LineEnds(begin)
  <2>1. ASSUME NEW i \in begin + 1 .. begin + from
        PROVE  file[i] # "\n"
    <3>1. i - begin \in 1 .. Length /\ begin + (i - begin) = i
      BY <1>1
    <3>. QED  BY <1>2, <3>1
  <2>. QED  BY <1>1, <2>1 DEF LineEnds
<1>4. Max(LineEnds(begin) \cup {0}) = begin
  <2>. DEFINE S == LineEnds(begin) \cup {0}
  <2>1. begin \in S /\ \A y \in S : y \in Nat /\ begin >= y
    BY <1>1, <1>2 DEF LineEnds
  <2>. HIDE DEF S
  <2>2. \A x \in S : (\A y \in S : x >= y) => x = begin
    BY <2>1
  <2>3. Max(S) = begin
    BY <2>1, <2>2 DEF Max
  <2>. QED  BY <2>3 DEF S
<1>5. Cardinality(LineEnds(begin)) \in Nat
  <2>1. LineEnds(begin) \subseteq 1 .. begin
    BY DEF LineEnds
  <2>2. IsFiniteSet(1 .. begin)
    BY <1>1, FS_Interval
  <2>. QED  BY <2>1, <2>2, FS_Subset, FS_CardinalityType
<1>6. LineEnds(t.from) = LineEnds(begin)
  BY <1>3
<1>7. t.col = t.from + 1 - Max(LineEnds(t.from) \cup {0})
  <2>1. Max(LineEnds(t.from) \cup {0}) = begin
    BY <1>4, <1>6
  <2>2. from + 1 = begin + from + 1 - begin
    BY <1>1
  <2>. QED  BY <2>1, <2>2
<1>8. t.from <= t.upto /\ t.upto <= Len(file)
  BY <1>1
<1>. QED  BY <1>2, <1>5, <1>6, <1>7, <1>8 DEF Located

LEMMA LineCounts ==
  ASSUME LexInv, LineInv, status = "running", pos < Length
  PROVE  line \in Nat
<1>. DEFINE t == [line |-> line, col |-> 0 + 1, from |-> begin + 0, upto |-> begin + 0]
<1>1. 0 \in 0 .. Length
  BY DEF LexInv, ReaderInv, Length
<1>2. t.line = line /\ t.col = 0 + 1 /\ t.from = begin + 0 /\ t.upto = begin + 0
  OBVIOUS
<1>. HIDE DEF t
<1>. QED  BY <1>1, <1>2, TokenLocated

\* A step within the line goes forward.
Advances ==
  /\ status = "running" /\ pos < Length
  /\ pos' \in Nat /\ pos' >= pos
  /\ UNCHANGED readerVars

LEMMA ScannedGrows ==
  ASSUME LexInv, LineInv, Advances
  PROVE  /\ Scanned = begin + pos /\ Scanned \in Nat /\ Scanned' \in Nat
         /\ Scanned <= Scanned' /\ Scanned' <= offset
         /\ \A n \in 0 .. Length : n <= pos' => begin + n <= Scanned'
         /\ pos' < Length => Scanned' = begin + pos'
         /\ ~ (pos' < Length) => Scanned' = offset
<1>1. /\ Length \in Nat /\ begin \in Nat /\ pos \in Nat /\ offset \in Nat
      /\ begin + Length <= offset /\ pos < Length /\ pos' \in Nat /\ pos <= pos'
  BY DEF LexInv, ReaderInv, LineInv, Advances, Length
<1>2. Length' = Length /\ begin' = begin /\ offset' = offset
  BY DEF Advances, readerVars, Length
<1>3. PICK next : next = pos'
  OBVIOUS
<1>4. PICK behind : behind = Scanned'
  OBVIOUS
<1>5. Scanned = begin + pos
  BY <1>1 DEF Scanned
<1>6. behind = IF next < Length THEN begin + next ELSE offset
  BY <1>2, <1>3, <1>4 DEF Scanned
<1>7. next \in Nat /\ pos <= next
  BY <1>1, <1>3
<1>8. /\ begin + pos \in Nat /\ behind \in Nat /\ begin + pos <= behind /\ behind <= offset
      /\ \A n \in 0 .. Length : n <= next => begin + n <= behind
      /\ next < Length => behind = begin + next
      /\ ~ (next < Length) => behind = offset
  BY <1>1, <1>6, <1>7
<1>. QED  BY <1>3, <1>4, <1>5, <1>8

\* One way to see what a step does to the tokens.
LEMMA TokensStep ==
  ASSUME LexInv, LineInv, TokensInv, Advances, errors' \in Seq(Locations),
         \/ Skips \/ Fails
         \/ \E type \in TokenTypes, from \in pos .. Length :
              \E upto \in from .. Length : upto <= pos' /\ Pushes(type, from, upto)
  PROVE  TokensInv'
<1>1. /\ file' = file /\ begin' = begin /\ Scanned \in Nat /\ Scanned' \in Nat
      /\ Scanned <= Scanned' /\ pos \in Nat /\ begin \in Nat /\ Length \in Nat
      /\ tokens \in Seq(TokenSet)
  BY ScannedGrows DEF Advances, readerVars, LexInv, ReaderInv, LineInv, TokensInv, Length
<1>2. \A k \in 1 .. Len(tokens) : tokens[k] \in TokenSet /\ Located(tokens[k])
  BY <1>1 DEF TokensInv
<1>3. \A k \in 1 .. Len(tokens) : tokens[k].upto \in Nat /\ tokens[k].upto <= Scanned
  BY <1>2 DEF TokensInv, TokenSet, Advances
<1>4. CASE Skips \/ Fails
  <2>1. tokens' = tokens /\ status' \in {"running", "done", "exit"}
    BY <1>4 DEF Skips, Fails
  <2>2. \A k \in 1 .. Len(tokens) : Located(tokens[k])'
    BY <1>1, <1>2, <2>1 DEF Located, LineEnds
  <2>3. \A k \in 1 .. Len(tokens) : tokens[k].upto <= Scanned'
    BY <1>1, <1>3
  <2>4. \A k \in 1 .. Len(tokens) - 1 : tokens[k].upto <= tokens[k + 1].from
    BY DEF TokensInv
  <2>. QED  BY <1>1, <2>1, <2>2, <2>3, <2>4 DEF TokensInv
<1>5. ASSUME NEW type \in TokenTypes, NEW from \in pos .. Length, NEW upto \in from .. Length,
             upto <= pos', NEW place \in Places, status' = "running",
             tokens' = Append(tokens, NewToken(type, place, from, upto))
      PROVE  TokensInv'
  <2>. DEFINE t == NewToken(type, place, from, upto)
              n == Len(tokens)
  <2>1. /\ t.line = line /\ t.col = from + 1 /\ t.from = begin + from /\ t.upto = begin + upto
        /\ from \in 0 .. Length
    BY <1>1 DEF NewToken, Token
  <2>2. Located(t) /\ line \in Nat
    BY <2>1, TokenLocated DEF Advances
  <2>3. t \in TokenSet
    <3>1. t = [type |-> type, text |-> place, line |-> line, col |-> from + 1,
               from |-> begin + from, upto |-> begin + upto]
      BY DEF NewToken, Token
    <3>2. from + 1 \in Nat /\ begin + from \in Nat /\ begin + upto \in Nat
      BY <1>1
    <3>. QED  BY <2>2, <3>1, <3>2 DEF TokenSet
  <2>5. upto \in 0 .. Length /\ t.upto <= Scanned' /\ Scanned <= t.from
    BY <1>1, <1>5, <2>1, ScannedGrows
  <2>6. t.from \in Nat /\ t.upto \in Nat
    BY <2>3 DEF TokenSet
  <2>. HIDE DEF t
  <2>7. /\ tokens' \in Seq(TokenSet) /\ Len(tokens') = n + 1 /\ n \in Nat
        /\ \A k \in 1 .. n : tokens'[k] = tokens[k]
        /\ tokens'[n + 1] = t
    BY <1>1, <1>5, <2>3 DEF t
  <2>. HIDE DEF n
  <2>8. \A k \in 1 .. n : Located(tokens[k]) /\ tokens[k].upto \in Nat /\ tokens[k].upto <= Scanned
    BY <1>2, <1>3 DEF n
  <2>9. \A k \in 1 .. n + 1 : Located(tokens'[k]) /\ tokens'[k].upto <= Scanned'
    <3>. SUFFICES ASSUME NEW k \in 1 .. n + 1
                  PROVE  Located(tokens'[k]) /\ tokens'[k].upto <= Scanned'
      OBVIOUS
    <3>1. CASE k \in 1 .. n
      <4>1. tokens'[k] = tokens[k] /\ tokens[k].upto \in Nat /\ tokens[k].upto <= Scanned
        BY <2>7, <2>8, <3>1
      <4>2. Located(tokens[k])
        BY <2>8, <3>1
      <4>. QED  BY <1>1, <4>1, <4>2
    <3>2. CASE k = n + 1
      BY <2>2, <2>5, <2>7, <3>2
    <3>. QED  BY <2>7, <3>1, <3>2
  <2>10. \A k \in 1 .. n : tokens'[k].upto <= tokens'[k + 1].from
    <3>. SUFFICES ASSUME NEW k \in 1 .. n
                  PROVE  tokens'[k].upto <= tokens'[k + 1].from
      OBVIOUS
    <3>1. CASE k = n
      BY <1>1, <2>5, <2>6, <2>7, <2>8, <3>1
    <3>2. CASE k \in 1 .. n - 1
      <4>1. tokens[k].upto <= tokens[k + 1].from
        BY <3>2 DEF TokensInv, n
      <4>. QED  BY <2>7, <3>2, <4>1
    <3>. QED  BY <2>7, <3>1, <3>2
  <2>11. \A k \in 1 .. n + 1 : Located(tokens[k])'
    BY <1>1, <2>9 DEF Located, LineEnds
  <2>. QED  BY <1>5, <2>7, <2>9, <2>10, <2>11 DEF TokensInv
<1>. QED  BY <1>4, <1>5 DEF Pushes

-----------------------------------------------------------------------------
(***************************************************************************)
(* What each step within a line does.                                      *)
(***************************************************************************)
IsRun(chars, end) ==
  /\ \A i \in pos + 1 .. end : line_buffer[i] \in chars
  /\ end < Length => line_buffer[end + 1] \notin chars

\* A token from pos to end.
Lexes(type, end) ==
  /\ Advances
  /\ pos' = end
  /\ errors' = errors
  /\ Fails \/ Pushes(type, pos, end)

Reported(col) == Append(errors, [line |-> line, col |-> col])

LEMMA EatingWhitespace ==
  ASSUME LexInv, EatWhitespace
  PROVE  /\ Advances /\ Skips /\ errors' = errors
         /\ \E end \in pos + 1 .. Length : pos' = end /\ IsRun(WHITESPACE_CHARS, end)
<1>. DEFINE end == RunFrom(WHITESPACE_CHARS)
<1>1. /\ ScansOneOf(WHITESPACE_CHARS) /\ pos' = end /\ errors' = errors
      /\ status' = status /\ tokens' = tokens
  BY DEF EatWhitespace, arrayVars
<1>2. end \in pos + 1 .. Length /\ IsRun(WHITESPACE_CHARS, end)
  BY <1>1, Runs DEF ScansOneOf, IsRun
<1>3. end \in Nat /\ end >= pos
  BY <1>2 DEF LexInv
<1>. QED  BY <1>1, <1>2, <1>3 DEF Advances, Skips, ScansOneOf

LEMMA StartingString ==
  ASSUME LexInv, StartString
  PROVE  Advances /\ Skips /\ errors' = errors /\ pos' = pos
BY DEF StartString, ScansOneOf, Advances, Skips, arrayVars, LexInv

LEMMA PushingARun ==
  ASSUME LexInv, NEW start, NEW chars, start \subseteq chars, ScansOneOf(start),
         NEW type, errors' = errors, pos' = RunFrom(chars),
         \/ PushSimple(type, pos, RunFrom(chars))
         \/ Push(type, pos, RunFrom(chars))
  PROVE  /\ RunFrom(chars) \in pos + 1 .. Length
         /\ IsRun(chars, RunFrom(chars))
         /\ Lexes(type, RunFrom(chars))
<1>. DEFINE end == RunFrom(chars)
<1>1. pos \in Nat /\ pos < Length /\ status = "running" /\ UNCHANGED readerVars
  BY DEF LexInv, ScansOneOf
<1>2. end \in pos + 1 .. Length /\ IsRun(chars, end)
  BY Runs DEF ScansOneOf, IsRun
<1>. HIDE DEF end
<1>3. end \in pos .. Length /\ end \in Nat /\ end >= pos
  BY <1>1, <1>2
<1>4. Fails \/ Pushes(type, pos, end)
  BY <1>1, <1>3, PushOutcome DEF end
<1>. QED  BY <1>1, <1>2, <1>3, <1>4 DEF Lexes, Advances, end

LEMMA LexingOperator ==
  ASSUME LexInv, LexOperator
  PROVE  \E end \in pos + 1 .. Length :
           IsRun(OPERATOR_CHARS, end) /\ Lexes(OPERATOR_MAP(Slice(pos, end)), end)
<1>1. /\ ScansOneOf(OPERATOR_CHARS) /\ errors' = errors /\ pos' = RunFrom(OPERATOR_CHARS)
      /\ PushSimple(OPERATOR_MAP(Slice(pos, RunFrom(OPERATOR_CHARS))), pos, RunFrom(OPERATOR_CHARS))
  BY DEF LexOperator
<1>. QED  BY <1>1, PushingARun

LEMMA LexingNumber ==
  ASSUME LexInv, LexNumber
  PROVE  \E end \in pos + 1 .. Length : IsRun(NUMERIC_CHARS, end) /\ Lexes("NUMBER", end)
<1>1. /\ ScansOneOf(NUMERIC_CHARS) /\ errors' = errors /\ pos' = RunFrom(NUMERIC_CHARS)
      /\ Push("NUMBER", pos, RunFrom(NUMERIC_CHARS))
  BY DEF LexNumber
<1>. QED  BY <1>1, PushingARun

LEMMA LexingWord ==
  ASSUME LexInv, LexWord
  PROVE  \E end \in pos + 1 .. Length :
           /\ IsRun(VARIABLE_CHARS, end) /\ line_buffer[pos + 1] \in Letters
           /\ \/ /\ Slice(pos, end) \in DOMAIN KEYWORD_MAP /\ KEYWORD_MAP[Slice(pos, end)] = "REM"
                 /\ Advances /\ Skips /\ errors' = errors /\ ~ (pos' < Length)
              \/ /\ Slice(pos, end) \in DOMAIN KEYWORD_MAP /\ KEYWORD_MAP[Slice(pos, end)] # "REM"
                 /\ Lexes(KEYWORD_MAP[Slice(pos, end)], end)
              \/ Slice(pos, end) \notin DOMAIN KEYWORD_MAP /\ Lexes("IDENT", end)
<1>. DEFINE end == RunFrom(VARIABLE_CHARS)
            word == Slice(pos, end)
<1>1. /\ ScansOneOf(Letters) /\ errors' = errors /\ Letters \subseteq VARIABLE_CHARS
      /\ \/ /\ word \in DOMAIN KEYWORD_MAP /\ KEYWORD_MAP[word] = "REM"
            /\ pos' = Length - 1 + Len(word) /\ tokens' = tokens /\ status' = status
         \/ /\ word \in DOMAIN KEYWORD_MAP /\ KEYWORD_MAP[word] # "REM"
            /\ pos' = end /\ PushSimple(KEYWORD_MAP[word], pos, end)
         \/ word \notin DOMAIN KEYWORD_MAP /\ pos' = end /\ Push("IDENT", pos, end)
  BY DEF LexWord, arrayVars, VARIABLE_CHARS
<1>2. /\ line_buffer[pos + 1] \in Letters /\ pos < Length /\ status = "running"
      /\ UNCHANGED readerVars /\ pos \in Nat /\ Length \in Nat
  BY <1>1 DEF ScansOneOf, LexInv, ReaderInv, Length
<1>3. end \in pos + 1 .. Length /\ IsRun(VARIABLE_CHARS, end)
  BY <1>1, <1>2, Runs DEF IsRun
<1>4. CASE /\ word \in DOMAIN KEYWORD_MAP /\ KEYWORD_MAP[word] = "REM"
           /\ pos' = Length - 1 + Len(word) /\ tokens' = tokens /\ status' = status
  <2>1. Len(word) = end - pos
    <3>. HIDE DEF end
    <3>1. end \in pos .. Length
      BY <1>2, <1>3
    <3>. QED  BY <1>2, <3>1, SliceLength
  <2>. DEFINE next == Length - 1 + Len(word)
  <2>2. next \in Nat /\ next >= pos /\ ~ (next < Length)
    <3>. HIDE DEF end, word
    <3>. QED  BY <1>2, <1>3, <2>1
  <2>. QED  BY <1>1, <1>2, <1>3, <1>4, <2>2 DEF Advances, Skips
<1>5. CASE /\ word \in DOMAIN KEYWORD_MAP /\ KEYWORD_MAP[word] # "REM"
           /\ pos' = end /\ PushSimple(KEYWORD_MAP[word], pos, end)
  <2>1. Lexes(KEYWORD_MAP[word], end)
    BY <1>1, <1>5, PushingARun
  <2>. QED  BY <1>2, <1>3, <1>5, <2>1
<1>6. CASE word \notin DOMAIN KEYWORD_MAP /\ pos' = end /\ Push("IDENT", pos, end)
  <2>1. Lexes("IDENT", end)
    BY <1>1, <1>6, PushingARun
  <2>. QED  BY <1>2, <1>3, <1>6, <2>1
<1>. QED  BY <1>1, <1>4, <1>5, <1>6

LEMMA Refusing ==
  ASSUME LexInv, InvalidChar
  PROVE  /\ Advances /\ pos' = pos + 1 /\ pos + 1 \in pos .. Length
         /\ line_buffer[pos + 1] \in NoTokenChars
         /\ errors' = Reported(pos + 1)
         /\ Fails \/ Pushes("UNKNOWN", pos, pos + 1)
<1>1. /\ ScansOneOf(NoTokenChars) /\ errors' = Reported(pos + 1) /\ pos' = pos + 1
      /\ PushSimple("UNKNOWN", pos, pos + 1)
  BY DEF InvalidChar, Reported
<1>2. /\ line_buffer[pos + 1] \in NoTokenChars /\ pos < Length /\ status = "running"
      /\ UNCHANGED readerVars /\ pos \in Nat /\ Length \in Nat
  BY <1>1 DEF ScansOneOf, LexInv, ReaderInv, Length
<1>3. pos + 1 \in pos .. Length /\ pos + 1 \in Nat /\ pos + 1 >= pos
  BY <1>2
<1>4. Fails \/ Pushes("UNKNOWN", pos, pos + 1)
  BY <1>1, <1>2, <1>3, PushOutcome
<1>. QED  BY <1>1, <1>2, <1>3, <1>4 DEF Advances

LEMMA ParsingString ==
  ASSUME LexInv, ScanInv, ParseString
  PROVE  /\ Advances
         /\ line_buffer[pos + 1] = delim /\ delim \in STRING_DELIMS
         /\ \/ \E c \in pos + 1 .. Length - 1 :
                 /\ line_buffer[c + 1] = delim /\ pos' = c + 1 /\ errors' = errors
                 /\ Fails \/ Pushes("STRING", pos + 1, c)
            \/ /\ pos' = Length /\ errors' \in {errors, Reported(pos + 1)}
               /\ Fails \/ Pushes("UNKNOWN", pos + 1, Length)
<1>. DEFINE start == pos + 1
<1>1. /\ status = "running" /\ pos < Length /\ UNCHANGED readerVars
      /\ line_buffer[pos + 1] = delim /\ delim \in STRING_DELIMS
  BY DEF ParseString, ScanInv
<1>2. pos \in Nat /\ Length \in Nat /\ start \in Nat /\ start <= Length
  BY <1>1 DEF LexInv, ReaderInv, Length
<1>3. CASE \E c \in Closing(start) : PushString(start, c) /\ pos' = c + 1 /\ errors' = errors
  <2>1. PICK c \in Closing(start) : PushString(start, c) /\ pos' = c + 1 /\ errors' = errors
    BY <1>3
  <2>2. c \in start .. Length - 1 /\ line_buffer[c + 1] = delim
    BY DEF Closing
  <2>3. c \in start .. Length /\ c + 1 \in Nat /\ c + 1 >= pos
    BY <1>2, <2>2
  <2>4. Fails \/ Pushes("STRING", start, c)
    BY <1>1, <1>2, <2>1, <2>3, PushOutcome
  <2>. QED  BY <1>1, <1>2, <2>1, <2>2, <2>3, <2>4 DEF Advances
<1>4. CASE /\ errors' \in {errors, Reported(pos + 1)}
           /\ PushSimple("UNKNOWN", start, Length) /\ pos' = Length
  <2>1. Length \in start .. Length /\ Length >= pos
    BY <1>1, <1>2
  <2>2. Fails \/ Pushes("UNKNOWN", start, Length)
    BY <1>1, <1>2, <1>4, <2>1, PushOutcome
  <2>. QED  BY <1>1, <1>2, <1>4, <2>1, <2>2 DEF Advances
<1>5. CASE NoMemory(TRUE) /\ pos' = Length /\ errors' = errors
  BY <1>1, <1>2, <1>5 DEF NoMemory, Fails, Advances, arrayVars
<1>. QED  BY <1>3, <1>4, <1>5 DEF ParseString, Reported, NoMemory

-----------------------------------------------------------------------------
\* A run of operator characters has the type of an operator or is unknown.
LEMMA OperatorTypes ==
  ASSUME NEW run \in Seq(Char), Len(run) # 0, \A i \in 1 .. Len(run) : run[i] \in OPERATOR_CHARS
  PROVE  OPERATOR_MAP(run) \in Operators \cup {"UNKNOWN"}
<1>1. CASE Len(run) = 1
  <2>1. OPERATOR_MAP(run) = OPERATOR(run[1])
    <3>1. \A a, b : run # <<a, b>>
      <4>1. \A a, b : Len(<<a, b>>) = 2
        OBVIOUS
      <4>. QED  BY <1>1, <4>1
    <3>. QED  BY <1>1, <3>1 DEF OPERATOR_MAP
  <2>2. OPERATOR_MAP(<<run[1]>>) = OPERATOR(run[1])
    BY DEF OPERATOR_MAP
  <2>3. run[1] \in OPERATOR_CHARS
    BY <1>1
  <2>. QED  BY <2>1, <2>2, <2>3 DEF Operators
<1>2. CASE Len(run) # 1
  <2>1. OPERATOR_MAP(run) \in {"GTE", "LTE", "EQEQ", "NOTEQ", "AND", "OR", "UNKNOWN"}
    BY <1>2 DEF OPERATOR_MAP
  <2>. QED  BY <2>1 DEF Operators
<1>. QED  BY <1>1, <1>2

LEMMA RunTypes ==
  ASSUME LexInv, NEW end \in pos + 1 .. Length, IsRun(OPERATOR_CHARS, end)
  PROVE  OPERATOR_MAP(Slice(pos, end)) \in Operators \cup {"UNKNOWN"}
<1>1. pos \in Nat /\ end \in pos .. Length /\ end - pos \in Nat /\ end - pos # 0
  BY DEF LexInv, ReaderInv, Length
<1>2. /\ Slice(pos, end) \in Seq(Char) /\ Len(Slice(pos, end)) = end - pos
      /\ \A i \in 1 .. end - pos : Slice(pos, end)[i] = line_buffer[pos + i]
  BY <1>1, SliceLength
<1>3. \A i \in 1 .. end - pos : line_buffer[pos + i] \in OPERATOR_CHARS
  BY <1>1 DEF IsRun
<1>. QED  BY <1>1, <1>2, <1>3, OperatorTypes

\* The kinds of types are apart.
LEMMA KindsApart ==
  /\ Operators \subseteq TokenTypes /\ Keywords \subseteq TokenTypes
  /\ Literals \cup {"UNKNOWN"} \subseteq TokenTypes
  /\ \A w \in DOMAIN KEYWORD_MAP : KEYWORD_MAP[w] \in Keywords
  /\ \A k \in Keywords : k \notin Operators \cup Literals \cup {"UNKNOWN"}
  /\ \A k \in Operators : k \notin Literals
<1>1. \A c \in OPERATOR_CHARS : OPERATOR_MAP(<<c>>) = OPERATOR(c)
  <2>1. \A a : Len(<<a>>) = 1 /\ <<a>>[1] = a /\ \A b, c : <<a>> # <<b, c>>
    <3>1. \A a, b, c : Len(<<a>>) = 1 /\ Len(<<b, c>>) = 2
      OBVIOUS
    <3>. QED  BY <3>1
  <2>. QED  BY <2>1 DEF OPERATOR_MAP
<1>2. \A c : OPERATOR(c) \notin Literals
  BY DEF OPERATOR, Literals
<1>3. {"GTE", "LTE", "EQEQ", "NOTEQ", "AND", "OR"} \cap Literals = {}
  BY DEF Literals
<1>4. \A k \in Operators : k \notin Literals
  BY <1>1, <1>2, <1>3 DEF Operators
<1>. QED  BY <1>4, LexerAssumption DEF TokenTypes, Keywords

\* Between two lines the scanner stands at the end of what was read.
LEMMA ReadScans ==
  ASSUME LexInv, LineInv, ReadNextLine
  PROVE  /\ Scanned = offset /\ tokens' = tokens /\ errors' = errors /\ file' = file
         /\ status' \in {"running", "done", "exit"}
         /\ status' = "running" => /\ Scanned' \in Nat /\ offset <= Scanned'
                                   /\ \/ Scanned' = offset
                                      \/ Scanned' = offset' /\ Length' = 0 /\ begin' = offset
         /\ status' = "done" => Scanned' = offset
<1>1. /\ Scanned = offset /\ tokens' = tokens /\ errors' = errors /\ file' = file /\ pos' = 0
      /\ status' \in {"running", "done", "exit"} /\ offset \in Nat
  BY DEF ReadNextLine, arrayVars, Scanned, LexInv, ReaderInv, ReadLine, EndOfFile, LineTooBig,
         CantRead, Length
<1>2. CASE ReadLine /\ status' = "running"
  <2>1. offset' = fgets_end /\ fgets_end \in Nat /\ offset <= fgets_end /\ begin' = offset
    BY <1>1, <1>2, FgetsStops DEF ReadLine, LexInv, ReaderInv
  <2>2. Length' \in Nat
    BY <1>2, ReadKeeps DEF LexInv, ReaderInv, Length
  <2>3. CASE Length' = 0
    BY <1>1, <1>2, <2>1, <2>3 DEF Scanned
  <2>4. CASE Length' # 0
    <3>1. Scanned' = offset + 0
      BY <1>1, <2>1, <2>2, <2>4 DEF Scanned
    <3>. QED  BY <1>1, <1>2, <3>1
  <2>. QED  BY <2>3, <2>4
<1>3. CASE EndOfFile /\ status' = "done"
  <2>1. offset' = offset /\ Length' = 0
    BY <1>3 DEF EndOfFile, Length
  <2>. QED  BY <1>1, <1>3, <2>1 DEF Scanned
<1>4. CASE status' = "exit"
  BY <1>1, <1>4
<1>. QED  BY <1>1, <1>2, <1>3, <1>4 DEF ReadNextLine

LEMMA TokensNext ==
  ASSUME LexInv, LineInv, ScanInv, TokensInv, [Next]_vars
  PROVE  TokensInv'
<1>1. CASE ReadNextLine
  <2>1. /\ Scanned = offset /\ tokens' = tokens /\ errors' = errors /\ file' = file
        /\ status' \in {"running", "done", "exit"}
        /\ status' = "running" => Scanned' \in Nat /\ offset <= Scanned'
        /\ status = "running" /\ offset \in Nat
    BY <1>1, ReadScans DEF ReadNextLine, LexInv, ReaderInv
  <2>2. \A k \in 1 .. Len(tokens) : tokens[k].upto \in Nat /\ tokens[k].upto <= offset
    <3>1. \A k \in 1 .. Len(tokens) : tokens[k] \in TokenSet /\ tokens[k].upto <= offset
      BY <2>1 DEF TokensInv
    <3>. QED  BY <3>1 DEF TokenSet
  <2>3. status' = "running" => \A k \in 1 .. Len(tokens) : tokens[k].upto <= Scanned'
    BY <2>1, <2>2
  <2>4. /\ tokens \in Seq(TokenSet) /\ errors \in Seq(Locations)
        /\ \A k \in 1 .. Len(tokens) - 1 : tokens[k].upto <= tokens[k + 1].from
    BY DEF TokensInv
  <2>5. \A k \in 1 .. Len(tokens) : Located(tokens[k])'
    BY <2>1 DEF TokensInv, Located, LineEnds
  <2>. QED  BY <2>1, <2>3, <2>4, <2>5 DEF TokensInv
<1>. DEFINE Types == {"UNKNOWN", "NUMBER", "IDENT", "STRING"}
<1>2. /\ Types \subseteq TokenTypes /\ \A w \in DOMAIN KEYWORD_MAP : KEYWORD_MAP[w] \in TokenTypes
      /\ Operators \cup {"UNKNOWN"} \subseteq TokenTypes
  BY KindsApart DEF Literals
<1>3. pos \in Nat /\ Length \in Nat /\ errors \in Seq(Locations)
  BY DEF LexInv, ReaderInv, TokensInv, Length
<1>4. ASSUME NEW type \in TokenTypes, NEW end \in pos + 1 .. Length, Lexes(type, end)
      PROVE  TokensInv'
  <2>1. end \in pos .. Length /\ end <= end /\ pos \in pos .. Length
    BY <1>3
  <2>. QED  BY <1>3, <1>4, <2>1, TokensStep DEF Lexes
<1>5. CASE EatWhitespace
  BY <1>3, <1>5, EatingWhitespace, TokensStep
<1>6. CASE StartString
  BY <1>3, <1>6, StartingString, TokensStep
<1>7. CASE LexOperator
  BY <1>2, <1>4, <1>7, LexingOperator, RunTypes
<1>8. CASE LexNumber
  BY <1>2, <1>4, <1>8, LexingNumber
<1>9. CASE LexWord
  BY <1>2, <1>3, <1>4, <1>9, LexingWord, TokensStep
<1>10. CASE InvalidChar
  <2>1. /\ Advances /\ pos' = pos + 1 /\ pos + 1 \in pos .. Length
        /\ errors' = Reported(pos + 1)
        /\ Fails \/ Pushes("UNKNOWN", pos, pos + 1)
    BY <1>10, Refusing
  <2>2. pos \in pos .. Length /\ pos + 1 <= pos + 1 /\ pos + 1 \in Nat
    BY <1>3, <2>1
  <2>3. line \in Nat
    BY <2>1, <2>2, LineCounts DEF Advances
  <2>4. errors' \in Seq(Locations)
    BY <1>3, <2>1, <2>2, <2>3 DEF Reported, Locations
  <2>. QED  BY <1>2, <2>1, <2>2, <2>4, TokensStep
<1>11. CASE ParseString
  <2>1. /\ Advances
        /\ \/ \E c \in pos + 1 .. Length - 1 :
                pos' = c + 1 /\ errors' = errors /\ (Fails \/ Pushes("STRING", pos + 1, c))
           \/ /\ pos' = Length /\ errors' \in {errors, Reported(pos + 1)}
              /\ Fails \/ Pushes("UNKNOWN", pos + 1, Length)
    BY <1>11, ParsingString
  <2>2. pos + 1 \in pos .. Length /\ pos + 1 \in Nat /\ Length \in pos + 1 .. Length
    BY <1>3, <2>1 DEF Advances
  <2>3. line \in Nat
    BY <2>1, LineCounts DEF Advances
  <2>4. Reported(pos + 1) \in Seq(Locations)
    BY <1>3, <2>2, <2>3 DEF Reported, Locations
  <2>5. \A c \in pos + 1 .. Length - 1 : c \in pos + 1 .. Length /\ c <= c + 1
    BY <1>3
  <2>. QED  BY <1>2, <1>3, <2>1, <2>2, <2>4, <2>5, TokensStep
<1>12. CASE Stopped \/ UNCHANGED vars
  BY <1>12 DEF Stopped, vars, arrayVars, readerVars, TokensInv, Located, LineEnds, Scanned, Length
<1>. QED
  BY <1>1, <1>5, <1>6, <1>7, <1>8, <1>9, <1>10, <1>11, <1>12 DEF Next

-----------------------------------------------------------------------------
(***************************************************************************)
(* Every character before the scanner is accounted for.                    *)
(***************************************************************************)
CoverInv == status # "exit" => \A i \in 1 .. Scanned : Accounted(i)

\* A step adds at most tokens behind what was scanned.
Adds ==
  /\ Lexeme \subseteq Lexeme'
  /\ \A t \in Lexeme' : t \in Lexeme \/ t.from >= Scanned

LEMMA SkipAdds ==
  ASSUME Skips
  PROVE  Adds
BY DEF Skips, Adds, Lexeme

LEMMA PushAdds ==
  ASSUME LexInv, LineInv, TokensInv, Advances,
         NEW type, NEW from \in pos .. Length, NEW upto \in Nat, Pushes(type, from, upto)
  PROVE  Adds
<1>1. ASSUME NEW place,
             tokens' = Append(tokens, NewToken(type, place, from, upto))
      PROVE  Adds
  <2>. DEFINE t == NewToken(type, place, from, upto)
              n == Len(tokens)
  <2>1. tokens \in Seq(TokenSet) /\ pos \in Nat /\ begin \in Nat /\ Length \in Nat
        /\ Scanned = begin + pos
    BY ScannedGrows DEF TokensInv, LexInv, ReaderInv, LineInv, Length
  <2>2. t.from = begin + from
    BY DEF NewToken, Token
  <2>3. t.from >= Scanned
    BY <2>1, <2>2
  <2>. HIDE DEF t
  <2>4. /\ n \in Nat /\ Len(tokens') = n + 1
        /\ \A k \in 1 .. n : tokens'[k] = tokens[k]
        /\ tokens'[n + 1] = t
    BY <1>1, <2>1 DEF t
  <2>. HIDE DEF n
  <2>5. Lexeme' = {tokens'[k] : k \in 1 .. n + 1} /\ Lexeme = {tokens[k] : k \in 1 .. n}
    BY <2>4 DEF Lexeme, n
  <2>6. Lexeme \subseteq Lexeme'
    BY <2>4, <2>5
  <2>7. \A u \in Lexeme' : u \in Lexeme \/ u = t
    <3>. SUFFICES ASSUME NEW k \in 1 .. n + 1
                  PROVE  tokens'[k] \in Lexeme \/ tokens'[k] = t
      BY <2>5
    <3>1. k \in 1 .. n \/ k = n + 1
      BY <2>4
    <3>. QED  BY <2>4, <2>5, <3>1
  <2>. QED  BY <2>3, <2>6, <2>7 DEF Adds
<1>. QED  BY <1>1 DEF Pushes

\* A token that was pushed stays.
LEMMA Pushed ==
  ASSUME TokensInv, NEW type, NEW from, NEW upto, Pushes(type, from, upto)
  PROVE  \E t \in Lexeme' : t.type = type /\ t.from = begin + from /\ t.upto = begin + upto
<1>1. PICK place : tokens' = Append(tokens, NewToken(type, place, from, upto))
  BY DEF Pushes
<1>. DEFINE t == NewToken(type, place, from, upto)
<1>2. t.type = type /\ t.from = begin + from /\ t.upto = begin + upto
  BY DEF NewToken, Token
<1>. HIDE DEF t
<1>3. Len(tokens) \in Nat /\ Len(tokens') = Len(tokens) + 1 /\ tokens'[Len(tokens) + 1] = t
  BY <1>1 DEF TokensInv, t
<1>4. Len(tokens) + 1 \in 1 .. Len(tokens')
  BY <1>3
<1>5. t \in Lexeme'
  BY <1>3, <1>4 DEF Lexeme
<1>. QED  BY <1>2, <1>5

\* What was accounted for stays so: a comment holds no later token.
LEMMA AccountedStays ==
  ASSUME UNCHANGED file, Adds, Scanned \in Nat, \A t \in Lexeme' : t.from \in Nat,
         NEW i \in 1 .. Scanned, Accounted(i)
  PROVE  Accounted(i)'
<1>1. Lexeme \subseteq Lexeme' /\ file' = file
      /\ \A t \in Lexeme' : t \in Lexeme \/ t.from >= Scanned
  BY DEF Adds
<1>2. CASE \/ file[i] \in WHITESPACE_CHARS
           \/ \E t \in Lexeme : Inside(i, t)
           \/ /\ file[i] \in STRING_DELIMS
              /\ \E t \in Lexeme : t.from = i \/ (t.type = "STRING" /\ t.upto + 1 = i)
  BY <1>1, <1>2 DEF Accounted
<1>3. CASE Comment(i)
  <2>1. PICK j \in 1 .. i, word \in DOMAIN KEYWORD_MAP :
          /\ RemAt(j, word)
          /\ \A k \in j .. i : file[k] # "\n" /\ \A t \in Lexeme : ~ Inside(k, t)
    BY <1>3 DEF Comment
  <2>2. ASSUME NEW k \in j .. i, NEW t \in Lexeme'
        PROVE  ~ (k \in t.from + 1 .. t.upto)
    <3>1. CASE t \in Lexeme
      BY <2>1, <3>1 DEF Inside
    <3>2. CASE t.from >= Scanned
      <4>1. t.from \in Nat /\ k \in Int /\ k <= Scanned
        OBVIOUS
      <4>. QED  BY <3>2, <4>1
    <3>. QED  BY <1>1, <3>1, <3>2
  <2>3. Comment(i)'
    <3>1. RemAt(j, word)'
      BY <1>1, <2>1 DEF RemAt
    <3>. QED  BY <1>1, <2>1, <2>2, <3>1 DEF Comment, Inside
  <2>. QED  BY <2>3 DEF Accounted
<1>. QED  BY <1>2, <1>3 DEF Accounted

LEMMA CoverStep ==
  ASSUME LexInv, LineInv, TokensInv, TokensInv', CoverInv, Advances, Adds,
         \A n \in pos + 1 .. Length : n <= pos' =>
           \A i \in {begin + n} : Accounted(i)'
  PROVE  CoverInv'
<1>1. /\ Length \in Nat /\ begin \in Nat /\ pos \in Nat /\ offset \in Nat
      /\ begin + Length <= offset /\ pos < Length /\ status = "running"
      /\ \A i \in begin + Length + 1 .. offset : file[i] \in NEWLINES
  BY DEF LexInv, ReaderInv, LineInv, Advances, Length
<1>2. file' = file /\ pos' \in Nat
  BY DEF Advances, readerVars
<1>3. /\ Scanned = begin + pos /\ Scanned \in Nat /\ Scanned' \in Nat
      /\ Scanned' <= offset
      /\ pos' < Length => Scanned' = begin + pos'
  BY ScannedGrows
<1>4. \A t \in Lexeme' : t.from \in Nat
  <2>1. \A t \in Lexeme' : t \in TokenSet
    BY DEF TokensInv, Lexeme
  <2>. QED  BY <2>1 DEF TokenSet
<1>5. ASSUME NEW i \in 1 .. Scanned'
      PROVE  Accounted(i)'
  <2>1. CASE i <= Scanned
    <3>1. i \in 1 .. Scanned /\ Accounted(i)
      BY <1>1, <1>3, <2>1 DEF CoverInv
    <3>. QED  BY <1>2, <1>3, <1>4, <3>1, AccountedStays
  <2>2. CASE i > Scanned /\ i <= begin + Length
    <3>. DEFINE n == i - begin
    <3>1. n \in pos + 1 .. Length /\ begin + n = i
      BY <1>1, <1>3, <2>2
    <3>2. n <= pos'
      <4>1. PICK next : next = pos'
        OBVIOUS
      <4>2. PICK behind : behind = Scanned'
        OBVIOUS
      <4>3. next < Length => i <= begin + next
        BY <1>3, <4>1, <4>2
      <4>4. next \in Nat /\ i \in Int
        BY <1>2, <1>3, <4>1
      <4>5. i - begin <= next
        BY <1>1, <2>2, <4>3, <4>4
      <4>. QED  BY <4>1, <4>5
    <3>. HIDE DEF n
    <3>. QED  BY <3>1, <3>2
  <2>3. CASE i > begin + Length
    <3>1. i \in begin + Length + 1 .. offset
      BY <1>1, <1>3, <2>3
    <3>2. file'[i] \in WHITESPACE_CHARS
      BY <1>1, <1>2, <3>1, Classes
    <3>. QED  BY <3>2 DEF Accounted
  <2>. QED  BY <1>1, <1>3, <2>1, <2>2, <2>3
<1>. QED  BY <1>5 DEF CoverInv

\* After a run, the line or the file ends, or a character that is not of it
\* follows.
LEMMA RunIsWhole ==
  ASSUME LexInv, LineInv, status = "running", pos < Length, NEW chars, chars \cap NEWLINES = {},
         NEW end \in pos + 1 .. Length, IsRun(chars, end)
  PROVE  begin + end = Len(file) \/ file[begin + end + 1] \notin chars
<1>1. /\ Length \in Nat /\ begin \in Nat /\ pos \in Nat /\ offset \in Nat /\ Len(file) \in Nat
      /\ begin + Length <= offset /\ offset <= Len(file) /\ Length # 0
      /\ begin + Length = offset => offset = Len(file)
      /\ \A i \in begin + Length + 1 .. offset : file[i] \in NEWLINES
      /\ \A i \in 1 .. Length : line_buffer[i] = file[begin + i]
  BY DEF LexInv, ReaderInv, LineInv, Length
<1>2. CASE end < Length
  <2>1. end + 1 \in 1 .. Length /\ begin + (end + 1) = begin + end + 1
    BY <1>1, <1>2
  <2>. QED  BY <1>1, <1>2, <2>1 DEF IsRun
<1>3. CASE end = Length /\ begin + Length = offset
  BY <1>1, <1>3
<1>4. CASE end = Length /\ begin + Length # offset
  <2>1. begin + end + 1 \in begin + Length + 1 .. offset
    BY <1>1, <1>4
  <2>. QED  BY <1>1, <2>1
<1>. QED  BY <1>1, <1>2, <1>3, <1>4

\* What a slice of the line is in the file.
LEMMA SliceOfFile ==
  ASSUME LexInv, LineInv, NEW from \in Nat, NEW end \in from .. Length
  PROVE  Slice(from, end) = SubSeq(file, begin + from + 1, begin + end)
<1>1. /\ Length \in Nat /\ begin \in Nat /\ offset \in Nat /\ Len(file) \in Nat
      /\ begin + Length <= offset /\ offset <= Len(file) /\ file \in Seq(Char)
      /\ \A i \in 1 .. Length : line_buffer[i] = file[begin + i]
  BY DEF LexInv, ReaderInv, LineInv, Length
<1>. DEFINE m == begin + from + 1
            n == begin + end
<1>2. m \in Int /\ n \in Int
  BY <1>1
<1>3. \A i \in m .. n : file[i] \in Char
  BY <1>1
<1>4. /\ SubSeq(file, m, n) \in Seq(Char)
      /\ Len(SubSeq(file, m, n)) = IF m <= n THEN n - m + 1 ELSE 0
      /\ \A i \in 1 .. n - m + 1 : SubSeq(file, m, n)[i] = file[m + i - 1]
  <2>. HIDE DEF m, n
  <2>. QED  BY ONLY <1>2, <1>3, SubSeqProperties
<1>5. /\ Slice(from, end) \in Seq(Char) /\ Len(Slice(from, end)) = end - from
      /\ \A i \in 1 .. end - from : Slice(from, end)[i] = line_buffer[from + i]
  BY <1>1, SliceLength
<1>6. n - m + 1 = end - from /\ Len(SubSeq(file, m, n)) = end - from
  BY <1>1, <1>4
<1>7. ASSUME NEW i \in 1 .. end - from
      PROVE  Slice(from, end)[i] = SubSeq(file, m, n)[i]
  <2>1. from + i \in 1 .. Length /\ m + i - 1 = begin + (from + i)
    BY <1>1
  <2>. QED  BY <1>1, <1>4, <1>5, <1>6, <2>1
<1>. HIDE DEF m, n
<1>8. Slice(from, end) = SubSeq(file, m, n)
  BY <1>4, <1>5, <1>6, <1>7, SeqEqual
<1>. QED  BY <1>8 DEF m, n

LEMMA RemIsAt ==
  ASSUME LexInv, LineInv, status = "running", pos < Length,
         NEW end \in pos + 1 .. Length, IsRun(VARIABLE_CHARS, end),
         Slice(pos, end) \in DOMAIN KEYWORD_MAP, KEYWORD_MAP[Slice(pos, end)] = "REM"
  PROVE  RemAt(begin + pos + 1, Slice(pos, end))
<1>. DEFINE j == begin + pos + 1
            word == Slice(pos, end)
<1>1. /\ Length \in Nat /\ begin \in Nat /\ pos \in Nat /\ Len(file) \in Nat
      /\ begin + Length <= Len(file) /\ end \in pos .. Length
  BY DEF LexInv, ReaderInv, LineInv, Length
<1>2. Len(word) = end - pos /\ word = SubSeq(file, j, begin + end)
  BY <1>1, SliceLength, SliceOfFile
<1>3. begin + end = Len(file) \/ file[begin + end + 1] \notin VARIABLE_CHARS
  <2>1. VARIABLE_CHARS \cap NEWLINES = {}
    BY Classes
  <2>. QED  BY <2>1, RunIsWhole
<1>. HIDE DEF word
<1>4. PICK after : after = j + Len(word)
  OBVIOUS
<1>5. after = begin + end + 1 /\ after - 1 = begin + end /\ after <= Len(file) + 1
  BY <1>1, <1>2, <1>4
<1>6. after = Len(file) + 1 \/ file[after] \notin VARIABLE_CHARS
  BY <1>1, <1>3, <1>5
<1>7. KEYWORD_MAP[word] = "REM" /\ SubSeq(file, j, after - 1) = word
  BY <1>2, <1>5 DEF word
<1>. HIDE DEF j
<1>8. RemAt(j, word)
  BY <1>4, <1>5, <1>6, <1>7 DEF RemAt
<1>. QED  BY <1>8 DEF word, j

LEMMA CoverNext ==
  ASSUME LexInv, LineInv, LineInv', ScanInv, TokensInv, TokensInv', CoverInv, [Next]_vars
  PROVE  CoverInv'
<1>1. CASE ReadNextLine
  <2>1. /\ Scanned = offset /\ tokens' = tokens /\ file' = file /\ status # "exit"
        /\ status' \in {"running", "done", "exit"} /\ offset \in Nat
        /\ status' = "running" => /\ Scanned' \in Nat /\ offset <= Scanned'
                                  /\ \/ Scanned' = offset
                                     \/ Scanned' = offset' /\ Length' = 0 /\ begin' = offset
        /\ status' = "done" => Scanned' = offset
    BY <1>1, ReadScans DEF ReadNextLine, LexInv, ReaderInv
  <2>2. ASSUME NEW i \in 1 .. offset
        PROVE  Accounted(i)'
    <3>1. Accounted(i)
      BY <2>1 DEF CoverInv
    <3>. QED  BY <2>1, <3>1 DEF Accounted, Lexeme, Comment, RemAt, Inside
  <2>3. ASSUME status' = "running", Scanned' = offset', Length' = 0, begin' = offset,
               NEW i \in offset + 1 .. offset'
        PROVE  Accounted(i)'
    <3>1. i \in (begin + Length + 1 .. offset)'
      BY <2>1, <2>3
    <3>2. file'[i] \in NEWLINES
      BY <2>3, <3>1 DEF LineInv
    <3>. QED  BY <3>2, Classes DEF Accounted
  <2>4. ASSUME status' # "exit", NEW i \in 1 .. Scanned'
        PROVE  Accounted(i)'
    <3>1. i \in Int /\ i >= 1
      <4>1. Scanned' \in Int
        BY <2>1, <2>4
      <4>. QED  BY <4>1
    <3>2. CASE i <= offset
      BY <2>1, <2>2, <3>1, <3>2
    <3>3. CASE i > offset
      <4>1. PICK next : next = offset'
        OBVIOUS
      <4>2. Scanned' = next /\ status' = "running" /\ Length' = 0 /\ begin' = offset
        BY <2>1, <2>4, <3>1, <3>3, <4>1
      <4>3. i \in offset + 1 .. next
        BY <2>1, <2>4, <3>1, <3>3, <4>2
      <4>. QED  BY <2>3, <4>1, <4>2, <4>3
    <3>. QED  BY <2>1, <3>1, <3>2, <3>3
  <2>. QED  BY <2>4 DEF CoverInv
<1>2. pos \in Nat /\ Length \in Nat /\ begin \in Nat
  BY DEF LexInv, ReaderInv, LineInv, Length
<1>3. ASSUME Fails
      PROVE  CoverInv'
  BY <1>3 DEF Fails, CoverInv
<1>4. ASSUME Advances
      PROVE  \A n \in 1 .. Length : file'[begin + n] = line_buffer[n] /\ file[begin + n] # "\n"
  BY <1>4 DEF Advances, readerVars, LineInv
<1>5. ASSUME NEW type, NEW end \in pos + 1 .. Length, Lexes(type, end)
      PROVE  CoverInv'
  <2>1. Advances /\ pos' = end /\ (Fails \/ Pushes(type, pos, end))
    BY <1>5 DEF Lexes
  <2>2. CASE Pushes(type, pos, end)
    <3>1. pos \in pos .. Length /\ end \in Nat
      BY <1>2
    <3>2. Adds
      BY <2>1, <2>2, <3>1, PushAdds
    <3>3. PICK t \in Lexeme' : t.from = begin + pos /\ t.upto = begin + end
      BY <2>2, Pushed
    <3>4. ASSUME NEW n \in pos + 1 .. end
          PROVE  begin + n \in t.from + 1 .. t.upto
      BY <1>2, <3>3
    <3>5. ASSUME NEW n \in pos + 1 .. Length, n <= end, NEW i \in {begin + n}
          PROVE  Accounted(i)'
      <4>1. n \in pos + 1 .. end
        BY <1>2, <3>1, <3>5
      <4>2. i \in t.from + 1 .. t.upto
        BY <3>4, <4>1
      <4>. QED  BY <4>2 DEF Accounted, Inside
    <3>6. \A n \in pos + 1 .. Length : n <= pos' => \A i \in {begin + n} : Accounted(i)'
      BY <2>1, <3>5
    <3>. QED  BY <2>1, <3>2, <3>6, CoverStep
  <2>. QED  BY <1>3, <2>1, <2>2
<1>6. CASE EatWhitespace
  <2>1. PICK end \in pos + 1 .. Length : pos' = end /\ IsRun(WHITESPACE_CHARS, end)
    BY <1>6, EatingWhitespace
  <2>2. Advances /\ Skips
    BY <1>6, EatingWhitespace
  <2>3. Adds
    BY <2>2, SkipAdds
  <2>4. ASSUME NEW n \in pos + 1 .. Length, n <= end, NEW i \in {begin + n}
        PROVE  Accounted(i)'
    <3>1. n \in 1 .. Length /\ n \in pos + 1 .. end
      BY <1>2, <2>4
    <3>2. file'[i] \in WHITESPACE_CHARS
      BY <1>4, <2>1, <2>2, <3>1 DEF IsRun
    <3>. QED  BY <3>2 DEF Accounted
  <2>5. \A n \in pos + 1 .. Length : n <= pos' => \A i \in {begin + n} : Accounted(i)'
    BY <2>1, <2>4
  <2>. QED  BY <2>2, <2>3, <2>5, CoverStep
<1>7. CASE StartString
  <2>1. Advances /\ Skips /\ pos' = pos
    BY <1>7, StartingString
  <2>2. Adds
    BY <2>1, SkipAdds
  <2>3. \A n \in pos + 1 .. Length : ~ (n <= pos)
    BY <1>2
  <2>. QED  BY <2>1, <2>2, <2>3, CoverStep
<1>8. CASE LexOperator
  BY <1>5, <1>8, LexingOperator
<1>9. CASE LexNumber
  BY <1>5, <1>9, LexingNumber
<1>10. CASE LexWord
  <2>1. PICK end \in pos + 1 .. Length :
           /\ IsRun(VARIABLE_CHARS, end)
           /\ \/ /\ Slice(pos, end) \in DOMAIN KEYWORD_MAP /\ KEYWORD_MAP[Slice(pos, end)] = "REM"
                 /\ Advances /\ Skips /\ ~ (pos' < Length)
              \/ \E type : Lexes(type, end)
    BY <1>10, LexingWord
  <2>2. CASE /\ Slice(pos, end) \in DOMAIN KEYWORD_MAP /\ KEYWORD_MAP[Slice(pos, end)] = "REM"
             /\ Advances /\ Skips /\ ~ (pos' < Length)
    <3>. DEFINE word == Slice(pos, end)
                j == begin + pos + 1
    <3>1. Adds
      BY <2>2, SkipAdds
    <3>2. RemAt(j, word)
      BY <1>2, <2>1, <2>2, RemIsAt DEF Advances
    <3>3. \A t \in Lexeme : t.from \in Nat /\ t.upto \in Nat /\ t.upto <= begin + pos
      <4>1. \A t \in Lexeme : t \in TokenSet /\ t.upto <= Scanned
        BY <2>2 DEF TokensInv, Lexeme, Advances
      <4>2. Scanned = begin + pos
        BY <2>2, ScannedGrows
      <4>. QED  BY <4>1, <4>2 DEF TokenSet
    <3>4. Lexeme' = Lexeme /\ file' = file
      BY <2>2 DEF Skips, Lexeme, Advances, readerVars
    <3>. HIDE DEF word
    <3>5. ASSUME NEW n \in pos + 1 .. Length, NEW i \in {begin + n}
          PROVE  Accounted(i)'
      <4>1. j \in 1 .. i /\ i \in Int
        BY <1>2
      <4>2. ASSUME NEW k \in j .. i
            PROVE  file[k] # "\n" /\ \A t \in Lexeme : ~ Inside(k, t)
        <5>1. k - begin \in 1 .. Length /\ begin + (k - begin) = k
          BY <1>2
        <5>2. file[k] # "\n"
          BY <1>4, <2>2, <5>1
        <5>3. \A t \in Lexeme : ~ (k \in t.from + 1 .. t.upto)
          BY <1>2, <3>3
        <5>. QED  BY <5>2, <5>3 DEF Inside
      <4>3. Comment(i)
        BY <2>2, <3>2, <4>1, <4>2 DEF Comment, word
      <4>4. Comment(i)'
        BY <3>4, <4>3 DEF Comment, RemAt, Inside
      <4>. QED  BY <4>4 DEF Accounted
    <3>6. \A n \in pos + 1 .. Length : n <= pos' => \A i \in {begin + n} : Accounted(i)'
      BY <3>5
    <3>. QED  BY <2>2, <3>1, <3>6, CoverStep
  <2>. QED  BY <1>5, <2>1, <2>2
<1>11. CASE InvalidChar
  <2>1. /\ Advances /\ pos' = pos + 1 /\ pos + 1 \in pos .. Length
        /\ Fails \/ Pushes("UNKNOWN", pos, pos + 1)
    BY <1>11, Refusing
  <2>2. CASE Pushes("UNKNOWN", pos, pos + 1)
    <3>1. pos \in pos .. Length /\ pos + 1 \in Nat
      BY <1>2, <2>1
    <3>2. Adds
      BY <2>1, <2>2, <3>1, PushAdds
    <3>3. PICK t \in Lexeme' : t.from = begin + pos /\ t.upto = begin + (pos + 1)
      BY <2>2, Pushed
    <3>4. ASSUME NEW n \in pos + 1 .. Length, n <= pos + 1, NEW i \in {begin + n}
          PROVE  Accounted(i)'
      <4>1. n = pos + 1
        BY <1>2, <3>4
      <4>2. i \in t.from + 1 .. t.upto
        BY <1>2, <3>3, <4>1
      <4>. QED  BY <4>2 DEF Accounted, Inside
    <3>5. \A n \in pos + 1 .. Length : n <= pos' => \A i \in {begin + n} : Accounted(i)'
      BY <2>1, <3>4
    <3>. QED  BY <2>1, <3>2, <3>5, CoverStep
  <2>. QED  BY <1>3, <2>1, <2>2
<1>12. CASE ParseString
  <2>1. Advances /\ line_buffer[pos + 1] \in STRING_DELIMS /\ line_buffer[pos + 1] = delim
    BY <1>12, ParsingString
  <2>2. pos \in Nat /\ pos + 1 \in pos .. Length /\ pos + 1 \in 1 .. Length
    BY <1>2, <2>1 DEF Advances
  <2>3. ASSUME NEW type, NEW end \in pos + 1 .. Length, Pushes(type, pos + 1, end),
               NEW next \in Nat, pos' = next,
               \/ next = end
               \/ type = "STRING" /\ next = end + 1 /\ next <= Length /\ line_buffer[next] = delim
        PROVE  CoverInv'
    <3>1. Adds
      <4>1. end \in Nat
        BY <1>2
      <4>. QED  BY <2>1, <2>2, <2>3, <4>1, PushAdds
    <3>2. PICK t \in Lexeme' : t.type = type /\ t.from = begin + (pos + 1) /\ t.upto = begin + end
      BY <2>3, Pushed
    <3>3. ASSUME NEW n \in pos + 1 .. Length, n <= next, NEW i \in {begin + n}
          PROVE  Accounted(i)'
      <4>1. n \in 1 .. Length /\ n \in Nat /\ end \in Nat
        BY <1>2
      <4>2. CASE n = pos + 1
        <5>1. i = t.from
          BY <3>2, <4>2
        <5>2. file'[i] \in STRING_DELIMS
          BY <1>4, <2>1, <4>1, <4>2
        <5>. QED  BY <5>1, <5>2 DEF Accounted
      <4>3. CASE n > pos + 1 /\ n <= end
        <5>1. i \in t.from + 1 .. t.upto
          BY <1>2, <3>2, <4>1, <4>3
        <5>. QED  BY <5>1 DEF Accounted, Inside
      <4>4. CASE n = end + 1 /\ next = n /\ type = "STRING" /\ line_buffer[next] = delim
        <5>1. t.upto + 1 = i /\ t.type = "STRING"
          BY <1>2, <3>2, <4>1, <4>4
        <5>2. file'[i] \in STRING_DELIMS
          BY <1>4, <2>1, <4>1, <4>4
        <5>. QED  BY <5>1, <5>2 DEF Accounted
      <4>. QED  BY <1>2, <2>3, <3>3, <4>1, <4>2, <4>3, <4>4
    <3>4. \A n \in pos + 1 .. Length : n <= pos' => \A i \in {begin + n} : Accounted(i)'
      BY <2>3, <3>3
    <3>. QED  BY <2>1, <3>1, <3>4, CoverStep
  <2>4. CASE \E c \in pos + 1 .. Length - 1 :
               /\ line_buffer[c + 1] = delim /\ pos' = c + 1
               /\ Fails \/ Pushes("STRING", pos + 1, c)
    <3>1. PICK c \in pos + 1 .. Length - 1 :
               /\ line_buffer[c + 1] = delim /\ pos' = c + 1
               /\ Fails \/ Pushes("STRING", pos + 1, c)
      BY <2>4
    <3>2. c \in pos + 1 .. Length /\ c + 1 \in Nat /\ c + 1 <= Length
      BY <1>2
    <3>. QED  BY <1>3, <2>3, <3>1, <3>2
  <2>5. CASE pos' = Length /\ (Fails \/ Pushes("UNKNOWN", pos + 1, Length))
    <3>1. Length \in pos + 1 .. Length
      BY <1>2, <2>2
    <3>. QED  BY <1>2, <1>3, <2>3, <2>5, <3>1
  <2>. QED  BY <1>12, <2>4, <2>5, ParsingString
<1>13. CASE Stopped \/ UNCHANGED vars
  <2>1. /\ file' = file /\ tokens' = tokens /\ status' = status /\ Scanned' = Scanned
    BY <1>13 DEF Stopped, vars, arrayVars, readerVars, Scanned, Length
  <2>2. \A i : Accounted(i)' <=> Accounted(i)
    BY <2>1 DEF Accounted, Lexeme, Comment, RemAt, Inside
  <2>. QED  BY <2>1, <2>2 DEF CoverInv
<1>. QED
  BY <1>1, <1>6, <1>7, <1>8, <1>9, <1>10, <1>11, <1>12, <1>13 DEF Next

-----------------------------------------------------------------------------
(***************************************************************************)
(* Every error keeps its token.                                            *)
(***************************************************************************)
LEMMA ErrorsStay ==
  ASSUME TokensInv, ErrorsHaveTokens, status # "exit", errors' = errors,
         tokens' = tokens \/ \E t : tokens' = Append(tokens, t)
  PROVE  ErrorsHaveTokens'
<1>. DEFINE n == Len(tokens)
<1>1. /\ n \in Nat /\ Len(tokens') \in {n, n + 1}
      /\ \A k \in 1 .. n : tokens'[k] = tokens[k]
  BY DEF TokensInv
<1>. HIDE DEF n
<1>2. PICK owner \in [1 .. Len(errors) -> 1 .. n] :
        /\ \A k, l \in 1 .. Len(errors) : k < l => owner[k] < owner[l]
        /\ \A k \in 1 .. Len(errors) :
             /\ tokens[owner[k]].type = "UNKNOWN"
             /\ tokens[owner[k]].line = errors[k].line
             /\ tokens[owner[k]].col - errors[k].col \in {0, 1}
  BY DEF ErrorsHaveTokens, n
<1>3. \A k \in 1 .. Len(errors) : owner[k] \in 1 .. n /\ tokens'[owner[k]] = tokens[owner[k]]
  BY <1>1
<1>4. PICK size : size = Len(tokens')
  OBVIOUS
<1>5. 1 .. n \subseteq 1 .. size
  BY <1>1, <1>4
<1>6. owner \in [1 .. Len(errors) -> 1 .. size]
  BY <1>5
<1>7. \A k \in 1 .. Len(errors) :
        /\ tokens'[owner[k]].type = "UNKNOWN"
        /\ tokens'[owner[k]].line = errors[k].line
        /\ tokens'[owner[k]].col - errors[k].col \in {0, 1}
  BY <1>2, <1>3
<1>8. owner \in [1 .. Len(errors) -> 1 .. Len(tokens')]
  BY <1>4, <1>6
<1>. QED  BY <1>2, <1>7, <1>8, ZenonT(40) DEF ErrorsHaveTokens

LEMMA ErrorAdded ==
  ASSUME TokensInv, ErrorsHaveTokens, status # "exit", begin \in Nat, line \in Nat,
         NEW col \in Nat, NEW from \in Nat, from + 1 - col \in {0, 1}, NEW upto,
         errors' = Reported(col), Pushes("UNKNOWN", from, upto)
  PROVE  ErrorsHaveTokens'
<1>1. PICK place : tokens' = Append(tokens, NewToken("UNKNOWN", place, from, upto))
  BY DEF Pushes
<1>. DEFINE n == Len(tokens)
            m == Len(errors)
            t == NewToken("UNKNOWN", place, from, upto)
            e == [line |-> line, col |-> col]
<1>2. t.type = "UNKNOWN" /\ t.line = line /\ t.col = from + 1 /\ e.line = line /\ e.col = col
  BY DEF NewToken, Token
<1>. HIDE DEF t, e
<1>3. /\ n \in Nat /\ m \in Nat /\ Len(tokens') = n + 1 /\ Len(errors') = m + 1
      /\ tokens'[n + 1] = t /\ errors'[m + 1] = e
      /\ \A k \in 1 .. n : tokens'[k] = tokens[k]
      /\ \A k \in 1 .. m : errors'[k] = errors[k]
  BY <1>1 DEF TokensInv, Reported, t, e
<1>4. PICK owner \in [1 .. m -> 1 .. n] :
        /\ \A k, l \in 1 .. m : k < l => owner[k] < owner[l]
        /\ \A k \in 1 .. m :
             /\ tokens[owner[k]].type = "UNKNOWN"
             /\ tokens[owner[k]].line = errors[k].line
             /\ tokens[owner[k]].col - errors[k].col \in {0, 1}
  BY DEF ErrorsHaveTokens
<1>. HIDE DEF n, m
<1>. DEFINE new == [k \in 1 .. m + 1 |-> IF k = m + 1 THEN n + 1 ELSE owner[k]]
<1>5. new[m + 1] = n + 1 /\ \A k \in 1 .. m : new[k] = owner[k] /\ new[k] \in 1 .. n
  BY <1>3
<1>6. new \in [1 .. m + 1 -> 1 .. n + 1]
  BY <1>3, <1>5
<1>. HIDE DEF new
<1>7. ASSUME NEW k \in 1 .. m + 1, NEW l \in 1 .. m + 1, k < l
      PROVE  new[k] < new[l]
  <2>1. k \in 1 .. m
    BY <1>3, <1>7
  <2>2. CASE l \in 1 .. m
    BY <1>4, <1>5, <1>7, <2>1, <2>2
  <2>3. CASE l = m + 1
    BY <1>3, <1>5, <2>1, <2>3
  <2>. QED  BY <1>3, <2>2, <2>3
<1>8. ASSUME NEW k \in 1 .. m + 1
      PROVE  /\ tokens'[new[k]].type = "UNKNOWN"
             /\ tokens'[new[k]].line = errors'[k].line
             /\ tokens'[new[k]].col - errors'[k].col \in {0, 1}
  <2>1. CASE k \in 1 .. m
    BY <1>3, <1>4, <1>5, <2>1
  <2>2. CASE k = m + 1
    BY <1>2, <1>3, <1>5, <2>2
  <2>. QED  BY <1>3, <2>1, <2>2
<1>. QED  BY <1>3, <1>6, <1>7, <1>8 DEF ErrorsHaveTokens

LEMMA ErrorsNext ==
  ASSUME LexInv, LineInv, ScanInv, TokensInv, ErrorsHaveTokens, [Next]_vars
  PROVE  ErrorsHaveTokens'
<1>1. CASE status' = "exit"
  BY <1>1 DEF ErrorsHaveTokens
<1>2. pos \in Nat /\ begin \in Nat /\ Length \in Nat
  BY DEF LexInv, ReaderInv, LineInv, Length
<1>3. ASSUME NEW type, NEW from, NEW upto, Fails \/ Pushes(type, from, upto), errors' = errors,
             status = "running"
      PROVE  ErrorsHaveTokens'
  <2>1. CASE Pushes(type, from, upto)
    BY <1>3, <2>1, ErrorsStay DEF Pushes
  <2>. QED  BY <1>1, <1>3, <2>1 DEF Fails
<1>4. ASSUME Skips, errors' = errors, status = "running"
      PROVE  ErrorsHaveTokens'
  BY <1>4, ErrorsStay DEF Skips
<1>5. ASSUME NEW from \in Nat, from + 1 - (pos + 1) \in {0, 1}, NEW upto,
             Fails \/ Pushes("UNKNOWN", from, upto), errors' = Reported(pos + 1), Advances
      PROVE  ErrorsHaveTokens'
  <2>1. CASE Pushes("UNKNOWN", from, upto)
    <3>1. line \in Nat /\ status # "exit" /\ pos + 1 \in Nat
      BY <1>2, <1>5, LineCounts DEF Advances
    <3>. QED  BY <1>2, <1>5, <2>1, <3>1, ErrorAdded
  <2>. QED  BY <1>1, <1>5, <2>1 DEF Fails
<1>6. CASE ReadNextLine
  <2>1. tokens' = tokens /\ errors' = errors /\ status = "running"
    BY <1>6 DEF ReadNextLine, arrayVars
  <2>. QED  BY <2>1, ErrorsStay
<1>7. CASE EatWhitespace
  BY <1>4, <1>7, EatingWhitespace DEF Advances
<1>8. CASE StartString
  BY <1>4, <1>8, StartingString DEF Advances
<1>9. CASE LexOperator
  BY <1>3, <1>9, LexingOperator DEF Lexes, Advances
<1>10. CASE LexNumber
  BY <1>3, <1>10, LexingNumber DEF Lexes, Advances
<1>11. CASE LexWord
  BY <1>3, <1>4, <1>11, LexingWord DEF Lexes, Advances
<1>12. CASE InvalidChar
  <2>1. pos + 1 - (pos + 1) \in {0, 1}
    BY <1>2
  <2>. QED  BY <1>2, <1>5, <1>12, <2>1, Refusing
<1>13. CASE ParseString
  <2>1. pos + 1 \in Nat /\ pos + 1 + 1 - (pos + 1) \in {0, 1}
    BY <1>2
  <2>2. status = "running" /\ Advances
    BY <1>13, ParsingString DEF Advances
  <2>3. CASE \E c \in pos + 1 .. Length - 1 :
               errors' = errors /\ (Fails \/ Pushes("STRING", pos + 1, c))
    BY <1>3, <2>2, <2>3
  <2>4. CASE /\ errors' \in {errors, Reported(pos + 1)}
             /\ Fails \/ Pushes("UNKNOWN", pos + 1, Length)
    BY <1>3, <1>5, <2>1, <2>2, <2>4
  <2>. QED  BY <1>13, <2>3, <2>4, ParsingString
<1>14. CASE Stopped \/ UNCHANGED vars
  BY <1>14 DEF Stopped, vars, arrayVars, ErrorsHaveTokens
<1>. QED
  BY <1>6, <1>7, <1>8, <1>9, <1>10, <1>11, <1>12, <1>13, <1>14 DEF Next

LEMMA LineNext ==
  ASSUME LexInv, LineInv, ScanInv, [Next]_vars
  PROVE  LineInv'
<1>1. CASE ReadNextLine
  <2>1. status = "running" /\ ReaderInv
    BY <1>1 DEF ReadNextLine, LexInv
  <2>2. CASE ReadLine
    BY <2>1, <2>2, ReadingALine
  <2>3. CASE (EndOfFile /\ status' = "done") \/ ((LineTooBig \/ CantRead) /\ status' = "exit")
    BY <2>1, <2>3, ReadingNothing
  <2>. QED  BY <1>1, <2>2, <2>3 DEF ReadNextLine
<1>2. CASE Advances
  BY <1>2, ScanKeepsLine DEF Advances
<1>3. CASE Stopped \/ UNCHANGED vars
  BY <1>3, ScanKeepsLine DEF Stopped, vars
<1>. QED
  BY <1>1, <1>2, <1>3, EatingWhitespace, StartingString, ParsingString, LexingOperator,
     LexingNumber, LexingWord, Refusing DEF Next, Lexes

-----------------------------------------------------------------------------
(***************************************************************************)
(* What the file has at a token is a lexeme of its type.                   *)
(***************************************************************************)
Shaped(t) ==
  CASE t.type = "NUMBER" -> /\ LongestRun(t, NUMERIC_CHARS)
                            /\ Before(t) \notin Letters \cup NUMERIC_CHARS
    [] t.type = "IDENT" -> IsWord(t) /\ Source(t) \notin DOMAIN KEYWORD_MAP
    [] t.type \in Keywords -> IsWord(t) /\ KEYWORD_MAP[Source(t)] = t.type
    [] t.type = "STRING" -> Before(t) \in STRING_DELIMS /\ After(t) = Before(t)
    [] t.type = "UNKNOWN" -> TRUE
    [] OTHER -> /\ LongestRun(t, OPERATOR_CHARS)
                /\ Before(t) \notin OPERATOR_CHARS
                /\ OPERATOR_MAP(Source(t)) = t.type
ShapeInv == \A k \in 1 .. Len(tokens) : Shaped(tokens[k])

\* The guards of Shaped exclude each other.
LEMMA ShapedIs ==
  ASSUME NEW t
  PROVE  /\ t.type = "NUMBER" => (Shaped(t) <=> /\ LongestRun(t, NUMERIC_CHARS)
                                              /\ Before(t) \notin Letters \cup NUMERIC_CHARS)
         /\ t.type = "IDENT" => (Shaped(t) <=> IsWord(t) /\ Source(t) \notin DOMAIN KEYWORD_MAP)
         /\ t.type \in Keywords => (Shaped(t) <=> IsWord(t) /\ KEYWORD_MAP[Source(t)] = t.type)
         /\ t.type = "STRING" => (Shaped(t) <=> Before(t) \in STRING_DELIMS /\ After(t) = Before(t))
         /\ t.type = "UNKNOWN" => Shaped(t)
         /\ /\ t.type \in Operators
            /\ LongestRun(t, OPERATOR_CHARS)
            /\ Before(t) \notin OPERATOR_CHARS
            /\ OPERATOR_MAP(Source(t)) = t.type
            => Shaped(t)
<1>1. /\ t.type \in Keywords => t.type \notin Operators \cup {"NUMBER", "IDENT", "STRING", "UNKNOWN"}
      /\ t.type \in Operators => t.type \notin {"NUMBER", "IDENT", "STRING"}
  BY KindsApart DEF Literals
<1>2. CASE t.type = "NUMBER"
  BY <1>1, <1>2 DEF Shaped
<1>3. CASE t.type = "IDENT"
  BY <1>1, <1>3 DEF Shaped
<1>4. CASE t.type \in Keywords
  BY <1>1, <1>4 DEF Shaped
<1>5. CASE t.type = "STRING"
  BY <1>1, <1>5 DEF Shaped
<1>6. CASE t.type = "UNKNOWN"
  BY <1>1, <1>6 DEF Shaped
<1>7. CASE t.type \notin Keywords \cup {"NUMBER", "IDENT", "STRING", "UNKNOWN"}
  BY <1>7 DEF Shaped
<1>. QED  BY <1>2, <1>3, <1>4, <1>5, <1>6, <1>7

\* The run that a token stands for is whole, at both ends.
LEMMA RunShape ==
  ASSUME LexInv, LineInv, ScanInv, status = "running", delim = "none", pos < Length,
         NEW chars, chars \cap NEWLINES = {},
         NEW end \in pos + 1 .. Length, IsRun(chars, end),
         NEW t, t.from = begin + pos, t.upto = begin + end
  PROVE  /\ LongestRun(t, chars)
         /\ Source(t) = Slice(pos, end)
         /\ line_buffer[pos + 1] \in chars /\ file[t.from + 1] = line_buffer[pos + 1]
         /\ line_buffer[pos + 1] \in Letters => Before(t) \notin Letters
         /\ line_buffer[pos + 1] \in NUMERIC_CHARS => Before(t) \notin Letters \cup NUMERIC_CHARS
         /\ line_buffer[pos + 1] \in OPERATOR_CHARS => Before(t) \notin OPERATOR_CHARS
<1>1. /\ Length \in Nat /\ begin \in Nat /\ pos \in Nat /\ Len(file) \in Nat
      /\ begin + Length <= Len(file) /\ pos + 1 \in 1 .. Length /\ end \in pos .. Length
      /\ begin = 0 \/ file[begin] = "\n"
      /\ \A i \in 1 .. Length : line_buffer[i] = file[begin + i]
  BY DEF LexInv, ReaderInv, LineInv, Length
<1>2. /\ t.from \in Nat /\ t.upto > t.from /\ t.from + 1 = begin + (pos + 1)
      /\ t.from + 1 = begin + pos + 1
  BY <1>1
<1>3. file[t.from + 1] = line_buffer[pos + 1] /\ line_buffer[pos + 1] \in chars
  BY <1>1, <1>2 DEF IsRun
<1>4. LongestRun(t, chars)
  <2>1. ASSUME NEW i \in t.from + 1 .. t.upto
        PROVE  file[i] \in chars
    <3>1. i - begin \in pos + 1 .. end /\ i - begin \in 1 .. Length /\ begin + (i - begin) = i
      BY <1>1
    <3>. QED  BY <1>1, <3>1 DEF IsRun
  <2>2. After(t) \notin chars
    <3>1. t.upto = Len(file) \/ file[t.upto + 1] \notin chars
      BY RunIsWhole
    <3>. QED  BY <3>1 DEF After, NEWLINES
  <2>. QED  BY <1>2, <2>1, <2>2 DEF LongestRun
<1>5. Source(t) = Slice(pos, end)
  BY <1>1, <1>2, SliceOfFile DEF Source
<1>6. Before(t) = "\n" \/ (0 < pos /\ Before(t) = line_buffer[pos])
  <2>1. CASE pos = 0
    BY <1>1, <2>1 DEF Before
  <2>2. CASE pos # 0
    <3>1. pos \in 1 .. Length /\ begin + pos # 0 /\ 0 < pos
      BY <1>1, <2>2
    <3>. QED  BY <1>1, <3>1 DEF Before
  <2>. QED  BY <2>1, <2>2
<1>7. "\n" \notin Letters \cup NUMERIC_CHARS \cup OPERATOR_CHARS
  <2>1. "\n" \in WHITESPACE_CHARS
    BY DEF WHITESPACE_CHARS
  <2>. QED  BY <2>1, Classes
<1>8. 0 < pos => /\ line_buffer[pos] \in Letters => line_buffer[pos + 1] \notin VARIABLE_CHARS
                 /\ line_buffer[pos] \in NUMERIC_CHARS => line_buffer[pos + 1] \notin NUMERIC_CHARS
                 /\ line_buffer[pos] \in OPERATOR_CHARS => line_buffer[pos + 1] \notin OPERATOR_CHARS
  BY DEF ScanInv
<1>. QED  BY <1>3, <1>4, <1>5, <1>6, <1>7, <1>8, Classes

\* A new token of a shape keeps the shapes of all.
LEMMA ShapesStep ==
  ASSUME TokensInv, ShapeInv, file' = file,
         \/ tokens' = tokens
         \/ \E t : tokens' = Append(tokens, t) /\ Shaped(t)
  PROVE  ShapeInv'
<1>1. \A t : Shaped(t)' <=> Shaped(t)
  BY DEF Shaped, IsWord, LongestRun, Before, After, Source
<1>2. CASE tokens' = tokens
  BY <1>1, <1>2 DEF ShapeInv
<1>3. ASSUME NEW t, tokens' = Append(tokens, t), Shaped(t)
      PROVE  ShapeInv'
  <2>. DEFINE n == Len(tokens)
  <2>1. /\ n \in Nat /\ Len(tokens') = n + 1 /\ tokens'[n + 1] = t
        /\ \A k \in 1 .. n : tokens'[k] = tokens[k]
    BY <1>3 DEF TokensInv
  <2>. HIDE DEF n
  <2>2. ASSUME NEW k \in 1 .. n + 1
        PROVE  Shaped(tokens'[k])
    <3>1. CASE k \in 1 .. n
      BY <2>1, <3>1 DEF ShapeInv, n
    <3>. QED  BY <1>3, <2>1, <3>1
  <2>. QED  BY <1>1, <2>1, <2>2 DEF ShapeInv
<1>. QED  BY <1>2, <1>3

LEMMA ShapeNext ==
  ASSUME LexInv, LineInv, ScanInv, TokensInv, ShapeInv, [Next]_vars
  PROVE  ShapeInv'
<1>1. /\ pos \in Nat /\ begin \in Nat /\ Length \in Nat /\ Len(file) \in Nat
      /\ begin + Length <= Len(file)
      /\ \A i \in 1 .. Length : line_buffer[i] = file[begin + i]
  BY DEF LexInv, ReaderInv, LineInv, Length
<1>2. ASSUME file' = file, tokens' = tokens
      PROVE  ShapeInv'
  BY <1>2, ShapesStep
<1>3. ASSUME NEW type, NEW from, NEW upto, file' = file, Fails \/ Pushes(type, from, upto),
             \A t : t.type = type /\ t.from = begin + from /\ t.upto = begin + upto => Shaped(t)
      PROVE  ShapeInv'
  <2>1. CASE Pushes(type, from, upto)
    <3>1. PICK place : tokens' = Append(tokens, NewToken(type, place, from, upto))
      BY <2>1 DEF Pushes
    <3>. DEFINE t == NewToken(type, place, from, upto)
    <3>2. t.type = type /\ t.from = begin + from /\ t.upto = begin + upto
      BY DEF NewToken, Token
    <3>. HIDE DEF t
    <3>3. Shaped(t)
      BY <1>3, <3>2
    <3>. QED  BY <1>3, <3>1, <3>3, ShapesStep DEF t
  <2>. QED  BY <1>2, <1>3, <2>1 DEF Fails
<1>4. \A chars \in {OPERATOR_CHARS, NUMERIC_CHARS, VARIABLE_CHARS} : chars \cap NEWLINES = {}
  BY Classes
<1>5. \A t : t.type = "UNKNOWN" => Shaped(t)
  BY ShapedIs
<1>6. CASE ReadNextLine
  BY <1>2, <1>6, ReadScans
<1>7. CASE EatWhitespace
  BY <1>2, <1>7, EatingWhitespace DEF Advances, Skips, readerVars
<1>8. CASE StartString
  BY <1>2, <1>8, StartingString DEF Advances, Skips, readerVars
<1>9. CASE LexOperator
  <2>1. PICK end \in pos + 1 .. Length :
          IsRun(OPERATOR_CHARS, end) /\ Lexes(OPERATOR_MAP(Slice(pos, end)), end)
    BY <1>9, LexingOperator
  <2>. DEFINE type == OPERATOR_MAP(Slice(pos, end))
  <2>2. type \in Operators \cup {"UNKNOWN"}
    BY <2>1, RunTypes
  <2>3. status = "running" /\ delim = "none" /\ pos < Length /\ file' = file
    BY <1>9 DEF LexOperator, ScansOneOf, readerVars
  <2>4. ASSUME NEW t, t.type = type, t.from = begin + pos, t.upto = begin + end
        PROVE  Shaped(t)
    <3>1. /\ LongestRun(t, OPERATOR_CHARS) /\ Source(t) = Slice(pos, end)
          /\ Before(t) \notin OPERATOR_CHARS
      BY <1>4, <2>1, <2>3, <2>4, RunShape
    <3>. QED  BY <2>2, <2>4, <3>1, ShapedIs
  <2>. HIDE DEF type
  <2>. QED  BY <1>3, <2>1, <2>3, <2>4 DEF Lexes, type
<1>10. CASE LexNumber
  <2>1. PICK end \in pos + 1 .. Length : IsRun(NUMERIC_CHARS, end) /\ Lexes("NUMBER", end)
    BY <1>10, LexingNumber
  <2>2. status = "running" /\ delim = "none" /\ pos < Length /\ file' = file
    BY <1>10 DEF LexNumber, ScansOneOf, readerVars
  <2>3. ASSUME NEW t, t.type = "NUMBER", t.from = begin + pos, t.upto = begin + end
        PROVE  Shaped(t)
    <3>1. LongestRun(t, NUMERIC_CHARS) /\ Before(t) \notin Letters \cup NUMERIC_CHARS
      BY <1>4, <2>1, <2>2, <2>3, RunShape
    <3>. QED  BY <2>3, <3>1, ShapedIs
  <2>. QED  BY <1>3, <2>1, <2>2, <2>3 DEF Lexes
<1>11. CASE LexWord
  <2>1. PICK end \in pos + 1 .. Length :
           /\ IsRun(VARIABLE_CHARS, end) /\ line_buffer[pos + 1] \in Letters
           /\ \/ Skips
              \/ /\ Slice(pos, end) \in DOMAIN KEYWORD_MAP
                 /\ Lexes(KEYWORD_MAP[Slice(pos, end)], end)
              \/ Slice(pos, end) \notin DOMAIN KEYWORD_MAP /\ Lexes("IDENT", end)
    BY <1>11, LexingWord
  <2>2. status = "running" /\ delim = "none" /\ pos < Length /\ file' = file
    BY <1>11 DEF LexWord, ScansOneOf, readerVars
  <2>3. ASSUME NEW t, t.from = begin + pos, t.upto = begin + end
        PROVE  IsWord(t) /\ Source(t) = Slice(pos, end)
    BY <1>4, <2>1, <2>2, <2>3, RunShape DEF IsWord
  <2>4. CASE Slice(pos, end) \in DOMAIN KEYWORD_MAP /\ Lexes(KEYWORD_MAP[Slice(pos, end)], end)
    <3>. DEFINE type == KEYWORD_MAP[Slice(pos, end)]
    <3>1. type \in Keywords
      BY <2>4, KindsApart
    <3>2. ASSUME NEW t, t.type = type, t.from = begin + pos, t.upto = begin + end
          PROVE  Shaped(t)
      BY <2>3, <3>1, <3>2, ShapedIs
    <3>. HIDE DEF type
    <3>. QED  BY <1>3, <2>2, <2>4, <3>2 DEF Lexes, type
  <2>5. CASE Slice(pos, end) \notin DOMAIN KEYWORD_MAP /\ Lexes("IDENT", end)
    <3>1. ASSUME NEW t, t.type = "IDENT", t.from = begin + pos, t.upto = begin + end
          PROVE  Shaped(t)
      BY <2>3, <2>5, <3>1, ShapedIs
    <3>. QED  BY <1>3, <2>2, <2>5, <3>1 DEF Lexes
  <2>. QED  BY <1>2, <2>1, <2>2, <2>4, <2>5 DEF Skips
<1>12. CASE InvalidChar
  <2>1. Fails \/ Pushes("UNKNOWN", pos, pos + 1)
    BY <1>12, Refusing
  <2>2. file' = file
    BY <1>12 DEF InvalidChar, ScansOneOf, readerVars
  <2>. QED  BY <1>3, <1>5, <2>1, <2>2
<1>13. CASE ParseString
  <2>1. /\ Advances /\ line_buffer[pos + 1] = delim /\ delim \in STRING_DELIMS
        /\ file' = file /\ pos + 1 \in 1 .. Length
    BY <1>1, <1>13, ParsingString DEF Advances, readerVars
  <2>2. CASE Fails \/ Pushes("UNKNOWN", pos + 1, Length)
    BY <1>3, <1>5, <2>1, <2>2
  <2>3. ASSUME NEW c \in pos + 1 .. Length - 1, line_buffer[c + 1] = delim,
               Fails \/ Pushes("STRING", pos + 1, c)
        PROVE  ShapeInv'
    <3>1. ASSUME NEW t, t.type = "STRING", t.from = begin + (pos + 1), t.upto = begin + c
          PROVE  Shaped(t)
      <4>1. /\ t.from # 0 /\ t.upto # Len(file) /\ t.upto + 1 = begin + (c + 1)
            /\ c + 1 \in 1 .. Length
        BY <1>1, <2>1, <2>3, <3>1
      <4>2. Before(t) = delim /\ After(t) = delim
        BY <1>1, <2>1, <2>3, <3>1, <4>1 DEF Before, After
      <4>. QED  BY <2>1, <3>1, <4>2, ShapedIs
    <3>. QED  BY <1>3, <2>1, <2>3, <3>1
  <2>. QED  BY <1>13, <2>2, <2>3, ParsingString
<1>14. CASE Stopped \/ UNCHANGED vars
  BY <1>2, <1>14 DEF Stopped, vars, arrayVars, readerVars
<1>. QED
  BY <1>6, <1>7, <1>8, <1>9, <1>10, <1>11, <1>12, <1>13, <1>14 DEF Next

-----------------------------------------------------------------------------
(***************************************************************************)
(* The texts of the tokens, and the room for the tokens.                   *)
(***************************************************************************)
TextOf(t) ==
  IF t.type = "STRING" THEN CString(string_clean_escape_sequences(Source(t))) ELSE Source(t)
TextRight(t) ==
  /\ t.type \in {"NUMBER", "IDENT", "STRING"} => t.text # NULL
  /\ t.text # NULL => HoldsText(t.text, TextOf(t))
TextInv == \A k \in 1 .. Len(tokens) : TextRight(tokens[k])

\* A step that leaves the texts there are, and adds a token with a right one.
LEMMA TextsStep ==
  ASSUME TokensInv, TextInv, file' = file,
         \A place, str : HoldsText(place, str) => HoldsText(place, str)',
         tokens' = tokens \/ \E t : tokens' = Append(tokens, t) /\ TextRight(t)'
  PROVE  TextInv'
<1>1. ASSUME NEW t, TextRight(t)
      PROVE  TextRight(t)'
  BY <1>1 DEF TextRight, TextOf, Source
<1>2. CASE tokens' = tokens
  BY <1>1, <1>2 DEF TextInv
<1>3. ASSUME NEW t, tokens' = Append(tokens, t), TextRight(t)'
      PROVE  TextInv'
  <2>. DEFINE n == Len(tokens)
  <2>1. /\ n \in Nat /\ Len(tokens') = n + 1 /\ tokens'[n + 1] = t
        /\ \A k \in 1 .. n : tokens'[k] = tokens[k]
    BY <1>3 DEF TokensInv
  <2>. HIDE DEF n
  <2>2. ASSUME NEW k \in 1 .. n + 1, NEW u, u = tokens'[k]
        PROVE  TextRight(u)'
    <3>1. CASE k \in 1 .. n
      <4>1. TextRight(u)
        BY <2>1, <2>2, <3>1 DEF TextInv, n
      <4>. QED  BY <1>1, <4>1
    <3>2. CASE k = n + 1
      <4>1. u = t
        BY <2>1, <2>2, <3>2
      <4>. QED  BY <1>3, <4>1
    <3>. QED  BY <2>1, <3>1, <3>2
  <2>3. \A k \in 1 .. n + 1 : \A u : u = tokens'[k] => TextRight(u)'
    BY <2>2
  <2>. QED  BY <2>1, <2>3 DEF TextInv, TextRight, TextOf, Source
<1>. QED  BY <1>2, <1>3

LEMMA PushText ==
  ASSUME LexInv, LineInv, TokensInv, TextInv, file' = file, status = "running",
         NEW type, NEW from \in Nat, NEW upto \in from .. Length,
         \/ PushSimple(type, from, upto) /\ type \notin {"NUMBER", "IDENT", "STRING"}
         \/ type # "STRING" /\ Push(type, from, upto)
         \/ type = "STRING" /\ PushString(from, upto)
  PROVE  TextInv'
<1>. DEFINE text == Slice(from, upto)
            size == SizeOf(text)
            token == Token(type, from, upto)
<1>1. CASE UNCHANGED arrayVars
  BY <1>1, TextKept, TextsStep DEF arrayVars, arenaVars
<1>2. CASE token_array_push_simple(token) /\ type \notin {"NUMBER", "IDENT", "STRING"}
  <2>1. token.type = type /\ token.text = NULL
    BY DEF Token
  <2>2. \A t : t = token => TextRight(t)'
    <3>. HIDE DEF token
    <3>. QED  BY <1>2, <2>1 DEF TextRight
  <2>3. tokens' = Append(tokens, token) /\ UNCHANGED <<blocks, heap>>
    BY <1>2 DEF token_array_push_simple, arenaVars
  <2>4. \E t : tokens' = Append(tokens, t) /\ TextRight(t)'
    BY <2>2, <2>3
  <2>. QED  BY <2>3, <2>4, TextKept, TextsStep
<1>3. /\ text \in Seq(Char) /\ \A i \in 1 .. Len(text) : text[i] # NUL
      /\ text = SubSeq(file, begin + from + 1, begin + upto)
      /\ size = Len(text) + 2 /\ FitsSize(size) /\ ArenaInv
  <2>1. /\ Length \in Nat /\ begin \in Nat /\ begin + Length <= Len(file) /\ Len(file) \in Nat
        /\ \A i \in 1 .. Length : line_buffer[i] = file[begin + i]
        /\ \A i \in 1 .. Len(file) : file[i] # NUL
        /\ line_buffer \in Seq(Char) /\ Length < MAX_LINE_BUFFER
    BY DEF LexInv, ReaderInv, LineInv, Length
  <2>2. /\ text \in Seq(Char) /\ Len(text) = upto - from
        /\ \A i \in 1 .. upto - from : text[i] = line_buffer[from + i]
        /\ text = SubSeq(file, begin + from + 1, begin + upto)
    BY SliceLength, SliceOfFile
  <2>. HIDE DEF text
  <2>3. ASSUME NEW i \in 1 .. Len(text)
        PROVE  text[i] # NUL
    <3>1. from + i \in 1 .. Length /\ begin + (from + i) \in 1 .. Len(file)
      BY <2>1, <2>2
    <3>. QED  BY <2>1, <2>2, <3>1
  <2>4. upto \in 0 .. Length
    BY <2>1
  <2>5. FitsSize(size)
    BY <2>4, TextFits DEF text
  <2>6. size = Len(text) + 2
    <3>1. Len(text) + 2 \in 0 .. SIZE_LIMIT - 1 /\ SIZE_LIMIT \in Nat
      BY <2>1, <2>2, Constants, ArenaAssumption
    <3>. QED  BY <3>1 DEF SizeOf
  <2>. QED  BY <2>2, <2>3, <2>5, <2>6 DEF LexInv
<1>4. ASSUME NEW final \in Seq(Char), Len(final) <= Len(text), arena_alloc(size),
             tokens' = Append(tokens, [token EXCEPT !.text = PlaceFor(size)]),
             \/ heap' = Write(PlaceFor(size), final, heap)
             \/ heap' = Write(PlaceFor(size), final, Write(PlaceFor(size), text, heap)),
             final = IF type = "STRING" THEN string_clean_escape_sequences(text) ELSE text
      PROVE  TextInv'
  <2>. DEFINE new == [token EXCEPT !.text = PlaceFor(size)]
  <2>1. /\ new.type = type /\ new.text = PlaceFor(size)
        /\ new.from = begin + from /\ new.upto = begin + upto
    BY DEF Token
  <2>2. /\ \A place, str : HoldsText(place, str) => HoldsText(place, str)'
        /\ \A place : place = PlaceFor(size) => HoldsStart(place, final)'
    <3>. HIDE DEF text
    <3>. QED  BY <1>3, <1>4, TextPushed
  <2>3. PlaceFor(size).region # 0
    BY <1>3, <1>4, Allocated
  <2>4. begin \in Nat /\ upto \in Nat
    BY DEF LexInv, ReaderInv, LineInv, Length
  <2>. HIDE DEF new, text, size
  <2>5. PICK place : place = new.text
    OBVIOUS
  <2>6. HoldsStart(place, final)'
    BY <2>1, <2>2, <2>5
  <2>7. Source(new) = text
    <3>1. begin + from + 1 = new.from + 1
      BY <2>1
    <3>. QED  BY <1>3, <2>1, <3>1 DEF Source
  <2>8. CString(final) = TextOf(new)
    <3>1. CASE type = "STRING"
      BY <1>4, <2>1, <2>7, <3>1 DEF TextOf
    <3>2. CASE type # "STRING"
      <4>1. CString(text) = text
        BY <1>3, CStringIs
      <4>. QED  BY <1>4, <2>1, <2>7, <3>2, <4>1 DEF TextOf
    <3>. QED  BY <3>1, <3>2
  <2>9. PICK str : str = TextOf(new) /\ HoldsText(place, str)'
    BY <2>6, <2>8 DEF HoldsStart
  <2>10. new.text # NULL
    BY <2>1, <2>3 DEF NULL
  <2>11. \A t : t = new => TextRight(t)'
    <3>1. \A t : t = new => TextOf(t)' = str
      BY <2>9 DEF TextOf, Source
    <3>. QED  BY <2>5, <2>9, <2>10, <3>1 DEF TextRight
  <2>12. \E t : tokens' = Append(tokens, t) /\ TextRight(t)'
    BY <1>4, <2>11 DEF new
  <2>. QED  BY <2>2, <2>12, TextsStep
<1>5. CASE token_array_push(token, text) /\ type # "STRING"
  <2>1. Len(text) <= Len(text)
    BY <1>3
  <2>. QED  BY <1>3, <1>4, <1>5, <2>1 DEF token_array_push
<1>6. CASE type = "STRING" /\ token_array_clean_and_push_string(token, text)
  <2>. DEFINE final == string_clean_escape_sequences(text)
  <2>1. final \in Seq(Char) /\ Len(final) <= Len(text)
    BY <1>3, CleanedFits
  <2>. HIDE DEF final
  <2>. QED  BY <1>4, <1>6, <2>1 DEF token_array_clean_and_push_string, final
<1>. HIDE DEF text, size, token
<1>. QED
  BY <1>1, <1>2, <1>5, <1>6 DEF PushSimple, Push, PushString, NoMemory, token, text, size

LEMMA TextNext ==
  ASSUME LexInv, LineInv, TokensInv, TextInv, [Next]_vars
  PROVE  TextInv'
<1>1. pos \in Nat /\ begin \in Nat /\ Length \in Nat
  BY DEF LexInv, ReaderInv, LineInv, Length
<1>2. ASSUME file' = file, UNCHANGED arrayVars
      PROVE  TextInv'
  BY <1>2, TextKept, TextsStep DEF arrayVars, arenaVars
<1>3. ASSUME NEW chars, ScansOneOf(chars), NEW more, chars \subseteq more, NEW type,
             \/ PushSimple(type, pos, RunFrom(more)) /\ type \notin {"NUMBER", "IDENT", "STRING"}
             \/ type # "STRING" /\ Push(type, pos, RunFrom(more))
      PROVE  TextInv'
  <2>1. /\ status = "running" /\ pos < Length /\ line_buffer[pos + 1] \in more /\ file' = file
    BY <1>3 DEF ScansOneOf, readerVars
  <2>. DEFINE end == RunFrom(more)
  <2>2. end \in pos + 1 .. Length
    BY <2>1, Runs
  <2>. HIDE DEF end
  <2>3. end \in pos .. Length
    BY <1>1, <2>2
  <2>. QED  BY <1>1, <1>3, <2>1, <2>3, PushText DEF end
<1>4. CASE ReadNextLine
  BY <1>2, <1>4, ReadScans DEF ReadNextLine
<1>5. CASE EatWhitespace
  BY <1>2, <1>5 DEF EatWhitespace, ScansOneOf, readerVars
<1>6. CASE StartString
  BY <1>2, <1>6 DEF StartString, ScansOneOf, readerVars
<1>7. CASE LexOperator
  <2>1. /\ ScansOneOf(OPERATOR_CHARS) /\ errors' = errors /\ pos' = RunFrom(OPERATOR_CHARS)
        /\ PushSimple(OPERATOR_MAP(Slice(pos, RunFrom(OPERATOR_CHARS))), pos, RunFrom(OPERATOR_CHARS))
    BY <1>7 DEF LexOperator
  <2>2. RunFrom(OPERATOR_CHARS) \in pos + 1 .. Length /\ IsRun(OPERATOR_CHARS, RunFrom(OPERATOR_CHARS))
    BY <2>1, Runs DEF ScansOneOf, IsRun
  <2>3. OPERATOR_MAP(Slice(pos, RunFrom(OPERATOR_CHARS))) \in Operators \cup {"UNKNOWN"}
    BY <2>2, RunTypes
  <2>4. OPERATOR_MAP(Slice(pos, RunFrom(OPERATOR_CHARS))) \notin {"NUMBER", "IDENT", "STRING"}
    BY <2>3, KindsApart DEF Literals
  <2>. QED  BY <1>3, <2>1, <2>4
<1>8. CASE LexNumber
  BY <1>3, <1>8 DEF LexNumber
<1>9. CASE LexWord
  <2>. DEFINE end == RunFrom(VARIABLE_CHARS)
              word == Slice(pos, end)
  <2>1. /\ ScansOneOf(Letters) /\ Letters \subseteq VARIABLE_CHARS
        /\ \/ UNCHANGED arrayVars
           \/ word \in DOMAIN KEYWORD_MAP /\ PushSimple(KEYWORD_MAP[word], pos, end)
           \/ Push("IDENT", pos, end)
    BY <1>9 DEF LexWord, VARIABLE_CHARS
  <2>2. \A w \in DOMAIN KEYWORD_MAP : KEYWORD_MAP[w] \notin {"NUMBER", "IDENT", "STRING"}
    BY KindsApart DEF Literals
  <2>3. file' = file
    BY <2>1 DEF ScansOneOf, readerVars
  <2>. HIDE DEF word
  <2>. QED  BY <1>2, <1>3, <2>1, <2>2, <2>3
<1>10. CASE InvalidChar
  <2>1. /\ status = "running" /\ pos < Length /\ file' = file
        /\ PushSimple("UNKNOWN", pos, pos + 1)
    BY <1>10 DEF InvalidChar, ScansOneOf, readerVars
  <2>2. pos + 1 \in pos .. Length
    BY <1>1, <2>1
  <2>. QED  BY <1>1, <2>1, <2>2, PushText
<1>11. CASE ParseString
  <2>. DEFINE start == pos + 1
  <2>1. status = "running" /\ file' = file /\ start \in Nat /\ start \in 0 .. Length
    BY <1>1, <1>11 DEF ParseString, readerVars
  <2>2. CASE \E c \in Closing(start) : PushString(start, c)
    <3>1. PICK c \in Closing(start) : PushString(start, c)
      BY <2>2
    <3>2. c \in start .. Length
      BY <1>1, <2>1 DEF Closing
    <3>. QED  BY <2>1, <3>1, <3>2, PushText
  <2>3. CASE PushSimple("UNKNOWN", start, Length)
    <3>1. Length \in start .. Length
      BY <1>1, <2>1
    <3>. QED  BY <2>1, <2>3, <3>1, PushText
  <2>4. CASE UNCHANGED arrayVars
    BY <1>2, <2>1, <2>4
  <2>. HIDE DEF start
  <2>. QED  BY <1>11, <2>2, <2>3, <2>4 DEF ParseString, start, NoMemory
<1>12. CASE Stopped \/ UNCHANGED vars
  BY <1>2, <1>12 DEF Stopped, vars, readerVars
<1>. QED
  BY <1>4, <1>5, <1>6, <1>7, <1>8, <1>9, <1>10, <1>11, <1>12 DEF Next

\* There are no more tokens than characters that were scanned.
CountInv == status = "running" => Len(tokens) <= Scanned

LEMMA CountNext ==
  ASSUME LexInv, LineInv, ScanInv, TokensInv, CountInv, [Next]_vars
  PROVE  CountInv'
<1>1. /\ Len(tokens) \in Nat /\ pos \in Nat /\ begin \in Nat /\ Length \in Nat
      /\ tokens \in Seq(TokenSet)
  BY DEF TokensInv, LexInv, ReaderInv, LineInv, Length
<1>2. ASSUME Advances, Skips
      PROVE  CountInv'
  <2>1. Len(tokens) <= Scanned /\ Scanned \in Nat /\ Scanned' \in Nat /\ Scanned <= Scanned'
    BY <1>2, ScannedGrows DEF CountInv, Advances
  <2>2. PICK behind : behind = Scanned'
    OBVIOUS
  <2>3. Len(tokens) <= behind
    BY <1>1, <2>1, <2>2
  <2>. QED  BY <1>2, <2>2, <2>3 DEF Skips, CountInv
<1>3. ASSUME NEW type, NEW from, NEW upto, Pushes(type, from, upto), Advances,
             NEW next \in pos + 1 .. Length, pos' = next
      PROVE  CountInv'
  <2>1. Len(tokens) <= begin + pos
    BY <1>3, ScannedGrows DEF CountInv, Advances
  <2>2. PICK behind : behind = Scanned'
    OBVIOUS
  <2>3. begin + next <= behind /\ behind \in Nat
    <3>1. next \in 0 .. Length /\ next <= pos'
      BY <1>1, <1>3
    <3>. QED  BY <1>3, <2>2, <3>1, ScannedGrows
  <2>4. Len(tokens) + 1 <= behind
    BY <1>1, <2>1, <2>3
  <2>5. Len(tokens') = Len(tokens) + 1
    BY <1>1, <1>3 DEF Pushes
  <2>. QED  BY <2>2, <2>4, <2>5 DEF CountInv
<1>4. CASE status' # "running"
  BY <1>4 DEF CountInv
<1>5. ASSUME NEW type, NEW end \in pos + 1 .. Length, Lexes(type, end)
      PROVE  CountInv'
  BY <1>3, <1>4, <1>5 DEF Lexes, Fails
<1>6. CASE ReadNextLine
  <2>1. /\ Scanned = offset /\ tokens' = tokens /\ status = "running" /\ offset \in Nat
        /\ status' = "running" => Scanned' \in Nat /\ offset <= Scanned'
    BY <1>6, ReadScans DEF ReadNextLine, LexInv, ReaderInv
  <2>2. PICK behind : behind = Scanned'
    OBVIOUS
  <2>3. status' = "running" => Len(tokens) <= behind
    BY <1>1, <2>1, <2>2 DEF CountInv
  <2>. QED  BY <2>1, <2>2, <2>3 DEF CountInv
<1>7. CASE EatWhitespace
  BY <1>2, <1>7, EatingWhitespace
<1>8. CASE StartString
  BY <1>2, <1>8, StartingString
<1>9. CASE LexOperator
  BY <1>5, <1>9, LexingOperator
<1>10. CASE LexNumber
  BY <1>5, <1>10, LexingNumber
<1>11. CASE LexWord
  BY <1>2, <1>5, <1>11, LexingWord
<1>12. CASE InvalidChar
  <2>1. /\ Advances /\ pos' = pos + 1 /\ pos + 1 \in pos .. Length
        /\ Fails \/ Pushes("UNKNOWN", pos, pos + 1)
    BY <1>12, Refusing
  <2>2. pos + 1 \in pos + 1 .. Length
    BY <1>1, <2>1
  <2>. QED  BY <1>3, <1>4, <2>1, <2>2 DEF Fails
<1>13. CASE ParseString
  <2>1. /\ Advances
        /\ \/ \E c \in pos + 1 .. Length - 1 :
                pos' = c + 1 /\ (Fails \/ Pushes("STRING", pos + 1, c))
           \/ pos' = Length /\ (Fails \/ Pushes("UNKNOWN", pos + 1, Length))
    BY <1>13, ParsingString
  <2>2. Length \in pos + 1 .. Length /\ \A c \in pos + 1 .. Length - 1 : c + 1 \in pos + 1 .. Length
    BY <1>1, <2>1 DEF Advances
  <2>. QED  BY <1>3, <1>4, <2>1, <2>2 DEF Fails
<1>14. CASE Stopped \/ UNCHANGED vars
  <2>1. tokens' = tokens /\ status' = status /\ Scanned' = Scanned
    BY <1>14 DEF Stopped, vars, arrayVars, readerVars, Scanned, Length
  <2>. QED  BY <2>1 DEF CountInv
<1>. QED
  BY <1>6, <1>7, <1>8, <1>9, <1>10, <1>11, <1>12, <1>13, <1>14 DEF Next

\* Files of which even twice as many tokens as characters fit a size.
FilesFit == \A f \in Files : 2 * Len(f) * TOKEN_BYTES < SIZE_LIMIT

RoomInv == file \in Files /\ RoomRight

LEMMA RoomNext ==
  ASSUME FilesFit, LexInv, LineInv, TokensInv, CountInv, RoomInv, [Next]_vars
  PROVE  RoomInv'
<1>1. ASSUME file' = file, UNCHANGED arrayVars
      PROVE  RoomInv'
  BY <1>1 DEF RoomInv, RoomRight, arrayVars
<1>2. ASSUME file' = file, status = "running", pos < Length,
             NEW type, NEW from, NEW upto,
             PushSimple(type, from, upto) \/ Push(type, from, upto) \/ PushString(from, upto)
      PROVE  RoomInv'
  <2>1. CASE MakeRoom /\ \E t : tokens' = Append(tokens, t)
    <3>1. /\ pos \in Nat /\ begin \in Nat /\ Length \in Nat /\ begin + Length <= Len(file)
          /\ Len(file) \in Nat /\ Len(tokens) \in Nat /\ Len(tokens') = Len(tokens) + 1
      BY <2>1 DEF LexInv, ReaderInv, LineInv, TokensInv, Length
    <3>2. Len(tokens) + 1 <= Len(file)
      BY <1>2, <3>1 DEF CountInv, Scanned
    <3>3. 2 * Len(file) * TOKEN_BYTES < SIZE_LIMIT
      BY DEF FilesFit, RoomInv
    <3>. QED  BY <1>2, <2>1, <3>1, <3>2, <3>3, RoomKept DEF RoomInv
  <2>. QED
    BY <1>1, <1>2, <2>1 DEF PushSimple, Push, PushString, NoMemory, token_array_push_simple,
       token_array_push, token_array_clean_and_push_string
<1>3. CASE ReadNextLine
  BY <1>1, <1>3, ReadScans DEF ReadNextLine
<1>4. CASE EatWhitespace \/ StartString
  BY <1>1, <1>4 DEF EatWhitespace, StartString, ScansOneOf, readerVars
<1>5. CASE LexOperator \/ LexNumber \/ InvalidChar
  BY <1>2, <1>5 DEF LexOperator, LexNumber, InvalidChar, ScansOneOf, readerVars
<1>6. CASE LexWord
  <2>1. status = "running" /\ pos < Length /\ file' = file
    BY <1>6 DEF LexWord, ScansOneOf, readerVars
  <2>. QED  BY <1>1, <1>2, <1>6, <2>1 DEF LexWord
<1>7. CASE ParseString
  BY <1>1, <1>2, <1>7 DEF ParseString, NoMemory, readerVars
<1>8. CASE Stopped \/ UNCHANGED vars
  BY <1>1, <1>8 DEF Stopped, vars, readerVars
<1>. QED  BY <1>3, <1>4, <1>5, <1>6, <1>7, <1>8 DEF Next

-----------------------------------------------------------------------------
LEMMA LexInit == Init => LexInv
<1>. SUFFICES ASSUME Init
              PROVE  LexInv
  OBVIOUS
<1>1. file \in Seq(Char \ {NUL})
  BY FileReaderAssumption DEF Init, ReaderInit
<1>2. file \in Seq(Char)
  <2>1. \A i \in 1 .. Len(file) : file[i] \in Char
    BY <1>1
  <2>. QED  BY <1>1, <2>1
<1>3. ReaderInv
  BY <1>1, <1>2, Constants DEF Init, ReaderInit, ReaderInv
<1>. QED  BY <1>3, InitRight DEF Init, ArrayInit, LexInv

LEMMA LexNext == LexInv /\ [Next]_vars => LexInv'
<1>. SUFFICES ASSUME LexInv, [Next]_vars
              PROVE  LexInv'
  OBVIOUS
<1>1. CASE ReadNextLine
  <2>1. ReaderInv'
    BY <1>1, ReadKeeps DEF LexInv, ReadNextLine
  <2>2. ArenaInv'
    BY <1>1, ArenaKept DEF LexInv, ReadNextLine, arrayVars
  <2>. QED  BY <1>1, <2>1, <2>2 DEF LexInv, ReadNextLine
<1>2. CASE EatWhitespace
  <2>1. pos' \in Nat
    BY <1>2, RunFromEnds DEF EatWhitespace, ScansOneOf
  <2>. QED
    BY <1>2, <2>1, ArenaKept, ScanKeeps DEF EatWhitespace, ScansOneOf, LexInv, arrayVars
<1>3. CASE StartString
  BY <1>3, ArenaKept, ScanKeeps DEF StartString, ScansOneOf, LexInv, arrayVars
<1>4. CASE ParseString
  <2>. DEFINE start == pos + 1
  <2>1. /\ pos \in Nat /\ start \in 0 .. Length /\ Length \in Nat
        /\ UNCHANGED readerVars
    BY <1>4 DEF ParseString, LexInv, ReaderInv, Length
  <2>2. CASE \E c \in Closing(start) : PushString(start, c) /\ pos' = c + 1
    <3>1. PICK c \in Closing(start) : PushString(start, c) /\ pos' = c + 1
      BY <2>2
    <3>2. c \in 0 .. Length
      BY <2>1 DEF Closing
    <3>. QED  BY <2>1, <3>1, <3>2, PushKeeps, ScanKeeps
  <2>3. CASE PushSimple("UNKNOWN", start, Length) /\ pos' = Length
    BY <2>1, <2>3, PushKeeps, ScanKeeps
  <2>4. CASE UNCHANGED arrayVars /\ pos' = Length
    BY <2>1, <2>4, ArenaKept, ScanKeeps DEF LexInv, arrayVars
  <2>. HIDE DEF start
  <2>. QED
    BY <1>4, <2>2, <2>3, <2>4 DEF ParseString, start, NoMemory
<1>5. CASE LexOperator
  <2>1. pos \in Nat /\ pos' \in 0 .. Length
    BY <1>5, RunFromEnds DEF LexOperator, ScansOneOf, LexInv
  <2>. QED  BY <1>5, <2>1, PushKeeps, ScanKeeps DEF LexOperator, ScansOneOf
<1>6. CASE LexNumber
  <2>1. pos \in Nat /\ pos' \in 0 .. Length
    BY <1>6, RunFromEnds DEF LexNumber, ScansOneOf, LexInv
  <2>. QED  BY <1>6, <2>1, PushKeeps, ScanKeeps DEF LexNumber, ScansOneOf
<1>7. CASE LexWord
  <2>. DEFINE end == RunFrom(VARIABLE_CHARS)
              word == Slice(pos, end)
  <2>1. pos \in Nat /\ end \in 0 .. Length /\ Length \in Nat /\ pos < Length
        /\ UNCHANGED readerVars
    BY <1>7, RunFromEnds DEF LexWord, ScansOneOf, LexInv, ReaderInv, Length
  <2>2. Len(word) \in Nat
    BY <2>1, TextFits
  <2>. HIDE DEF end
  <2>3. CASE pos' = Length - 1 + Len(word) /\ UNCHANGED arrayVars
    <3>1. pos' \in Nat
      BY <2>1, <2>2, <2>3
    <3>. QED  BY <2>1, <2>3, <3>1, ArenaKept, ScanKeeps DEF LexInv, arrayVars
  <2>4. CASE pos' = end /\ (PushSimple(KEYWORD_MAP[word], pos, end) \/ Push("IDENT", pos, end))
    BY <2>1, <2>4, PushKeeps, ScanKeeps
  <2>. QED  BY <1>7, <2>3, <2>4 DEF LexWord, end
<1>8. CASE InvalidChar
  <2>1. pos \in Nat /\ pos + 1 \in 0 .. Length /\ pos' = pos + 1
    BY <1>8 DEF InvalidChar, ScansOneOf, LexInv, ReaderInv, Length
  <2>. QED  BY <1>8, <2>1, PushKeeps, ScanKeeps DEF InvalidChar, ScansOneOf
<1>9. CASE Stopped \/ UNCHANGED vars
  BY <1>9, ArenaKept, ScanKeeps DEF Stopped, vars, arrayVars, LexInv
<1>. QED
  BY <1>1, <1>2, <1>3, <1>4, <1>5, <1>6, <1>7, <1>8, <1>9 DEF Next

\* Whatever the files and however many tokens, the blocks that hold the texts
\* are aligned, inside their regions and apart (arena.c:29-54).
THEOREM TextsApart == Spec => []BlocksApart
<1>1. LexInv => BlocksApart
  BY DEF LexInv, ArenaInv
<1>. QED  BY <1>1, LexInit, LexNext, PTL DEF Spec

\* No line overruns the buffer it is read into, and the reader never goes
\* beyond the end of the file (file_reader.c:129-161).
THEOREM LinesFit == Spec => []ReaderInv
<1>1. LexInv => ReaderInv
  BY DEF LexInv
<1>. QED  BY <1>1, LexInit, LexNext, PTL DEF Spec
-----------------------------------------------------------------------------
\* What holds of the scan besides, one part resting on the other.
ScannerInv == LexInv /\ LineInv /\ ScanInv /\ TokensInv /\ CoverInv /\ ErrorsHaveTokens

LEMMA ScannerInit == Init => ScannerInv
<1>. SUFFICES ASSUME Init
              PROVE  ScannerInv
  OBVIOUS
<1>1. /\ file \in Seq(Char \ {NUL}) /\ offset = 0 /\ begin = 0 /\ line = 0 /\ eof = FALSE
      /\ line_buffer = <<>> /\ tokens = <<>> /\ errors = <<>> /\ pos = 0
      /\ delim = "none" /\ status = "running"
  BY FileReaderAssumption DEF Init, ReaderInit, ArrayInit, NO_LINE_NUMBER
<1>2. Length = 0 /\ Len(tokens) = 0 /\ Len(errors) = 0 /\ Lexeme = {} /\ Scanned = 0
  BY <1>1 DEF Length, Lexeme, Scanned
<1>3. LineInv
  <2>1. LineEnds(0) = {} /\ Cardinality(LineEnds(0)) = 0
    BY FS_EmptySet DEF LineEnds
  <2>2. begin + Length = 0 /\ \A i \in 1 .. Length : FALSE
    BY <1>1, <1>2
  <2>3. \A i \in begin + Length + 1 .. offset : FALSE
    BY <1>1, <1>2
  <2>. QED  BY <1>1, <1>2, <2>1, <2>2, <2>3 DEF LineInv
<1>4. ScanInv
  BY <1>1, <1>2 DEF ScanInv
<1>5. TokensInv
  BY <1>1, <1>2 DEF TokensInv
<1>6. CoverInv
  BY <1>2 DEF CoverInv
<1>7. ErrorsHaveTokens
  <2>. DEFINE owner == [k \in 1 .. Len(errors) |-> 1]
  <2>1. owner \in [1 .. Len(errors) -> 1 .. Len(tokens)] /\ \A k \in 1 .. Len(errors) : FALSE
    BY <1>2
  <2>. HIDE DEF owner
  <2>. QED  BY <2>1 DEF ErrorsHaveTokens
<1>. QED  BY <1>3, <1>4, <1>5, <1>6, <1>7, LexInit DEF ScannerInv

LEMMA ScannerNext == ScannerInv /\ [Next]_vars => ScannerInv'
<1>. SUFFICES ASSUME ScannerInv, [Next]_vars
              PROVE  ScannerInv'
  OBVIOUS
<1>1. LexInv /\ LineInv /\ ScanInv /\ TokensInv /\ CoverInv /\ ErrorsHaveTokens
  BY DEF ScannerInv
<1>2. LexInv'
  BY <1>1, LexNext
<1>3. LineInv' /\ ScanInv' /\ TokensInv'
  BY <1>1, LineNext, ScanNext, TokensNext
<1>4. CoverInv' /\ ErrorsHaveTokens'
  BY <1>1, <1>3, CoverNext, ErrorsNext
<1>. QED  BY <1>2, <1>3, <1>4 DEF ScannerInv

\* The line and the column of a token are those of its first character, whatever
\* the file: no read and no step of the scanner loses count (lexer.c:143-190,
\* file_reader.c:193-230).
THEOREM LocationsAreTrue == Spec => []LocationsTrue
<1>1. ScannerInv => LocationsTrue
  <2>. SUFFICES ASSUME ScannerInv, NEW k \in 1 .. Len(tokens)
                PROVE  LET ends == {i \in 1 .. tokens[k].from : file[i] = "\n"} IN
                         /\ tokens[k].line = Cardinality(ends) + 1
                         /\ tokens[k].col = tokens[k].from + 1 - Max(ends \cup {0})
    BY DEF LocationsTrue, Lexeme
  <2>1. Located(tokens[k])
    BY DEF ScannerInv, TokensInv
  <2>. QED  BY <2>1 DEF Located, LineEnds
<1>. QED  BY <1>1, ScannerInit, ScannerNext, PTL DEF Spec

\* The tokens follow each other in the file, and everything that was scanned
\* outside them is blank, a delimiter or a comment (lexer.c:105-240).
THEOREM NothingIsDropped == Spec => []NothingDropped
<1>1. ScannerInv => NothingDropped
  BY DEF ScannerInv, TokensInv, CoverInv, NothingDropped
<1>. QED  BY <1>1, ScannerInit, ScannerNext, PTL DEF Spec

\* The errors reported have unknown tokens of their own, in their order, at their
\* places (lexer.c:121-140 and 232-238).
THEOREM ErrorsShowInTokens == Spec => []ErrorsHaveTokens
<1>1. ScannerInv => ErrorsHaveTokens
  BY DEF ScannerInv
<1>. QED  BY <1>1, ScannerInit, ScannerNext, PTL DEF Spec
-----------------------------------------------------------------------------
\* What holds of the tokens' characters, which rests on where the tokens are.
LexemesInv == ScannerInv /\ ShapeInv /\ TextInv

LEMMA LexemesInit == Init => LexemesInv
<1>1. ASSUME Init
      PROVE  ShapeInv /\ TextInv
  <2>1. Len(tokens) = 0
    BY <1>1 DEF Init, ArrayInit
  <2>. QED  BY <2>1 DEF ShapeInv, TextInv
<1>. QED  BY <1>1, ScannerInit DEF LexemesInv

LEMMA LexemesNext == LexemesInv /\ [Next]_vars => LexemesInv'
<1>. SUFFICES ASSUME LexemesInv, [Next]_vars
              PROVE  LexemesInv'
  OBVIOUS
<1>1. LexInv /\ LineInv /\ ScanInv /\ TokensInv /\ ShapeInv /\ TextInv
  BY DEF LexemesInv, ScannerInv
<1>2. ShapeInv' /\ TextInv'
  BY <1>1, ShapeNext, TextNext
<1>. QED  BY <1>2, ScannerNext DEF LexemesInv

\* What the pointer of a token leads to.
LEMMA TextOfToken ==
  ASSUME LexemesInv, NEW k \in 1 .. Len(tokens), tokens[k].text # NULL
  PROVE  /\ Text(tokens[k]) \in Seq(Char \ {NUL}) /\ TextEnds(tokens[k].text)
         /\ tokens[k].type # "STRING" => Text(tokens[k]) = Source(tokens[k])
         /\ tokens[k].type = "STRING" =>
              Text(tokens[k]) = CString(string_clean_escape_sequences(Source(tokens[k])))
<1>1. ArenaInv /\ tokens[k] \in TokenSet /\ TextRight(tokens[k])
  BY DEF LexemesInv, ScannerInv, LexInv, TokensInv, TextInv
<1>2. tokens[k].text \in [region : Nat, at : Nat]
  BY <1>1 DEF TokenSet, Places
<1>3. PICK str : HoldsText(tokens[k].text, str) /\ str = TextOf(tokens[k])
  BY <1>1 DEF TextRight
<1>4. Text(tokens[k]) = str /\ TextEnds(tokens[k].text)
  BY <1>1, <1>2, <1>3, TextIs
<1>. QED  BY <1>3, <1>4 DEF HoldsText, TextOf

\* The shape of a token and the text of its number or name make a lexeme of it.
LEMMA ShapeAndText ==
  ASSUME NEW t, Shaped(t), t.type \in {"NUMBER", "IDENT"} => Text(t) = Source(t)
  PROVE  IsLexeme(t)
<1>1. t.type \in Keywords => t.type \notin {"NUMBER", "IDENT", "STRING", "UNKNOWN"}
  BY KindsApart DEF Literals
<1>2. CASE t.type = "NUMBER"
  BY <1>1, <1>2 DEF Shaped, IsLexeme
<1>3. CASE t.type = "IDENT"
  BY <1>1, <1>3 DEF Shaped, IsLexeme
<1>4. CASE t.type \in Keywords
  BY <1>1, <1>4 DEF Shaped, IsLexeme
<1>5. CASE t.type \in {"STRING", "UNKNOWN"}
  BY <1>1, <1>5 DEF Shaped, IsLexeme
<1>6. CASE t.type \notin Keywords \cup {"NUMBER", "IDENT", "STRING", "UNKNOWN"}
  BY <1>6 DEF Shaped, IsLexeme
<1>. QED  BY <1>2, <1>3, <1>4, <1>5, <1>6

\* What the file has at a token is a whole lexeme of its type, and the token's
\* text is what the file has there, whatever the file (lexer.c:158-231).
THEOREM LexemesAreWhole == Spec => []TokensAreLexemes
<1>1. LexemesInv => TokensAreLexemes
  <2>. SUFFICES ASSUME LexemesInv, NEW k \in 1 .. Len(tokens)
                PROVE  IsLexeme(tokens[k])
    BY DEF TokensAreLexemes, Lexeme
  <2>1. Shaped(tokens[k]) /\ TextRight(tokens[k])
    BY DEF LexemesInv, ShapeInv, TextInv
  <2>2. tokens[k].type \in {"NUMBER", "IDENT"} => Text(tokens[k]) = Source(tokens[k])
    BY <2>1, TextOfToken DEF TextRight
  <2>. QED  BY <2>1, <2>2, ShapeAndText
<1>. QED  BY <1>1, LexemesInit, LexemesNext, PTL DEF Spec

-----------------------------------------------------------------------------
(***************************************************************************)
(* What the cleaning loop makes of a string is what its characters mean.   *)
(***************************************************************************)
\* The function that glues the first pieces of a sequence of sequences together exists.
LEMMA GluesExist ==
  ASSUME NEW seqs, NEW n \in Nat
  PROVE  \E f : f = [i \in 1 .. n |-> IF i = 1 THEN seqs[i] ELSE f[i - 1] \o seqs[i]]
<1>. DEFINE IsGlue(f, m) == f = [i \in 1 .. m |-> IF i = 1 THEN seqs[i] ELSE f[i - 1] \o seqs[i]]
            Without == {k \in Nat : ~ \E f : IsGlue(f, k)}
<1>1. SUFFICES ASSUME Without # {}
               PROVE  FALSE
  OBVIOUS
<1>2. Without \subseteq Nat
  OBVIOUS
<1>3. PICK k \in Without : \A j \in Without : k <= j
  <2>. HIDE DEF Without
  <2>. QED  BY <1>1, <1>2, Least
<1>4. k \in Nat /\ ~ \E f : IsGlue(f, k)
  OBVIOUS
<1>5. k # 0
  <2>. DEFINE f == [i \in 1 .. 0 |-> seqs[i]]
  <2>1. IsGlue(f, 0)
    OBVIOUS
  <2>. QED  BY <1>4, <2>1
<1>6. k - 1 \in Nat /\ ~ k <= k - 1
  BY <1>4, <1>5
<1>7. k - 1 \notin Without
  <2>. HIDE DEF Without
  <2>. QED  BY <1>3, <1>6
<1>8. PICK g : IsGlue(g, k - 1)
  BY <1>6, <1>7
<1>. DEFINE next(h, i) == IF i = 1 THEN seqs[i] ELSE h[i - 1] \o seqs[i]
            f == [i \in 1 .. k |-> next(g, i)]
<1>9. ASSUME NEW i \in 1 .. k
      PROVE  f[i] = next(f, i)
  <2>1. CASE i = 1
    BY <2>1
  <2>2. CASE i # 1
    <3>1. i - 1 \in 1 .. k - 1 /\ i - 1 \in 1 .. k
      BY <1>4, <2>2
    <3>2. g[i - 1] = next(g, i - 1)
      BY <1>8, <3>1
    <3>3. f[i - 1] = next(g, i - 1)
      BY <3>1
    <3>. QED  BY <2>2, <3>2, <3>3
  <2>. QED  BY <2>1, <2>2
<1>10. f = [i \in 1 .. k |-> next(f, i)]
  BY <1>9
<1>11. IsGlue(f, k)
  BY <1>10
<1>. QED  BY <1>4, <1>11

LEMMA FlattenIs ==
  ASSUME NEW seqs, Len(seqs) \in Nat \ {0}
  PROVE  \E f : /\ f = [i \in 1 .. Len(seqs) |->
                          IF i = 1 THEN seqs[i] ELSE f[i - 1] \o seqs[i]]
                /\ FlattenSeq(seqs) = f[Len(seqs)]
<1>. DEFINE IsGlue(f) == f = [i \in 1 .. Len(seqs) |->
                               IF i = 1 THEN seqs[i] ELSE f[i - 1] \o seqs[i]]
            glue == CHOOSE f : IsGlue(f)
<1>1. \E f : IsGlue(f)
  BY GluesExist
<1>2. IsGlue(glue)
  <2>. HIDE DEF IsGlue
  <2>. QED  BY <1>1
<1>3. FlattenSeq(seqs) = glue[Len(seqs)]
  <2>. HIDE DEF glue
  <2>. QED  BY DEF FlattenSeq, glue
<1>. HIDE DEF glue
<1>. QED  BY <1>2, <1>3

\* Before a place where no escape ends: whether one begins there is seen at once.
LEMMA EscapeBegins ==
  ASSUME NEW s \in Seq(Char), NEW r \in 0 .. Len(s) - 1, r = 0 \/ ~ Escapes(s, r)
  PROVE  Escapes(s, r + 1) <=> s[r + 1] = ESCAPE_CHAR /\ r + 1 < Len(s)
<1>1. Len(s) \in Nat /\ r \in Nat /\ r < Len(s) /\ r + 1 - 1 = r
  OBVIOUS
<1>2. Escapes(s, r + 1) => s[r + 1] = ESCAPE_CHAR /\ r + 1 < Len(s)
  BY DEF Escapes
<1>3. ASSUME s[r + 1] = ESCAPE_CHAR, r + 1 < Len(s), NEW n \in 0 .. r, n % 2 = 0,
             \A k \in r + 1 - n .. r + 1 : s[k] = ESCAPE_CHAR,
             n = r \/ s[r + 1 - n - 1] # ESCAPE_CHAR
      PROVE  Escapes(s, r + 1)
  <2>1. n = r + 1 - 1 \/ s[r + 1 - n - 1] # ESCAPE_CHAR
    BY <1>1, <1>3
  <2>2. n \in 0 .. r + 1 - 1
    BY <1>1, <1>3
  <2>. QED  BY <1>3, <2>1, <2>2 DEF Escapes
<1>4. ASSUME s[r + 1] = ESCAPE_CHAR, r + 1 < Len(s), r = 0 \/ s[r] # ESCAPE_CHAR
      PROVE  Escapes(s, r + 1)
  <2>1. PICK n \in 0 .. r : n = 0
    BY <1>1
  <2>2. n % 2 = 0 /\ r + 1 - n = r + 1 /\ r + 1 - n - 1 = r
    BY <1>1, <2>1
  <2>3. \A k \in r + 1 .. r + 1 : s[k] = ESCAPE_CHAR
    BY <1>1, <1>4
  <2>. QED  BY <1>3, <1>4, <2>1, <2>2, <2>3
<1>5. ASSUME s[r + 1] = ESCAPE_CHAR, r + 1 < Len(s), r # 0, s[r] = ESCAPE_CHAR
      PROVE  Escapes(s, r + 1)
  <2>. DEFINE Starts == {j \in 1 .. r : \A k \in j .. r : s[k] = ESCAPE_CHAR}
  <2>1. r \in Starts /\ Starts \subseteq Nat
    BY <1>1, <1>5
  <2>2. PICK j \in Starts : \A i \in Starts : j <= i
    <3>. HIDE DEF Starts
    <3>. QED  BY <2>1, Least
  <2>3. j \in 1 .. r /\ \A k \in j .. r : s[k] = ESCAPE_CHAR
    OBVIOUS
  <2>4. j = 1 \/ s[j - 1] # ESCAPE_CHAR
    <3>1. SUFFICES ASSUME j # 1, s[j - 1] = ESCAPE_CHAR
                   PROVE  FALSE
      OBVIOUS
    <3>2. j - 1 \in 1 .. r
      BY <2>3, <3>1
    <3>3. \A k \in j - 1 .. r : k = j - 1 \/ k \in j .. r
      BY <2>3
    <3>4. j - 1 \in Starts
      BY <2>3, <3>1, <3>2, <3>3
    <3>5. ~ (j <= j - 1)
      BY <2>3
    <3>. HIDE DEF Starts
    <3>. QED  BY <2>2, <3>4, <3>5
  <2>. HIDE DEF Starts
  <2>. DEFINE n == r - j
  <2>5. n \in 0 .. r - 1 /\ r - n = j
    BY <1>1, <2>3
  <2>6. n = r - 1 \/ s[r - n - 1] # ESCAPE_CHAR
    BY <1>1, <2>3, <2>4, <2>5
  <2>7. n % 2 # 0
    <3>1. \A k \in r - n .. r : s[k] = ESCAPE_CHAR
      BY <2>3, <2>5
    <3>. HIDE DEF n
    <3>. QED  BY <1>1, <1>5, <2>5, <2>6, <3>1 DEF Escapes
  <2>8. (n + 1) % 2 = 0 /\ n + 1 \in 0 .. r /\ r + 1 - (n + 1) = j
    <3>. HIDE DEF n
    <3>. QED  BY <1>1, <2>5, <2>7
  <2>9. \A k \in j .. r + 1 : s[k] = ESCAPE_CHAR
    <3>1. \A k \in j .. r + 1 : k \in j .. r \/ k = r + 1
      BY <1>1, <2>3
    <3>. QED  BY <1>5, <2>3, <3>1
  <2>10. n + 1 = r \/ s[r + 1 - (n + 1) - 1] # ESCAPE_CHAR
    BY <1>1, <2>3, <2>4, <2>8
  <2>. HIDE DEF n
  <2>. QED  BY <1>3, <1>5, <2>8, <2>9, <2>10
<1>. QED  BY <1>2, <1>4, <1>5

\* No escape begins with the second character of one.
LEMMA EscapeEnds ==
  ASSUME NEW s \in Seq(Char), NEW r \in 0 .. Len(s) - 1, Escapes(s, r + 1)
  PROVE  ~ Escapes(s, r + 2)
<1>1. SUFFICES ASSUME Escapes(s, r + 2)
               PROVE  FALSE
  OBVIOUS
<1>2. Len(s) \in Nat /\ r \in Nat /\ r + 1 - 1 = r /\ r + 2 - 1 = r + 1
  OBVIOUS
<1>3. PICK n \in 0 .. r : /\ n % 2 = 0
                          /\ \A k \in r + 1 - n .. r + 1 : s[k] = ESCAPE_CHAR
                          /\ n = r \/ s[r + 1 - n - 1] # ESCAPE_CHAR
  BY <1>2 DEF Escapes
<1>4. PICK m \in 0 .. r + 1 : /\ m % 2 = 0
                              /\ \A k \in r + 2 - m .. r + 2 : s[k] = ESCAPE_CHAR
                              /\ m = r + 1 \/ s[r + 2 - m - 1] # ESCAPE_CHAR
  BY <1>1, <1>2 DEF Escapes
<1>5. ~ (m > n + 1)
  <2>1. ASSUME m > n + 1
        PROVE  r + 1 - n - 1 \in r + 2 - m .. r + 2 /\ n # r
    BY <1>2, <1>3, <1>4, <2>1
  <2>. QED  BY <1>3, <1>4, <2>1
<1>6. ~ (m < n + 1)
  <2>1. ASSUME m < n + 1
        PROVE  r + 2 - m - 1 \in r + 1 - n .. r + 1 /\ m # r + 1
    BY <1>2, <1>3, <1>4, <2>1
  <2>. QED  BY <1>3, <1>4, <2>1
<1>7. m = n + 1
  BY <1>3, <1>4, <1>5, <1>6
<1>. QED  BY <1>3, <1>4, <1>7

\* What a character means is a text.
LEMMA MeaningIsText ==
  ASSUME NEW s \in Seq(Char), NEW i \in 1 .. Len(s)
  PROVE  Meaning(s, i) \in Seq(Char)
<1>1. s[i] \in Char /\ ESCAPE_CHAR \in Char /\ NUL \in Char /\ "\n" \in Char
  BY CharAssumption DEF NEWLINES
<1>2. s[i] \in DOMAIN DEFAULT_ESCAPE_MAPPINGS => DEFAULT_ESCAPE_MAPPINGS[s[i]] \in Char
  BY <1>1 DEF DEFAULT_ESCAPE_MAPPINGS
<1>3. \A x \in Char : <<x>> \in Seq(Char) /\ <<ESCAPE_CHAR, x>> \in Seq(Char)
  BY <1>1
<1>4. <<>> \in Seq(Char)
  OBVIOUS
<1>. QED  BY <1>1, <1>2, <1>3, <1>4 DEF Meaning

\* The meanings of the first characters of a text, glued together.
IsGlued(g, s) ==
  /\ g[0] = <<>>
  /\ \A i \in 1 .. Len(s) : g[i] = g[i - 1] \o Meaning(s, i)

LEMMA GluedIs ==
  ASSUME NEW s \in Seq(Char)
  PROVE  \E g : IsGlued(g, s) /\ g[Len(s)] = FlattenSeq([i \in 1 .. Len(s) |-> Meaning(s, i)])
<1>. DEFINE seqs == [i \in 1 .. Len(s) |-> Meaning(s, i)]
<1>1. Len(s) \in Nat /\ Len(seqs) = Len(s) /\ \A i \in 1 .. Len(s) : seqs[i] = Meaning(s, i)
  OBVIOUS
<1>2. CASE Len(s) = 0
  <2>. DEFINE g == [i \in 0 .. 0 |-> <<>>]
  <2>1. seqs = <<>>
    BY <1>1, <1>2
  <2>2. FlattenSeq(seqs) = <<>>
    <3>. HIDE DEF seqs
    <3>. QED  BY <1>1, <1>2, <2>1 DEF FlattenSeq
  <2>3. g[0] = <<>>
    OBVIOUS
  <2>4. IsGlued(g, s)
    BY <1>2, <2>3 DEF IsGlued
  <2>. QED  BY <1>2, <2>2, <2>3, <2>4
<1>3. CASE Len(s) # 0
  <2>. HIDE DEF seqs
  <2>1. Len(seqs) \in Nat \ {0}
    BY <1>1, <1>3
  <2>2. PICK f : /\ f = [i \in 1 .. Len(seqs) |-> IF i = 1 THEN seqs[i] ELSE f[i - 1] \o seqs[i]]
                 /\ FlattenSeq(seqs) = f[Len(seqs)]
    BY <2>1, FlattenIs
  <2>3. \A i \in 1 .. Len(s) : f[i] = IF i = 1 THEN seqs[i] ELSE f[i - 1] \o seqs[i]
    BY <1>1, <2>2
  <2>. DEFINE g == [i \in 0 .. Len(s) |-> IF i = 0 THEN <<>> ELSE f[i]]
  <2>4. g[0] = <<>> /\ \A i \in 1 .. Len(s) : g[i] = f[i]
    BY <1>1
  <2>5. g[Len(s)] = FlattenSeq(seqs)
    BY <1>1, <1>3, <2>2, <2>4
  <2>6. ASSUME NEW i \in 1 .. Len(s)
        PROVE  g[i] = g[i - 1] \o Meaning(s, i)
    <3>1. CASE i = 1
      <4>1. g[1] = Meaning(s, 1) /\ Meaning(s, 1) \in Seq(Char)
        BY <1>1, <2>3, <2>4, <3>1, MeaningIsText
      <4>2. g[i - 1] = <<>>
        BY <2>4, <3>1
      <4>. HIDE DEF g
      <4>. QED  BY <3>1, <4>1, <4>2
    <3>2. CASE i # 1
      <4>1. i - 1 \in 1 .. Len(s)
        BY <1>1, <3>2
      <4>. HIDE DEF g
      <4>. QED  BY <1>1, <2>3, <2>4, <3>2, <4>1
    <3>. QED  BY <3>1, <3>2
  <2>. HIDE DEF g
  <2>7. IsGlued(g, s)
    BY <2>4, <2>6 DEF IsGlued
  <2>. QED  BY <2>5, <2>7 DEF seqs
<1>. QED  BY <1>2, <1>3

\* What holds before every pass: nothing has been overwritten that is not read
\* yet, no escape is cut in two, and what is written is what was read means.
LoopInv(c, s, g) ==
  /\ c \in Buffers
  /\ Writable(c)
  /\ Len(c.input) = Len(s)
  /\ c.read_idx <= Len(s)
  /\ c.read_idx = 0 \/ ~ Escapes(s, c.read_idx)
  /\ \A j \in c.read_idx + 1 .. Len(s) : c.input[j] = s[j]
  /\ g[c.read_idx] \in Seq(Char)
  /\ Len(g[c.read_idx]) = c.write_idx
  /\ \A j \in 1 .. c.write_idx : c.input[j] = g[c.read_idx][j]

LEMMA LoopKept ==
  ASSUME NEW s \in Seq(Char), NEW g, IsGlued(g, s), NEW c, LoopInv(c, s, g), ~ ReadAll(c)
  PROVE  LoopInv(CleanStep(c), s, g)
<1>1. PICK in, r, w, n, old : /\ in = c.input /\ r = c.read_idx /\ w = c.write_idx
                             /\ n = Len(s) /\ old = g[r]
  OBVIOUS
<1>2. /\ n \in Nat /\ r \in Nat /\ w \in Nat /\ r < n /\ w <= r
      /\ in \in Seq(Char) /\ Len(in) = n
      /\ \A j \in r + 1 .. n : in[j] = s[j]
      /\ old \in Seq(Char) /\ Len(old) = w /\ \A j \in 1 .. w : in[j] = old[j]
      /\ r = 0 \/ ~ Escapes(s, r)
  BY <1>1 DEF LoopInv, Buffers, ReadAll, Writable
<1>3. PICK i, k : i = r + 1 /\ k = r + 2
  OBVIOUS
<1>4. /\ i \in 1 .. n /\ i - 1 = r /\ k - 1 = i /\ i \in r + 1 .. n
      /\ (i > 1 <=> r # 0) /\ k > 1 /\ i \in Nat /\ k \in Nat
      /\ (r + 1 < n <=> k \in 1 .. n) /\ (r + 1 < n <=> k \in r + 1 .. n)
  BY <1>2, <1>3
<1>5. PICK char, escaped, copied : /\ char = in[i] /\ escaped = in[k]
                                  /\ copied = [in EXCEPT ![w + 1] = char]
  OBVIOUS
<1>6. char = s[i] /\ char \in Char
  BY <1>1, <1>2, <1>4, <1>5
<1>7. PICK d : d = CleanStep(c)
  OBVIOUS
<1>8. d = IF char # ESCAPE_CHAR \/ r + 1 >= n
            THEN [input |-> copied, read_idx |-> i, write_idx |-> w + 1]
          ELSE IF escaped \in DOMAIN DEFAULT_ESCAPE_MAPPINGS
            THEN [input |-> [in EXCEPT ![w + 1] = DEFAULT_ESCAPE_MAPPINGS[escaped]],
                  read_idx |-> k, write_idx |-> w + 1]
          ELSE [input |-> [copied EXCEPT ![w + 2] = escaped],
                read_idx |-> k, write_idx |-> w + 2]
  BY <1>1, <1>2, <1>3, <1>5, <1>7 DEF CleanStep
<1>9. d \in Buffers /\ Writable(d) /\ Len(d.input) = n
  <2>1. c \in Buffers /\ Writable(c)
    BY DEF LoopInv
  <2>. QED  BY <1>1, <1>2, <1>7, <2>1, CleanStepRight
<1>10. DOMAIN copied = 1 .. n /\ \A j \in 1 .. n : copied[j] = IF j = w + 1 THEN char ELSE in[j]
  BY <1>2, <1>5
<1>11. Escapes(s, i) <=> char = ESCAPE_CHAR /\ r + 1 < n
  <2>1. r \in 0 .. Len(s) - 1
    BY <1>1, <1>2
  <2>2. Escapes(s, r + 1) <=> s[r + 1] = ESCAPE_CHAR /\ r + 1 < Len(s)
    BY <1>2, <2>1, EscapeBegins
  <2>. QED  BY <1>1, <1>3, <1>6, <2>2
<1>12. Meaning(s, i) = IF Escapes(s, i) THEN <<>> ELSE <<char>>
  <2>1. ~ (i > 1 /\ Escapes(s, i - 1))
    BY <1>2, <1>4
  <2>. QED  BY <1>6, <2>1 DEF Meaning
<1>13. g[i] = old \o Meaning(s, i)
  <2>1. g[i] = g[i - 1] \o Meaning(s, i)
    BY <1>1, <1>4 DEF IsGlued
  <2>. QED  BY <1>1, <1>4, <2>1
<1>15. CASE char # ESCAPE_CHAR \/ r + 1 >= n
  <2>1. ~ Escapes(s, i)
    BY <1>2, <1>11, <1>15
  <2>2. PICK text : text = old \o <<char>>
    OBVIOUS
  <2>3. /\ text \in Seq(Char) /\ Len(text) = w + 1
        /\ text[w + 1] = char /\ \A j \in 1 .. w : text[j] = old[j]
    BY <1>2, <1>6, <2>2
  <2>4. g[i] = text
    BY <1>12, <1>13, <2>1, <2>2
  <2>5. d.input = copied /\ d.read_idx = i /\ d.write_idx = w + 1
    BY <1>8, <1>15
  <2>6. \A j \in i + 1 .. n : copied[j] = s[j]
    BY <1>2, <1>3, <1>10
  <2>7. \A j \in 1 .. w + 1 : copied[j] = text[j]
    BY <1>2, <1>10, <2>3
  <2>9. /\ \A j \in i + 1 .. n : d.input[j] = s[j]
        /\ \A j \in 1 .. w + 1 : d.input[j] = text[j]
    BY <2>5, <2>6, <2>7
  <2>20. PICK new : new = d.input
    OBVIOUS
  <2>21. PICK v : v = w + 1
    OBVIOUS
  <2>22. /\ \A j \in i + 1 .. n : new[j] = s[j]
         /\ \A j \in 1 .. v : new[j] = text[j]
         /\ text \in Seq(Char) /\ Len(text) = v /\ v = d.write_idx
    BY <2>3, <2>5, <2>9, <2>20, <2>21
  <2>23. text = g[i] /\ i = d.read_idx /\ ~ Escapes(s, i) /\ i \in r + 1 .. n
    BY <1>4, <2>1, <2>4, <2>5
  <2>24. /\ d.read_idx <= n /\ ~ Escapes(s, d.read_idx)
         /\ \A j \in d.read_idx + 1 .. n : d.input[j] = s[j]
    BY <1>2, <2>20, <2>22, <2>23
  <2>25. g[d.read_idx] \in Seq(Char) /\ Len(g[d.read_idx]) = d.write_idx
    BY <2>22, <2>23
  <2>26. \A j \in 1 .. d.write_idx : d.input[j] = g[d.read_idx][j]
    BY <2>20, <2>22, <2>23
  <2>. QED  BY <1>1, <1>7, <1>9, <2>24, <2>25, <2>26 DEF LoopInv
<1>16. ASSUME ~ (char # ESCAPE_CHAR \/ r + 1 >= n)
       PROVE  /\ ~ Escapes(s, k)
              /\ k \in r + 1 .. n /\ escaped \in Char
              /\ Meaning(s, k) \in Seq(Char)
              /\ Meaning(s, k) = IF escaped \in DOMAIN DEFAULT_ESCAPE_MAPPINGS
                                   THEN <<DEFAULT_ESCAPE_MAPPINGS[escaped]>>
                                 ELSE <<ESCAPE_CHAR, escaped>>
              /\ g[k] = old \o Meaning(s, k)
  <2>1. Escapes(s, i)
    BY <1>2, <1>11, <1>16
  <2>2. k \in 1 .. n /\ k \in r + 1 .. n
    BY <1>2, <1>4, <1>16
  <2>3. escaped = s[k] /\ escaped \in Char
    BY <1>1, <1>2, <1>5, <2>2
  <2>4. Meaning(s, k) = IF s[k] \in DOMAIN DEFAULT_ESCAPE_MAPPINGS
                         THEN <<DEFAULT_ESCAPE_MAPPINGS[s[k]]>>
                       ELSE <<ESCAPE_CHAR, s[k]>>
    <3>1. k > 1 /\ Escapes(s, k - 1)
      BY <1>4, <2>1
    <3>. QED  BY <3>1 DEF Meaning
  <2>5. ~ Escapes(s, k)
    <3>1. r \in 0 .. Len(s) - 1
      BY <1>1, <1>2
    <3>2. Escapes(s, r + 1)
      BY <1>3, <2>1
    <3>3. ~ Escapes(s, r + 2)
      BY <3>1, <3>2, EscapeEnds
    <3>. QED  BY <1>3, <3>3
  <2>6. g[k] = g[i] \o Meaning(s, k)
    <3>1. g[k] = g[k - 1] \o Meaning(s, k)
      BY <1>1, <2>2 DEF IsGlued
    <3>. QED  BY <1>4, <3>1
  <2>7. g[i] = old
    <3>1. Meaning(s, i) = <<>>
      BY <1>12, <2>1
    <3>2. old \o <<>> = old
      BY <1>2
    <3>. QED  BY <1>13, <3>1, <3>2
  <2>8. Meaning(s, k) \in Seq(Char)
    BY <1>1, <2>2, MeaningIsText
  <2>. QED  BY <2>2, <2>3, <2>4, <2>5, <2>6, <2>7, <2>8
<1>17. CASE ~ (char # ESCAPE_CHAR \/ r + 1 >= n) /\ escaped \in DOMAIN DEFAULT_ESCAPE_MAPPINGS
  <2>1. PICK x, text : x = DEFAULT_ESCAPE_MAPPINGS[escaped] /\ text = old \o <<x>>
    OBVIOUS
  <2>2. d = [input |-> [in EXCEPT ![w + 1] = x], read_idx |-> k, write_idx |-> w + 1]
    BY <1>8, <1>17, <2>1
  <2>3. <<x>> \in Seq(Char) /\ g[k] = text
    BY <1>16, <1>17, <2>1
  <2>4. x \in Char
    BY <2>3
  <2>5. /\ text \in Seq(Char) /\ Len(text) = w + 1
        /\ text[w + 1] = x /\ \A j \in 1 .. w : text[j] = old[j]
    BY <1>2, <2>1, <2>4
  <2>6. \A j \in 1 .. n : d.input[j] = IF j = w + 1 THEN x ELSE in[j]
    BY <1>2, <2>2
  <2>7. d.read_idx = k /\ d.write_idx = w + 1
    BY <1>2, <2>2
  <2>8. \A j \in k + 1 .. n : d.input[j] = s[j]
    BY <1>2, <1>3, <2>6
  <2>9. \A j \in 1 .. w + 1 : d.input[j] = text[j]
    BY <1>2, <2>5, <2>6
  <2>20. PICK new : new = d.input
    OBVIOUS
  <2>21. PICK v : v = w + 1
    OBVIOUS
  <2>22. /\ \A j \in k + 1 .. n : new[j] = s[j]
         /\ \A j \in 1 .. v : new[j] = text[j]
         /\ text \in Seq(Char) /\ Len(text) = v /\ v = d.write_idx
    BY <2>5, <2>7, <2>8, <2>9, <2>20, <2>21
  <2>23. text = g[k] /\ k = d.read_idx /\ ~ Escapes(s, k) /\ k \in r + 1 .. n
    BY <1>16, <1>17, <2>3, <2>7
  <2>24. /\ d.read_idx <= n /\ ~ Escapes(s, d.read_idx)
         /\ \A j \in d.read_idx + 1 .. n : d.input[j] = s[j]
    BY <1>2, <2>20, <2>22, <2>23
  <2>25. g[d.read_idx] \in Seq(Char) /\ Len(g[d.read_idx]) = d.write_idx
    BY <2>22, <2>23
  <2>26. \A j \in 1 .. d.write_idx : d.input[j] = g[d.read_idx][j]
    BY <2>20, <2>22, <2>23
  <2>. QED  BY <1>1, <1>7, <1>9, <2>24, <2>25, <2>26 DEF LoopInv
<1>18. CASE ~ (char # ESCAPE_CHAR \/ r + 1 >= n) /\ escaped \notin DOMAIN DEFAULT_ESCAPE_MAPPINGS
  <2>1. PICK text : text = old \o <<char, escaped>>
    OBVIOUS
  <2>2. d = [input |-> [copied EXCEPT ![w + 2] = escaped], read_idx |-> k, write_idx |-> w + 2]
    BY <1>8, <1>18
  <2>3. g[k] = text /\ escaped \in Char
    BY <1>16, <1>18, <2>1
  <2>4. /\ text \in Seq(Char) /\ Len(text) = w + 2
        /\ text[w + 1] = char /\ text[w + 2] = escaped
        /\ \A j \in 1 .. w : text[j] = old[j]
    <3>1. PICK two : two = <<char, escaped>>
      OBVIOUS
    <3>2. two \in Seq(Char) /\ Len(two) = 2 /\ two[1] = char /\ two[2] = escaped
      BY <1>6, <2>3, <3>1
    <3>3. text = old \o two
      BY <2>1, <3>1
    <3>7. old \in Seq(Char) /\ Len(old) = w /\ w \in Nat
      BY <1>2
    <3>8. text \in Seq(Char) /\ Len(text) = Len(old) + Len(two)
      BY ONLY <3>7, <3>2, <3>3, ConcatProperties
    <3>4. text \in Seq(Char) /\ Len(text) = w + 2
      BY <3>2, <3>7, <3>8
    <3>5. \A j \in 1 .. w + 2 : text[j] = IF j <= w THEN old[j] ELSE two[j - w]
      BY ONLY <3>7, <3>2, <3>3, ConcatProperties, SMTT(30)
    <3>6. w + 1 - w = 1 /\ w + 2 - w = 2 /\ w + 1 \in 1 .. w + 2 /\ w + 2 \in 1 .. w + 2
      BY <1>2
    <3>. QED  BY <1>2, <3>2, <3>4, <3>5, <3>6
  <2>5. \A j \in 1 .. n : d.input[j] = IF j = w + 2 THEN escaped
                                        ELSE IF j = w + 1 THEN char ELSE in[j]
    BY <1>2, <1>10, <2>2
  <2>6. d.read_idx = k /\ d.write_idx = w + 2
    BY <1>2, <2>2
  <2>7. ASSUME NEW j \in k + 1 .. n
        PROVE  d.input[j] = s[j]
    <3>1. j \in 1 .. n /\ j # w + 2 /\ j # w + 1 /\ j \in r + 1 .. n
      BY <1>2, <1>3
    <3>. QED  BY <1>2, <2>5, <3>1
  <2>8. w + 2 <= n
    BY <1>2, <1>18
  <2>9. \A j \in 1 .. w + 2 : d.input[j] = text[j]
    BY <1>2, <2>4, <2>5, <2>8, SMTT(30)
  <2>20. PICK new : new = d.input
    OBVIOUS
  <2>21. PICK v : v = w + 2
    OBVIOUS
  <2>22. /\ \A j \in k + 1 .. n : new[j] = s[j]
         /\ \A j \in 1 .. v : new[j] = text[j]
         /\ text \in Seq(Char) /\ Len(text) = v /\ v = d.write_idx
    BY <2>4, <2>6, <2>7, <2>9, <2>20, <2>21
  <2>23. text = g[k] /\ k = d.read_idx /\ ~ Escapes(s, k) /\ k \in r + 1 .. n
    BY <1>16, <1>18, <2>3, <2>6
  <2>24. /\ d.read_idx <= n /\ ~ Escapes(s, d.read_idx)
         /\ \A j \in d.read_idx + 1 .. n : d.input[j] = s[j]
    BY <1>2, <2>20, <2>22, <2>23
  <2>25. g[d.read_idx] \in Seq(Char) /\ Len(g[d.read_idx]) = d.write_idx
    BY <2>22, <2>23
  <2>26. \A j \in 1 .. d.write_idx : d.input[j] = g[d.read_idx][j]
    BY <2>20, <2>22, <2>23
  <2>. QED  BY <1>1, <1>7, <1>9, <2>24, <2>25, <2>26 DEF LoopInv
<1>. QED  BY <1>15, <1>17, <1>18

\* A text is cleaned to what its characters mean, escape by escape.
LEMMA CleanedIsMeaning ==
  ASSUME NEW s \in Seq(Char)
  PROVE  string_clean_escape_sequences(s) = FlattenSeq([i \in 1 .. Len(s) |-> Meaning(s, i)])
<1>1. PICK g : IsGlued(g, s) /\ g[Len(s)] = FlattenSeq([i \in 1 .. Len(s) |-> Meaning(s, i)])
  BY GluedIs
<1>. DEFINE Bad == {k \in Nat : \E c \in Buffers :
                      Left(c) = k /\ LoopInv(c, s, g) /\ Clean[c] # g[Len(s)]}
            start == [input |-> s, read_idx |-> 0, write_idx |-> 0]
<1>2. Bad = {}
  <2>1. SUFFICES ASSUME Bad # {}
                 PROVE  FALSE
    OBVIOUS
  <2>2. Bad \subseteq Nat
    OBVIOUS
  <2>3. PICK k \in Bad : \A j \in Bad : k <= j
    <3>. HIDE DEF Bad
    <3>. QED  BY <2>1, <2>2, Least
  <2>4. PICK c \in Buffers : Left(c) = k /\ LoopInv(c, s, g) /\ Clean[c] # g[Len(s)]
    OBVIOUS
  <2>5. CASE ReadAll(c)
    <3>1. /\ c.input \in Seq(Char) /\ c.write_idx \in 0 .. Len(c.input) /\ c.read_idx = Len(s)
          /\ g[Len(s)] \in Seq(Char) /\ Len(g[Len(s)]) = c.write_idx
          /\ \A j \in 1 .. c.write_idx : c.input[j] = g[Len(s)][j]
      BY <2>4, <2>5 DEF LoopInv, ReadAll, Buffers, Writable
    <3>2. Clean[c] = SubSeq(c.input, 1, c.write_idx)
      BY <2>5, CleanExists DEF Written
    <3>3. /\ SubSeq(c.input, 1, c.write_idx) \in Seq(Char)
          /\ Len(SubSeq(c.input, 1, c.write_idx)) = c.write_idx
          /\ \A j \in 1 .. c.write_idx : SubSeq(c.input, 1, c.write_idx)[j] = c.input[j]
      BY <3>1
    <3>4. SubSeq(c.input, 1, c.write_idx) = g[Len(s)]
      BY <3>1, <3>3, SeqEqual
    <3>. QED  BY <2>4, <3>2, <3>4
  <2>6. CASE ~ ReadAll(c)
    <3>. DEFINE d == CleanStep(c)
    <3>1. /\ d \in Buffers /\ Left(d) \in Nat /\ Left(d) < k
          /\ Clean[c] = Clean[d]
      BY <2>4, <2>6, CleanStepRight, CleanExists
    <3>2. LoopInv(d, s, g)
      BY <1>1, <2>4, <2>6, LoopKept
    <3>. HIDE DEF d
    <3>3. Left(d) \notin Bad
      <4>1. k \in Nat
        BY <2>2
      <4>. HIDE DEF Bad
      <4>. QED  BY <2>3, <3>1, <4>1
    <3>. QED  BY <2>4, <3>1, <3>2, <3>3
  <2>. QED  BY <2>5, <2>6
<1>3. start \in Buffers /\ LoopInv(start, s, g)
  <2>1. g[0] = <<>>
    BY <1>1 DEF IsGlued
  <2>2. /\ start \in Buffers /\ start.input = s /\ start.read_idx = 0 /\ start.write_idx = 0
    BY DEF Buffers
  <2>3. <<>> \in Seq(Char) /\ Len(<<>>) = 0 /\ Len(s) \in Nat
    OBVIOUS
  <2>4. \A j \in 0 + 1 .. Len(s) : start.input[j] = s[j]
    BY <2>2
  <2>. HIDE DEF start
  <2>5. g[0] \in Seq(Char) /\ Len(g[0]) = 0 /\ \A j \in 1 .. 0 : start.input[j] = g[0][j]
    BY <2>1, <2>3
  <2>6. Writable(start)
    BY <2>2, <2>3 DEF Writable
  <2>7. 0 <= Len(s)
    BY <2>3
  <2>. QED  BY <2>2, <2>4, <2>5, <2>6, <2>7 DEF LoopInv
<1>4. Clean[start] = g[Len(s)]
  <2>. HIDE DEF start
  <2>. QED  BY <1>2, <1>3, LeftIsNat
<1>. QED  BY <1>1, <1>4 DEF string_clean_escape_sequences, Cleaned

\* The text of a string is what its source means, whatever escapes there are in it
\* (string_util.c:18-67).
THEOREM StringsAreCleaned == Spec => []EscapesReplaced
<1>1. LexemesInv => EscapesReplaced
  <2>. SUFFICES ASSUME LexemesInv, NEW k \in 1 .. Len(tokens), tokens[k].type = "STRING"
                PROVE  Text(tokens[k]) = CString(FlattenSeq(
                         [i \in 1 .. tokens[k].upto - tokens[k].from |-> Meaning(Source(tokens[k]), i)]))
    BY DEF EscapesReplaced, Lexeme
  <2>1. PICK t : t = tokens[k]
    OBVIOUS
  <2>2. t.type = "STRING" /\ t.text # NULL /\ Located(t)
    BY <2>1 DEF LexemesInv, ScannerInv, TokensInv, TextInv, TextRight
  <2>3. Source(t) \in Seq(Char) /\ Len(Source(t)) = t.upto - t.from
    <3>1. /\ t.from \in Nat /\ t.upto \in Nat /\ t.from <= t.upto /\ t.upto <= Len(file)
          /\ file \in Seq(Char) /\ Len(file) \in Nat
      <4>1. t \in TokenSet /\ file \in Seq(Char)
        BY <2>1 DEF LexemesInv, ScannerInv, TokensInv, LexInv, LineInv, ReaderInv
      <4>2. t.from <= t.upto /\ t.upto <= Len(file)
        BY <2>2 DEF Located
      <4>. QED  BY <4>1, <4>2 DEF TokenSet
    <3>2. \A i \in t.from + 1 .. t.upto : file[i] \in Char
      BY <3>1
    <3>3. /\ Source(t) \in Seq(Char)
          /\ Len(Source(t)) = IF t.from + 1 <= t.upto THEN t.upto - (t.from + 1) + 1 ELSE 0
      <4>1. t.from + 1 \in Int /\ t.upto \in Int
        BY <3>1
      <4>. QED  BY ONLY <3>2, <4>1, SubSeqProperties DEF Source
    <3>. QED  BY <3>1, <3>3
  <2>4. Text(t) = CString(string_clean_escape_sequences(Source(t)))
    BY <2>1, <2>2, TextOfToken
  <2>. QED  BY <2>1, <2>3, <2>4, CleanedIsMeaning
<1>. QED  BY <1>1, LexemesInit, LexemesNext, PTL DEF Spec

-----------------------------------------------------------------------------
\* The reader's counters and flags.
FlagsInv ==
  /\ eof \in BOOLEAN
  /\ line \in Nat
  /\ error \in {"FR_ERR_NONE", "FR_ERR_CANT_READ", "FR_ERR_LINE_TOO_BIG"}

LEMMA FlagsNext ==
  ASSUME FlagsInv, [Next]_vars
  PROVE  FlagsInv'
<1>1. CASE UNCHANGED readerVars
  BY <1>1 DEF FlagsInv, readerVars
<1>2. CASE ReadLine
  <2>1. eof' \in BOOLEAN
    BY <1>2 DEF ReadLine, feof_after
  <2>2. line' = line + 1 /\ error' = error
    BY <1>2 DEF ReadLine
  <2>. QED  BY <2>1, <2>2 DEF FlagsInv
<1>3. CASE EndOfFile
  BY <1>3 DEF FlagsInv, EndOfFile, NO_LINE_NUMBER
<1>4. CASE LineTooBig
  <2>1. eof' \in BOOLEAN
    BY <1>4 DEF LineTooBig, feof_after
  <2>. QED  BY <1>4, <2>1 DEF FlagsInv, LineTooBig
<1>5. CASE CantRead
  BY <1>5 DEF FlagsInv, CantRead
<1>6. Next => UNCHANGED readerVars \/ ReadLine \/ EndOfFile \/ LineTooBig \/ CantRead
  BY DEF Next, ReadNextLine, EatWhitespace, StartString, ParseString, LexOperator,
     LexNumber, LexWord, InvalidChar, Stopped, ScansOneOf, vars
<1>. QED  BY <1>1, <1>2, <1>3, <1>4, <1>5, <1>6 DEF vars

\* The types of the lexer: lines fit, texts hold no NUL, and tokens lie in the
\* file (file_reader.c:129-230, lexer.c:105-258).
THEOREM TypesAreRight == Spec => []TypeOK
<1>1. Init => FlagsInv
  <2>. SUFFICES ASSUME Init
                PROVE  FlagsInv
    OBVIOUS
  <2>1. eof \in BOOLEAN
    BY ZenonT(10) DEF Init, ReaderInit
  <2>2. line \in Nat /\ error = "FR_ERR_NONE"
    BY DEF Init, ReaderInit, NO_LINE_NUMBER
  <2>. QED  BY <2>1, <2>2 DEF FlagsInv
<1>2. LexemesInv /\ FlagsInv => TypeOK
  <2>. SUFFICES ASSUME LexemesInv, FlagsInv
                PROVE  TypeOK
    OBVIOUS
  <2>1. LexInv /\ LineInv /\ ScanInv /\ TokensInv
    BY DEF LexemesInv, ScannerInv
  <2>2. file \in Seq(Char \ {NUL})
    BY <2>1 DEF LexInv, ReaderInv, LineInv
  <2>3. {offset, begin} \subseteq 0 .. Len(file) /\ {line, pos} \subseteq Nat
    BY <2>1 DEF LexInv, ReaderInv, LineInv, Length, FlagsInv
  <2>4. ASSUME NEW t \in Lexeme
        PROVE  /\ t.type \in TokenTypes
               /\ Text(t) \in Seq(Char \ {NUL})
               /\ [line |-> t.line, col |-> t.col] \in Locations
               /\ t.from <= t.upto /\ t.upto <= Len(file)
    <3>1. PICK k \in 1 .. Len(tokens) : t = tokens[k]
      BY DEF Lexeme
    <3>2. t \in TokenSet /\ Located(t)
      BY <2>1, <3>1 DEF TokensInv
    <3>3. Text(t) \in Seq(Char \ {NUL})
      <4>1. CASE t.text = NULL
        BY <4>1 DEF Text
      <4>. QED  BY <3>1, <4>1, TextOfToken
    <3>. QED  BY <3>2, <3>3 DEF TokenSet, Locations, Located
  <2>. QED
    BY <2>1, <2>2, <2>3, <2>4 DEF TypeOK, LexInv, ReaderInv, ScanInv, TokensInv, FlagsInv
<1>. QED  BY <1>1, <1>2, FlagsNext, LexemesInit, LexemesNext, PTL DEF Spec

-----------------------------------------------------------------------------
\* The tokens lie in the array's block, however often it has grown, and every
\* text ends in a block of its own, for files that are not so large that the
\* size of the block wraps around (token.c:25-83, arena.c:78-82).
THEOREM TokensAreStored ==
  ASSUME FilesFit
  PROVE  Spec => []StoredInBlocks
<1>. DEFINE StoreInv == LexemesInv /\ CountInv /\ RoomInv
<1>1. Init => StoreInv
  <2>. SUFFICES ASSUME Init
                PROVE  CountInv /\ RoomInv
    BY LexemesInit
  <2>1. /\ Len(tokens) = 0 /\ Scanned = 0 /\ file \in Files
        /\ capacity = INIT_CAPACITY /\ bytes = INIT_CAPACITY * TOKEN_BYTES
    BY DEF Init, ReaderInit, ArrayInit, Scanned, Length
  <2>. QED  BY <2>1, TokenArrayAssumption DEF CountInv, RoomInv, RoomRight
<1>2. StoreInv /\ [Next]_vars => StoreInv'
  <2>. SUFFICES ASSUME LexemesInv, CountInv, RoomInv, [Next]_vars
                PROVE  LexemesInv' /\ CountInv' /\ RoomInv'
    OBVIOUS
  <2>1. LexInv /\ LineInv /\ ScanInv /\ TokensInv
    BY DEF LexemesInv, ScannerInv
  <2>. QED  BY <2>1, LexemesNext, CountNext, RoomNext
<1>3. StoreInv => StoredInBlocks
  <2>. SUFFICES ASSUME LexemesInv, RoomInv
                PROVE  StoredInBlocks
    OBVIOUS
  <2>1. Len(tokens) * TOKEN_BYTES <= bytes
    <3>1. /\ Len(tokens) \in Nat /\ capacity \in Nat /\ TOKEN_BYTES \in Nat
          /\ Len(tokens) <= capacity /\ bytes = capacity * TOKEN_BYTES
      BY TokenArrayAssumption DEF LexemesInv, ScannerInv, TokensInv, RoomInv, RoomRight
    <3>. QED  BY <3>1
  <2>. QED  BY <2>1, TextOfToken DEF StoredInBlocks
<1>. QED  BY <1>1, <1>2, <1>3, PTL DEF Spec
=============================================================================
