-------------------------------- MODULE Words --------------------------------
(***************************************************************************)
(* The integers of a compiled program: two's complement words, and the     *)
(* shorter int of the C library.                                           *)
(***************************************************************************)
EXTENDS Integers

CONSTANTS WORD_LIMIT,  \* words are modulo this, 2^64 in the code the emitter writes
          INT_LIMIT    \* 2^32, an int, what the format "%d" shows

ASSUME WordsAssumption ==
  /\ WORD_LIMIT \in Nat /\ WORD_LIMIT % 2 = 0
  /\ INT_LIMIT \in 4 .. WORD_LIMIT - 1 /\ INT_LIMIT % 2 = 0

Signed(n, limit) ==
  LET low == n % limit
  IN  IF low < limit \div 2 THEN low ELSE low - limit

Range_(limit) == -(limit \div 2) .. limit \div 2 - 1

Word == Range_(WORD_LIMIT)
Wrap(n) == Signed(n, WORD_LIMIT)

\* What is printed of a word.
Shown(n) == Signed(n, INT_LIMIT)

\* What the input helper may return.
Entered == Range_(INT_LIMIT)

Abs(n) == IF n < 0 THEN -n ELSE n

\* Division rounds towards zero; the divisor is not zero.
Quotient(a, b) ==
  LET q == Abs(a) \div Abs(b)
  IN  IF (a < 0) = (b < 0) THEN q ELSE -q

-----------------------------------------------------------------------------
(***************************************************************************)
(* What a program has printed: the last thing only, with a beat that tells *)
(* it from the one before.                                                 *)
(***************************************************************************)
Silent == [kind |-> "none", number |-> 0, string |-> "", beat |-> 0]
PrintNumber(io, n) ==
  [kind |-> "number", number |-> Shown(n), string |-> "", beat |-> 1 - io.beat]
PrintText(io, s) ==
  [kind |-> "string", number |-> 0, string |-> s, beat |-> 1 - io.beat]
=============================================================================
