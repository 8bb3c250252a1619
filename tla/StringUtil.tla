------------------------------ MODULE StringUtil ------------------------------
(***************************************************************************)
(* The string functions the lexer is built on (common/string_util.c, and   *)
(* strspn and strcspn of the C library).  A string is the sequence of its  *)
(* characters; places in it count from 0, as in C, so that place p is      *)
(* character p + 1 of the sequence.                                        *)
(***************************************************************************)
EXTENDS Integers, Sequences

CONSTANT Char

NUL == "NUL"
ESCAPE_CHAR == "\\"
NEWLINES == {"\n", "\r"}

ASSUME CharAssumption == {NUL, ESCAPE_CHAR} \cup NEWLINES \subseteq Char

\* What an escaped character stands for.  The other mappings of the table, from
\* letters to control characters, are as the one of "n".
DEFAULT_ESCAPE_MAPPINGS ==
  [c \in {"\"", "'", "\\", "n", "0"} |->
     CASE c = "n" -> "\n" [] c = "0" -> NUL [] OTHER -> c]

\* The place where the longest run of chars that begins at place p ends: strspn,
\* strspn_callback and, with the complement of chars, strcspn.
RunEnd(s, p, chars) ==
  CHOOSE e \in p .. Len(s) : /\ \A i \in p + 1 .. e : s[i] \in chars
                             /\ e = Len(s) \/ s[e + 1] \notin chars

\* The characters of s that its readers see: they stop at the first NUL.
CString(s) == SubSeq(s, 1, RunEnd(s, 0, Char \ {NUL}))

strip_trailing_newlines(s) ==
  SubSeq(s, 1, CHOOSE n \in 0 .. Len(s) : /\ n = 0 \/ s[n] \notin NEWLINES
                                          /\ \A i \in n + 1 .. Len(s) : s[i] \in NEWLINES)

\* One pass of the loop of string_clean_escape_sequences, which rewrites input.
CleanStep(c) ==
  LET char == c.input[c.read_idx + 1]
      escaped == c.input[c.read_idx + 2]
      copied == [c.input EXCEPT ![c.write_idx + 1] = char]
  IN IF char # ESCAPE_CHAR \/ c.read_idx + 1 >= Len(c.input)
       THEN [input |-> copied, read_idx |-> c.read_idx + 1, write_idx |-> c.write_idx + 1]
     ELSE IF escaped \in DOMAIN DEFAULT_ESCAPE_MAPPINGS
       THEN [input |-> [c.input EXCEPT ![c.write_idx + 1] = DEFAULT_ESCAPE_MAPPINGS[escaped]],
             read_idx |-> c.read_idx + 2, write_idx |-> c.write_idx + 1]
     ELSE [input |-> [copied EXCEPT ![c.write_idx + 2] = escaped],
           read_idx |-> c.read_idx + 2, write_idx |-> c.write_idx + 2]

Clean[c \in [input : Seq(Char), read_idx : Nat, write_idx : Nat]] ==
  IF c.read_idx >= Len(c.input) THEN SubSeq(c.input, 1, c.write_idx) ELSE Clean[CleanStep(c)]

Cleaned(s) == Clean[[input |-> s, read_idx |-> 0, write_idx |-> 0]]

\* Mutant: the string is cleaned a second time.
CleanTwice(s) == Cleaned(Cleaned(s))

\* What it leaves before the NUL that it writes last.
string_clean_escape_sequences(s) == Cleaned(s)
=============================================================================
