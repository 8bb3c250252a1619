----------------------------- MODULE InputHelper -----------------------------
(***************************************************************************)
(* The calls of input_integer, the helper behind INPUT that the emitter    *)
(* writes (backend/emitter-x86.c lines 177-244), from one branch of its    *)
(* assembly to the next.  Offsets are relative to rbp.                     *)
(*                                                                         *)
(* What is typed is a sequence of words.  A word is a sequence of the      *)
(* pieces that scanf makes of it: the field width cuts it, and what is     *)
(* left of it is the next thing that scanf finds.  A piece is told by      *)
(* whether it begins with a number, which one, its first character and its *)
(* length.                                                                 *)
(***************************************************************************)
EXTENDS Words, Platform

CONSTANTS Pieces,      \* what scanf may find
          Inputs,      \* what may be typed
          MaxCalls,    \* bound: how often INPUT is executed
          CHAR_LIMIT   \* 2^8 in the code

\* Mutant: the width of the format is the size of the frame.
WidthOfFrame == 128

\* The field width of input_string_fmt
Width == 100

ASSUME InputAssumption ==
  /\ CHAR_LIMIT \in 2 .. INT_LIMIT /\ CHAR_LIMIT % 2 = 0
  /\ \A piece \in Pieces :
       /\ piece.digits \in BOOLEAN /\ piece.number \in Int
       /\ piece.first \in 0 .. CHAR_LIMIT - 1
       /\ piece.length \in 1 .. Width
  /\ Inputs \subseteq Seq(Seq(Pieces) \ {<<>>})
  /\ \A input \in Inputs : \A w \in 1 .. Len(input) :
       \A p \in 1 .. Len(input[w]) - 1 : input[w][p].length = Width
  /\ MaxCalls \in Nat \ {0}

VARIABLES cc,       \* the calling convention of the target
          typed,    \* the words typed
          word,     \* the place of the word that scanf finds next,
          part,     \* and of the piece of it
          calls,    \* the calls of the helper so far
          phase,    \* the part of the helper that is next
          rax,      \* the result register
          stored,   \* the piece at [rbp-112]
          endptr,   \* what strtol has stored at [rbp-120]
          number,   \* what it returned, at [rbp-8]
          touched   \* history: the bytes of the frame that scanf has written

inputVars == <<cc, typed, word, part, calls, phase, rax, stored, endptr, number, touched>>
streamVars == <<cc, typed, word, part, calls>>

FRAME == 128
BUFFER == -112
ENDPTR == -120
NUMBER == -8

\* A long of the C library has 64 bits, under Windows 32.
LongLimit == IF cc = CC_MS_64 THEN INT_LIMIT ELSE WORD_LIMIT

\* What a function leaves in rax that returns n in a shorter type: the rest of
\* the register is not specified.
Register(n, limit) == {r \in Word : r % limit = n % limit}

InputInit ==
  /\ cc \in CONVENTIONS
  /\ typed \in Inputs
  /\ word = 1 /\ part = 1 /\ calls = 1
  /\ phase = "scanf"
  /\ stored \in Pieces
  /\ rax = 0 /\ endptr = "none" /\ number = 0 /\ touched = {}

AtEnd == word > Len(typed)

\* Mutant: what the field width cuts off is dropped.
TakePieceDropRest ==
  /\ stored' = typed[word][part]
  /\ word' = word + 1 /\ part' = 1

TakePiece ==
  /\ stored' = typed[word][part]
  /\ IF part < Len(typed[word])
       THEN part' = part + 1 /\ UNCHANGED word
       ELSE word' = word + 1 /\ part' = 1

\* At the end of the input the buffer is what the stack happens to hold.
Scan ==
  /\ phase = "scanf"
  /\ \/ /\ ~ AtEnd
        /\ TakePiece
        /\ rax' \in Register(1, INT_LIMIT)
        /\ touched' = BUFFER .. BUFFER + typed[word][part].length
     \/ /\ AtEnd
        /\ rax' \in Register(-1, INT_LIMIT)
        /\ stored' \in Pieces
        /\ touched' = {}
        /\ UNCHANGED <<word, part>>
  /\ phase' = "check"
  /\ UNCHANGED <<cc, typed, calls, endptr, number>>

\* Lines 194-198
CheckFailure ==
  /\ phase = "check"
  /\ \/ rax = -1 /\ rax' = 0 /\ phase' = "return"
     \/ rax # -1 /\ phase' = "strtol" /\ UNCHANGED rax
  /\ UNCHANGED <<streamVars, stored, endptr, number, touched>>

\* strtol stops at the largest and smallest long.
Clamped(n, limit) ==
  CASE n > limit \div 2 - 1 -> limit \div 2 - 1
    [] n < -(limit \div 2)  -> -(limit \div 2)
    [] OTHER -> n

\* All of rax is stored, also where a long is shorter.
Convert ==
  /\ phase = "strtol"
  /\ rax' \in Register(IF stored.digits THEN Clamped(stored.number, LongLimit) ELSE 0, LongLimit)
  /\ number' = rax'
  /\ endptr' = IF stored.digits THEN "after" ELSE "start"
  /\ phase' = "converted"
  /\ UNCHANGED <<streamVars, stored, touched>>

\* Lines 212-224: nothing was converted, so the result is the character.
TakeCharacter ==
  /\ phase = "converted" /\ endptr = "start"
  /\ rax' = Signed(stored.first, CHAR_LIMIT)
  /\ phase' = "return"
  /\ UNCHANGED <<streamVars, stored, endptr, number, touched>>

\* Mutant: only the upper end of the range is checked.
FitsBelow == number <= INT_LIMIT \div 2 - 1

Fits == number <= INT_LIMIT \div 2 - 1 /\ number >= -(INT_LIMIT \div 2)

\* Mutant: a number out of range is returned as the largest one.
TakeNumberSaturated ==
  /\ phase = "converted" /\ endptr # "start"
  /\ rax' = IF Fits THEN number ELSE INT_LIMIT \div 2 - 1
  /\ phase' = "return"
  /\ UNCHANGED <<streamVars, stored, endptr, number, touched>>

\* Lines 226-240
TakeNumber ==
  /\ phase = "converted" /\ endptr # "start"
  /\ rax' = IF Fits THEN number ELSE 0
  /\ phase' = "return"
  /\ UNCHANGED <<streamVars, stored, endptr, number, touched>>

\* The program comes to an INPUT again.
NextInput ==
  /\ phase = "return"
  /\ calls < MaxCalls
  /\ calls' = calls + 1
  /\ phase' = "scanf"
  /\ UNCHANGED <<cc, typed, word, part, rax, stored, endptr, number, touched>>

Returned == phase = "return" /\ UNCHANGED inputVars

InputNext ==
  \/ Scan \/ CheckFailure \/ Convert \/ TakeCharacter \/ TakeNumber
  \/ NextInput \/ Returned

InputSpec == InputInit /\ [][InputNext]_inputVars

-----------------------------------------------------------------------------
\* Whatever is typed, also nothing, the result has the range of an int: INPUT
\* gives a variable a number that PRINT shows whole.
ResultIsInt == phase = "return" => rax \in Entered

\* scanf stays in its buffer, whatever is typed: it does not reach the saved
\* end pointer below, nor the saved number or the return address above.
FrameKept == touched \subseteq BUFFER .. NUMBER - 1

\* What is typed gives an int and touches nothing but the buffer, although frame
\* and field width are numbers placed by hand (emitter-x86.c:17 and 170-240).
ResultSafe == ResultIsInt /\ FrameKept

\* What INPUT may give for a piece: the number, 0 if it is none of an int, or the
\* character.  Under Windows a number out of range is the largest or smallest
\* long, which is an int; and any number may become 0, for the check looks at
\* the half of the register that strtol does not set.
Meaning(piece) ==
  CASE ~ piece.digits -> {Signed(piece.first, CHAR_LIMIT)}
    [] piece.digits /\ cc = CC_MS_64 -> {0, Clamped(piece.number, INT_LIMIT)}
    [] OTHER -> {IF piece.number \in Entered THEN piece.number ELSE 0}

\* Each INPUT takes a word, in the order they are typed, and stores what it
\* means (MANUAL.md lines 99-101), up to the first word that is longer than the
\* field: the pieces of that one go to as many INPUTs, as if they were words
\* (emitter-x86.c:17 and 187-240).
AsTyped ==
  \A w \in 1 .. Len(typed) :
    phase = "return" /\ (\A v \in 1 .. w - 1 : Len(typed[v]) = 1) =>
      \A p \in 1 .. Len(typed[w]) : calls = w + p - 1 => rax \in Meaning(typed[w][p])

\* MANUAL.md line 102: "Empty input stores `0`".
EmptyIsZero == phase = "return" /\ touched = {} => rax = 0
=============================================================================
