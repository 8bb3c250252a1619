---------------------------- MODULE BatchedWriter ----------------------------
(***************************************************************************)
(* The buffered output of the x86 emitter (backend/batched_writer.c).      *)
(* Strings accumulate in a buffer of BUFFER_SIZE bytes that is handed to   *)
(* fwrite when the next string would not fit.  A short fwrite, or a        *)
(* formatted string larger than the whole buffer, is a DZ_THROW: it aborts *)
(* the process.                                                            *)
(*                                                                         *)
(* buffer is the written part of the C array, so buffer_pos is its length; *)
(* what vsnprintf leaves beyond buffer_pos when a string does not fit is   *)
(* never read and is not represented.                                      *)
(***************************************************************************)
EXTENDS Integers, Sequences, SequencesExt

CONSTANTS Byte,         \* the bytes of the output
          Strings,      \* the strings the emitter writes or formats
          BUFFER_SIZE,  \* BATCHED_WRITER_BUFFER_SIZE, 128 * 1024 in the code
          MaxWritten    \* bound on the bytes written in a run

ASSUME WriterAssumption ==
  /\ Strings \subseteq Seq(Byte)
  /\ BUFFER_SIZE \in Nat \ {0}
  /\ MaxWritten \in Nat

VARIABLES file,     \* the bytes that fwrite has put in output_file
          buffer,   \* the first buffer_pos bytes of the buffer
          written,  \* history: every byte handed to the writer
          state    \* "open", "closed" or "thrown"

writerVars == <<file, buffer, written, state>>

buffer_pos == Len(buffer)

WriterInit ==
  /\ file = <<>>
  /\ buffer = <<>>
  /\ written = <<>>
  /\ state = "open"

-----------------------------------------------------------------------------
\* The possible results of fwrite(data) on a file that holds out: all of the
\* data, or on an I/O error only some of it.
fwrite(out, data) ==
  {[file |-> out \o data, ok |-> TRUE]}
    \cup {[file |-> out \o SubSeq(data, 1, n), ok |-> FALSE] : n \in 0 .. Len(data) - 1}

\* A batched_writer_flush of the buffer; with an empty buffer it does nothing.
FlushResults == fwrite(file, buffer)

NoFlush == {[file |-> file, ok |-> TRUE]}

\* A call whose last fwrite gave r leaves the buffer as given, or throws.
Finish(r, buf) ==
  /\ file' = r.file
  /\ buffer' = IF r.ok THEN buf ELSE buffer
  /\ state' = IF r.ok THEN state ELSE "thrown"

\* Mutant: the boundary of batched_writer_ensure_space is off by one.
FlushesFirstLate(len) == buffer_pos + len > BUFFER_SIZE

\* batched_writer_ensure_space: does a string of this length force a flush?
FlushesFirst(len) == buffer_pos + len >= BUFFER_SIZE

\* Mutant: the buffer is not emptied after it was flushed.
AppendedUnreset(str) == buffer \o str

\* Mutant: the NUL that ends the string is copied with it.
AppendedWithNul(str) ==
  (IF FlushesFirst(Len(str)) THEN str ELSE buffer \o str) \o <<0>>

\* The buffer after the memcpy of a string that fits, flushed first if needed.
Appended(str) == IF FlushesFirst(Len(str)) THEN str ELSE buffer \o str

WriteSmall(str) ==
  /\ Len(str) < BUFFER_SIZE
  /\ \E r \in IF FlushesFirst(Len(str)) THEN FlushResults ELSE NoFlush :
       Finish(r, Appended(str))

\* Mutant: a large string goes straight to the file, ahead of the buffer.
WriteLargeUnflushed(str) ==
  /\ Len(str) >= BUFFER_SIZE
  /\ \E r \in fwrite(file, str) : Finish(r, buffer)

\* A string that cannot fit in the buffer is written behind it, directly.
WriteLarge(str) ==
  /\ Len(str) >= BUFFER_SIZE
  /\ \E flushed \in FlushResults :
       IF flushed.ok
         THEN \E r \in fwrite(flushed.file, str) : Finish(r, <<>>)
         ELSE Finish(flushed, buffer)

Record(str) ==
  /\ state = "open"
  /\ Len(written) + Len(str) <= MaxWritten
  /\ written' = written \o str

\* batched_writer_write
Write(str) ==
  /\ Record(str)
  /\ WriteSmall(str) \/ WriteLarge(str)

\* batched_writer_vprintf, of a format whose expansion is str
Printf(str) ==
  /\ Record(str)
  /\ \/ /\ Len(str) < BUFFER_SIZE - buffer_pos
        /\ Finish([file |-> file, ok |-> TRUE], buffer \o str)
     \/ /\ Len(str) >= BUFFER_SIZE - buffer_pos
        /\ \E r \in FlushResults :
             Finish([file |-> r.file, ok |-> r.ok /\ Len(str) < BUFFER_SIZE], str)

\* batched_writer_flush
Flush ==
  /\ state = "open"
  /\ \E r \in FlushResults : Finish(r, <<>>)
  /\ UNCHANGED written

\* Mutant: closing forgets the bytes still in the buffer.
CloseUnflushed ==
  /\ state = "open"
  /\ state' = "closed"
  /\ UNCHANGED <<file, buffer, written>>

\* batched_writer_close; the emitter writes nothing afterwards.
Close ==
  /\ state = "open"
  /\ \E r \in FlushResults :
       /\ file' = r.file
       /\ buffer' = IF r.ok THEN <<>> ELSE buffer
       /\ state' = IF r.ok THEN "closed" ELSE "thrown"
  /\ UNCHANGED written

WriterNext ==
  \/ \E str \in Strings : Write(str) \/ Printf(str)
  \/ Flush
  \/ Close

WriterSpec == WriterInit /\ [][WriterNext]_writerVars

-----------------------------------------------------------------------------
\* Types of the writer's state (struct BatchedWriter, batched_writer.h).
WriterTypeOK ==
  /\ file \in Seq(Byte)
  /\ buffer \in Seq(Byte)
  /\ written \in Seq(Byte)
  /\ state \in {"open", "closed", "thrown"}

\* memcpy and vsnprintf stay inside the buffer and one byte is always left,
\* so vsnprintf is never called with no room (batched_writer.c lines 62-64
\* and 77-94).
BufferInBounds == buffer_pos < BUFFER_SIZE

\* While the process lives, file and buffer together are exactly the output
\* so far: no flush, large write or retried format reorders, drops or repeats
\* a byte (lines 50-64 and 97-116).
NothingLost == state # "thrown" => file \o buffer = written

\* The writer implements the append-only log the emitter relies on.
Log == INSTANCE AppendLog
ImplementsLog == Log!Spec
=============================================================================
