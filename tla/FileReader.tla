------------------------------ MODULE FileReader ------------------------------
(***************************************************************************)
(* Reading a source file line by line through a buffer of fixed size       *)
(* (common/file_reader.c).  Files are text: they hold no NUL.              *)
(***************************************************************************)
EXTENDS StringUtil

CONSTANTS Files,           \* the contents a source file may have
          MAX_LINE_BUFFER  \* 1000 in the code

ASSUME FileReaderAssumption ==
  /\ Files \subseteq Seq(Char \ {NUL})
  /\ MAX_LINE_BUFFER \in Nat \ (0 .. 1)

\* (size_t)-1 in the code, where the first line is 1 by a case of its own.
NO_LINE_NUMBER == 0

VARIABLES file,         \* the content of the file
          offset,       \* how much of it fgets has read
          eof,          \* what feof answers
          line_buffer,  \* the line read last, without its newline
          line,         \* cursor_pos.line
          error,        \* the FR_ERROR
          begin         \* history: where in the file the line in the buffer begins

readerVars == <<file, offset, eof, line_buffer, line, error, begin>>

ReaderInit ==
  /\ file \in Files
  /\ offset = 0
  /\ eof = FALSE
  /\ line_buffer = <<>>
  /\ line = NO_LINE_NUMBER
  /\ error = "FR_ERR_NONE"
  /\ begin = 0

-----------------------------------------------------------------------------
\* Mutant: the NUL that ends the line is forgotten.
fgets_size_nul == MAX_LINE_BUFFER + 1

fgets_size == MAX_LINE_BUFFER

\* fgets reads up to a newline, the end of the file or fgets_size - 1
\* characters, whichever comes first; feof is set when it met the end.
fgets_end ==
  CHOOSE e \in offset .. Len(file) :
    /\ \A i \in offset + 1 .. e - 1 : file[i] # "\n"
    /\ e - offset <= fgets_size - 1
    /\ \/ e = Len(file)
       \/ e - offset = fgets_size - 1
       \/ e > offset /\ file[e] = "\n"

fgets_result == SubSeq(file, offset + 1, fgets_end)
EndsInNewline == fgets_result # <<>> /\ file[fgets_end] = "\n"
feof_after == ~ EndsInNewline /\ Len(fgets_result) < fgets_size - 1

\* Mutant: a full buffer is taken for a whole line.
NeverTruncated == FALSE

\* The buffer is full and the line goes on.
Truncated == /\ Len(fgets_result) = MAX_LINE_BUFFER - 1
             /\ ~ EndsInNewline
             /\ ~ feof_after

\* Mutant: an empty line is not counted.
ReadLineCountsText ==
  /\ ~ eof
  /\ ~ Truncated
  /\ offset' = fgets_end
  /\ eof' = feof_after
  /\ line_buffer' = strip_trailing_newlines(fgets_result)
  /\ line' = IF line_buffer' = <<>> THEN line ELSE line + 1
  /\ begin' = offset
  /\ UNCHANGED <<file, error>>

\* Mutant: feof is asked after fgets, so a last line without a newline is lost.
ReadLineLosesLast ==
  /\ ~ eof
  /\ ~ Truncated
  /\ offset' = fgets_end
  /\ eof' = feof_after
  /\ line_buffer' = IF feof_after THEN <<>> ELSE strip_trailing_newlines(fgets_result)
  /\ line' = line + 1
  /\ begin' = offset
  /\ UNCHANGED <<file, error>>

\* filereader_read_next_line returns the line, which is empty when fgets found
\* nothing but the end of the file.
ReadLine ==
  /\ ~ eof
  /\ ~ Truncated
  /\ offset' = fgets_end
  /\ eof' = feof_after
  /\ line_buffer' = strip_trailing_newlines(fgets_result)
  /\ line' = line + 1
  /\ begin' = offset
  /\ UNCHANGED <<file, error>>

\* It returns NULL at the end of the file.
EndOfFile ==
  /\ eof
  /\ line_buffer' = <<>>
  /\ line' = NO_LINE_NUMBER
  /\ UNCHANGED <<file, offset, eof, error, begin>>

\* It ends the process: a line is too long, or the file cannot be read.
LineTooBig ==
  /\ ~ eof
  /\ Truncated
  /\ offset' = fgets_end
  /\ eof' = feof_after
  /\ line_buffer' = fgets_result
  /\ error' = "FR_ERR_LINE_TOO_BIG"
  /\ begin' = offset
  /\ UNCHANGED <<file, line>>

CantRead ==
  /\ ~ eof
  /\ error' = "FR_ERR_CANT_READ"
  /\ UNCHANGED <<file, offset, eof, line_buffer, line, begin>>
=============================================================================
