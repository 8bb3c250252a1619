------------------------------ MODULE AppendLog ------------------------------
(***************************************************************************)
(* What the emitter is promised by its output writer: the bytes it hands   *)
(* over reach the output file in order, none lost, none repeated.  The     *)
(* file may lag behind what was written until the writer is closed, and if *)
(* the writer gives up the file is left holding a prefix of the output.    *)
(***************************************************************************)
EXTENDS Sequences, SequencesExt

CONSTANT Strings    \* the strings a client may write

VARIABLES written,  \* every byte handed to the writer so far
          file,     \* the bytes that have reached the output file
          state    \* "open", "closed", or "thrown" (the process aborted)

logVars == <<written, file, state>>

Init ==
  /\ written = <<>>
  /\ file = <<>>
  /\ state = "open"

\* The file only grows, and never holds anything but a prefix of the output.
FileAdvances ==
  /\ IsPrefix(file, file')
  /\ IsPrefix(file', written')

Write(str) ==
  /\ state = "open"
  /\ written' = written \o str
  /\ FileAdvances
  /\ state' \in {"open", "thrown"}

Flush ==
  /\ state = "open"
  /\ UNCHANGED written
  /\ FileAdvances
  /\ state' = "open" => file' = written
  /\ state' \in {"open", "thrown"}

Close ==
  /\ state = "open"
  /\ UNCHANGED written
  /\ FileAdvances
  /\ state' = "closed" => file' = written
  /\ state' \in {"closed", "thrown"}

Next ==
  \/ \E str \in Strings : Write(str)
  \/ Flush
  \/ Close

Spec == Init /\ [][Next]_logVars
=============================================================================
