--------------------------- MODULE MCBatchedWriter ---------------------------
(***************************************************************************)
(* TLC instance of BatchedWriter.  The strings are taken from a buffer's   *)
(* point of view: empty, shorter than, exactly as long as, and longer than *)
(* the buffer.  Their bytes differ, so that any reordering shows.          *)
(***************************************************************************)
EXTENDS BatchedWriter

MCByte == 1 .. 5
MCStrings == {<<>>, <<1>>, <<2, 3>>, <<3, 1, 2>>, <<4, 5, 1, 2>>, <<1, 2, 3, 4, 5>>}
=============================================================================
