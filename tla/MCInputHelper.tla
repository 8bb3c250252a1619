--------------------------- MODULE MCInputHelper ---------------------------
(***************************************************************************)
(* Numbers on both sides of every range, words just up to the field width  *)
(* and beyond it, and up to two words for three INPUTs.                    *)
(***************************************************************************)
EXTENDS InputHelper

Number(n, length) == [digits |-> TRUE, number |-> n, first |-> 5, length |-> length]
Other(first) == [digits |-> FALSE, number |-> 0, first |-> first, length |-> 1]

Numbers == {-33, -9, -8, -5, 0, 5, 7, 8, 32}
Others == {Other(1), Other(5)}
Whole == {Number(n, length) : n \in Numbers, length \in {1, Width}} \cup Others
Rests == {Number(0, 1), Number(-5, 1), Other(5)}

Short == {<<piece>> : piece \in Whole}
Long == {<<Number(n, Width), rest>> : n \in {0, 5, 32}, rest \in Rests}
Last == {<<rest>> : rest \in Rests} \cup {<<Number(0, Width), Other(5)>>}

MCPieces == Whole
MCInputs == {<<>>} \cup {<<w>> : w \in Short \cup Long}
            \cup {<<w, v>> : w \in Short \cup Long, v \in Last}
=============================================================================
