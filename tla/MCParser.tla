------------------------------- MODULE MCParser -------------------------------
(***************************************************************************)
(* Inputs for model checking the parser: every short sequence of tokens    *)
(* that the parser tells apart, and sequences of fragments that reach      *)
(* nested blocks and what follows a mistake in one.                        *)
(***************************************************************************)
EXTENDS Grammar, SequencesExt

CONSTANTS MaxTokens, MaxFragments

\* One token of each set that the parser treats alike.
Alphabet ==
  {"PRINT", "IF", "WHILE", "LET", "INPUT", "THEN", "REPEAT", "ENDIF", "ENDWHILE",
   "ELSE", "IDENT", "NUMBER", "STRING", "EQ", "MINUS", "MULT", "GTE", "UNKNOWN"}

ShortInputs == UNION {[1 .. n -> Alphabet] : n \in 0 .. MaxTokens}

\* The heads and ends of blocks, whole ones and a broken one, and statements
\* to go into them.
BlockFragments ==
  {<<"IF", "NUMBER", "EQEQ", "IDENT", "THEN">>, <<"IF", "THEN">>, <<"ENDIF">>,
   <<"WHILE", "IDENT", "LT", "NUMBER", "REPEAT">>, <<"ENDWHILE">>,
   <<"LABEL", "IDENT">>, <<"GOTO", "NUMBER">>}

\* Longer statements, whole and broken.
LongFragments ==
  {<<"PRINT", "IDENT", "PLUS", "MINUS", "NUMBER", "DIV", "IDENT">>,
   <<"LET", "IDENT", "EQ", "NUMBER", "MULT">>, <<"INPUT", "IDENT", "EQ">>,
   <<"PRINT", "STRING", "STRING">>, <<"ELSE">>}

Fragmented(fragments, n) ==
  {FlattenSeq(f) : f \in UNION {[1 .. m -> fragments] : m \in 0 .. n}}

FragmentInputs ==
  Fragmented(BlockFragments, MaxFragments)
    \cup Fragmented(BlockFragments \cup LongFragments, MaxFragments - 2)

MCInputs == ShortInputs \cup FragmentInputs
=============================================================================
