------------------------------- MODULE ArgParse -------------------------------
(***************************************************************************)
(* The command line (common/arg_parse.c): flags with and without values,   *)
(* short ones alone or compound, positional arguments.  One step takes a   *)
(* word of argv, or a letter of a word of short flags.                     *)
(*                                                                         *)
(* A word is split as the code looks at it: "short" is a dash and letters, *)
(* "long" two dashes and a name, "end" two dashes alone, "dash" a dash     *)
(* alone, and "plain" any word that does not begin with a dash.            *)
(***************************************************************************)
EXTENDS Integers, Sequences, FiniteSets

CONSTANTS CommandLines,  \* what argv may be after the name of the program
          ARG_COUNT,     \* how many positional arguments there are names for
          REQUIRED_ARGS  \* the ones that must be given, by their places

IsSequence(s) == s \in Seq({s[i] : i \in DOMAIN s})

\* A word of short flags has a letter at least: a dash alone is a word of its own.
ASSUME ArgAssumption ==
  /\ ARG_COUNT \in Nat
  /\ REQUIRED_ARGS \subseteq 1 .. ARG_COUNT
  /\ \A words \in CommandLines :
       /\ IsSequence(words)
       /\ \A k \in 1 .. Len(words) :
            /\ words[k].kind \in {"short", "long", "end", "dash", "plain"}
            /\ words[k].kind = "short" => IsSequence(words[k].letters) /\ words[k].letters # <<>>

VARIABLES spec,        \* the flags the parser knows: records of type FlagDef
          argv,        \* the words
          argi,        \* the next word
          letter,      \* the next letter of a word of short flags, or 0
          is_present,  \* the flags given, by their long names
          value,       \* the values given, by the long names of the flags
          positional,  \* the arguments there are names for
          remaining,   \* remaining_args
          parsing      \* "scanning", "ok", or the error

argVars == <<spec, argv, argi, letter, is_present, value, positional, remaining, parsing>>

\* argparse_create, and argparse_parse up to its loop
ParseInit(flags) ==
  /\ spec = flags
  /\ argv \in CommandLines
  /\ argi = 1
  /\ letter = 0
  /\ is_present = {}
  /\ value = <<>>
  /\ positional = <<>>
  /\ remaining = <<>>
  /\ parsing = "scanning"

-----------------------------------------------------------------------------
Known == {f.long_name : f \in spec}
FlagOf(name) == CHOOSE f \in spec : f.long_name = name
find_flag_by_char(c) == {f \in spec : f.short_name = c}

\* Mutant: any next word is taken for the value.
ValueFollowsAny == argi + 1 <= Len(argv)

\* There is a next word, which does not begin with a dash.
ValueFollows == argi + 1 <= Len(argv) /\ argv[argi + 1].kind = "plain"

WithValue(name, text) == [f \in DOMAIN value \cup {name} |-> IF f = name THEN text ELSE value[f]]

AtWord(kind) == parsing = "scanning" /\ argi <= Len(argv) /\ argv[argi].kind = kind

\* A flag that is given, with its value if it has one.
TakeFlag(flag) ==
  /\ is_present' = is_present \cup {flag.long_name}
  /\ IF flag.requires_value
       THEN IF ValueFollows
              THEN /\ value' = WithValue(flag.long_name, argv[argi + 1])
                   /\ argi' = argi + 2
                   /\ UNCHANGED parsing
              ELSE parsing' = "requires a value" /\ UNCHANGED <<argi, value>>
       ELSE argi' = argi + 1 /\ UNCHANGED <<value, parsing>>

LongFlag ==
  /\ AtWord("long")
  /\ \/ /\ argv[argi].name \notin Known
        /\ parsing' = "unknown flag"
        /\ UNCHANGED <<argi, is_present, value>>
     \/ /\ argv[argi].name \in Known
        /\ TakeFlag(FlagOf(argv[argi].name))
  /\ UNCHANGED <<spec, argv, letter, positional, remaining>>

ShortFlags ==
  /\ AtWord("short")
  /\ letter = 0
  /\ letter' = 1
  /\ UNCHANGED <<spec, argv, argi, is_present, value, positional, remaining, parsing>>

\* Mutant: only the last letter of a word is seen.
LastLetterOnly == letter > 0

IsLastLetter == letter = Len(argv[argi].letters)

ShortFlag ==
  /\ AtWord("short")
  /\ letter # 0
  /\ LET found == find_flag_by_char(argv[argi].letters[letter]) IN
       \/ /\ found = {}
          /\ parsing' = "unknown flag"
          /\ UNCHANGED <<argi, letter, is_present, value>>
       \/ /\ ~ IsLastLetter
          /\ \E flag \in found :
               /\ is_present' = is_present \cup {flag.long_name}
               /\ parsing' = IF flag.requires_value THEN "must be last" ELSE parsing
          /\ letter' = letter + 1
          /\ UNCHANGED <<argi, value>>
       \/ /\ IsLastLetter
          /\ \E flag \in found : TakeFlag(flag)
          /\ letter' = 0
  /\ UNCHANGED <<spec, argv, positional, remaining>>

\* Mutant: there is room for any number of positional arguments.
KeepAll(words) == positional' = positional \o words /\ remaining' = remaining

\* Words that are no flags, in the order they are given.
Keep(words) ==
  LET all == positional \o remaining \o words IN
    /\ positional' = SubSeq(all, 1, IF Len(all) < ARG_COUNT THEN Len(all) ELSE ARG_COUNT)
    /\ remaining' = SubSeq(all, ARG_COUNT + 1, Len(all))

\* realloc refuses the memory for a word that there is no name for.  What it
\* leaves in remaining_args is the null pointer.
NoRoomFor(count, outcome) ==
  /\ Len(positional) + count > ARG_COUNT
  /\ parsing' = outcome
  /\ remaining' = <<>>
  /\ UNCHANGED <<argi, positional>>

Positional ==
  /\ AtWord("plain") \/ AtWord("dash")
  /\ \/ /\ Keep(<<argv[argi]>>)
        /\ argi' = argi + 1
        /\ UNCHANGED parsing
     \/ NoRoomFor(1, "out of memory")
  /\ UNCHANGED <<spec, argv, letter, is_present, value>>

\* The inner loop takes all the words that are left.  It does not check realloc,
\* and writes through the null pointer.
EndOfOptions ==
  /\ AtWord("end")
  /\ \/ /\ Keep(SubSeq(argv, argi + 1, Len(argv)))
        /\ argi' = Len(argv) + 1
        /\ UNCHANGED parsing
     \/ NoRoomFor(Len(argv) - argi, "crash")
  /\ UNCHANGED <<spec, argv, letter, is_present, value>>

\* The checks after the loop.
FinishParsing ==
  /\ parsing = "scanning"
  /\ argi > Len(argv)
  /\ parsing' = IF \E f \in spec : f.is_required /\ f.long_name \notin is_present
                THEN "required flag missing"
                ELSE IF \E i \in REQUIRED_ARGS : i > Len(positional)
                THEN "required argument missing" ELSE "ok"
  /\ UNCHANGED <<spec, argv, argi, letter, is_present, value, positional, remaining>>

ParseNext ==
  LongFlag \/ ShortFlags \/ ShortFlag \/ Positional \/ EndOfOptions \/ FinishParsing

-----------------------------------------------------------------------------
(***************************************************************************)
(* Properties.                                                             *)
(***************************************************************************)

\* The words before the one that ends the options.
Options == {k \in 1 .. Len(argv) : \A j \in 1 .. k : argv[j].kind # "end"}
FlagWords == {k \in Options : argv[k].kind \in {"short", "long"}}

\* What a word of flags says: long names, "?" for a flag that is not known.
NameOf(found) == IF found = {} THEN "?" ELSE (CHOOSE f \in found : TRUE).long_name
Flags(k) ==
  IF argv[k].kind = "long" THEN <<NameOf({f \in spec : f.long_name = argv[k].name})>>
  ELSE [l \in 1 .. Len(argv[k].letters) |-> NameOf(find_flag_by_char(argv[k].letters[l]))]
Given == UNION {{Flags(k)[l] : l \in 1 .. Len(Flags(k))} : k \in FlagWords}
Final(k) == Flags(k)[Len(Flags(k))]
WantsValue(name) == name \in Known /\ FlagOf(name).requires_value

ValueWords == {k + 1 : k \in {k \in FlagWords : WantsValue(Final(k))}}
WordsKept ==
  {k \in 1 .. Len(argv) : /\ k \notin FlagWords \cup ValueWords
                          /\ argv[k].kind = "end" => k - 1 \notin Options \cup {0}}

\* s is what stands at the places, in the order of the command line.
Lists(s, places) ==
  \E at \in [1 .. Len(s) -> places] :
    /\ {at[i] : i \in 1 .. Len(s)} = places
    /\ \A i, j \in 1 .. Len(s) : i < j => at[i] < at[j]
    /\ \A i \in 1 .. Len(s) : s[i] = argv[at[i]]

WellFormed ==
  /\ "?" \notin Given
  /\ \A k \in FlagWords :
       /\ \A l \in 1 .. Len(Flags(k)) - 1 : ~ WantsValue(Flags(k)[l])
       /\ WantsValue(Final(k)) => k < Len(argv) /\ argv[k + 1].kind = "plain"

OutOfMemory == {"out of memory", "crash"}

\* A command line is accepted exactly if it is well-formed and there is memory for
\* its words, and then every word of it has the place that a reading of the whole
\* line gives it: no word is skipped, taken twice, or taken for the value of the
\* wrong flag (arg_parse.c:186-336).
ParsedAsMeant ==
  /\ parsing = "ok" => WellFormed
  /\ parsing \notin {"scanning", "ok"} \cup OutOfMemory => ~ WellFormed
  /\ parsing = "ok" =>
       /\ is_present = Given
       /\ DOMAIN value = {name \in Given : WantsValue(name)}
       /\ \A name \in DOMAIN value :
            \E k \in FlagWords :
              /\ Final(k) = name /\ value[name] = argv[k + 1]
              /\ \A later \in FlagWords : Final(later) = name => later <= k
       /\ Lists(positional \o remaining, WordsKept)
       /\ Len(positional) < ARG_COUNT => remaining = <<>>
=============================================================================
