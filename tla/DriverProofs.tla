----------------------------- MODULE DriverProofs -----------------------------
(***************************************************************************)
(* Proofs about the command line, for every argv and every number of       *)
(* names for positional arguments, and about the driver, for every command *)
(* line and every build.                                                   *)
(*                                                                         *)
(* ParsedAsMeant reads the whole line at once, the code a word at a time.  *)
(* The invariant says of the words before the next one what ParsedAsMeant  *)
(* says of all; it carries over to the words the scan has not seen because *)
(* a value never begins with a dash, so that no word of flags is jumped.   *)
(*                                                                         *)
(* The properties of the driver are proved from one invariant, which says  *)
(* of every stage what must be known there: the platform and the errors    *)
(* that led to it, what is held at least and at most, and what has been    *)
(* said.  Beside it stands the invariant of the command line, which one    *)
(* step only works on.                                                     *)
(***************************************************************************)
EXTENDS Driver, SequenceTheorems, TLAPS

\* What the proofs need of the flags: names that tell them apart, none of them
\* the name that stands for an unknown flag, and none required.
FlagsApart(flags) ==
  /\ \A f \in flags : f.long_name # "?" /\ f.is_required = FALSE
  /\ \A f, g \in flags : f.long_name = g.long_name \/ f.short_name = g.short_name => f = g

Arguments == {argv[k] : k \in 1 .. Len(argv)}

\* What is there before and during the scan, and after it whatever came of it.
ArgTypes ==
  /\ FlagsApart(spec)
  /\ argv \in CommandLines
  /\ argi \in 1 .. Len(argv) + 1
  /\ is_present \subseteq Known
  /\ DOMAIN value \subseteq is_present
  /\ positional \in Seq(Arguments) /\ remaining \in Seq(Arguments)
  /\ Len(positional) <= ARG_COUNT
  /\ Len(positional) < ARG_COUNT => remaining = <<>>

\* A letter that is not the last of its word.
Early(name) == name # "?" /\ ~ WantsValue(name)

\* A word of flags as it should be.
Right(k) ==
  /\ \A l \in 1 .. Len(Flags(k)) : Flags(k)[l] # "?"
  /\ \A l \in 1 .. Len(Flags(k)) - 1 : ~ WantsValue(Flags(k)[l])
  /\ WantsValue(Final(k)) => k < Len(argv) /\ argv[k + 1].kind = "plain"

\* Where the scan is.
ScanAt ==
  /\ argi <= Len(argv) => \A j \in 1 .. argi - 1 : argv[j].kind # "end"
  /\ letter \in Nat
  /\ letter # 0 => argi <= Len(argv) /\ argv[argi].kind = "short" /\ letter <= Len(argv[argi].letters)

Read == {k \in FlagWords : k < argi}
Letters == {l \in Nat : 0 < l /\ l < letter}

\* The words that are read, and the letters of the next one.
ReadRight ==
  /\ \A k \in Read : Right(k) /\ (WantsValue(Final(k)) => k + 1 < argi)
  /\ \A l \in Letters : Early(Flags(argi)[l])

\* What is known to be given.
ReadGiven == \A name : name \in is_present <=>
  \/ \E k \in Read : \E l \in 1 .. Len(Flags(k)) : name = Flags(k)[l]
  \/ \E l \in Letters : name = Flags(argi)[l]

\* The values so far, each from the last word that gives one to its flag.
ReadValues ==
  /\ \A name : name \in DOMAIN value <=> \E k \in Read : Final(k) = name /\ WantsValue(name)
  /\ \A name \in DOMAIN value : \E k \in Read :
       /\ Final(k) = name /\ value[name] = argv[k + 1]
       /\ \A later \in Read : Final(later) = name => later <= k

\* The words kept so far.
ReadKept == Lists(positional \o remaining, {k \in WordsKept : k < argi})

ScanInv == ScanAt /\ ReadRight /\ ReadGiven /\ ReadValues /\ ReadKept

\* The invariant of the parser.
ParseInv ==
  /\ ArgTypes
  /\ parsing = "scanning" => ScanInv
  /\ ParsedAsMeant

-----------------------------------------------------------------------------
\* The words of a command line, and the letters of its words of short flags.
LEMMA Words ==
  ASSUME argv \in CommandLines
  PROVE  /\ argv \in Seq(Arguments) /\ Len(argv) \in Nat
         /\ \A k \in 1 .. Len(argv) :
              /\ argv[k].kind \in {"short", "long", "end", "dash", "plain"}
              /\ argv[k].kind = "short" => Len(argv[k].letters) \in Nat \ {0}
<1>1. IsSequence(argv)
  BY ArgAssumption
<1>2. argv \in Seq(Arguments) /\ Len(argv) \in Nat
  BY <1>1 DEF IsSequence, Arguments
<1>3. ASSUME NEW k \in 1 .. Len(argv), argv[k].kind = "short"
      PROVE  Len(argv[k].letters) \in Nat \ {0}
  <2>1. IsSequence(argv[k].letters) /\ argv[k].letters # <<>>
    BY <1>3, ArgAssumption
  <2> DEFINE s == argv[k].letters
  <2>2. s \in Seq({s[i] : i \in DOMAIN s}) /\ s # <<>>
    BY <2>1 DEF IsSequence
  <2> HIDE DEF s
  <2>3. Len(s) \in Nat \ {0}
    BY <2>2
  <2> QED BY <2>3 DEF s
<1> QED BY <1>2, <1>3, ArgAssumption

\* A flag is found by its names, and no other is.
LEMMA Found ==
  ASSUME FlagsApart(spec), NEW f \in spec
  PROVE  /\ f.long_name \in Known /\ f.long_name # "?"
         /\ FlagOf(f.long_name) = f
         /\ WantsValue(f.long_name) <=> f.requires_value
         /\ NameOf({g \in spec : g.long_name = f.long_name}) = f.long_name
         /\ \A c : f \in find_flag_by_char(c) => NameOf(find_flag_by_char(c)) = f.long_name
<1>1. f.long_name \in Known /\ f.long_name # "?"
  BY DEF Known, FlagsApart
<1>2. FlagOf(f.long_name) = f
  <2>1. \E g \in spec : g.long_name = f.long_name
    OBVIOUS
  <2>2. FlagOf(f.long_name) \in spec /\ FlagOf(f.long_name).long_name = f.long_name
    BY <2>1, Zenon DEF FlagOf
  <2> QED BY <2>2 DEF FlagsApart
<1>3. \A found : f \in found /\ (\A g \in found : g = f) => NameOf(found) = f.long_name
  <2> TAKE found
  <2> HAVE f \in found /\ (\A g \in found : g = f)
  <2>1. (CHOOSE g \in found : TRUE) = f
    BY Zenon
  <2> QED BY <2>1 DEF NameOf
<1>4. NameOf({g \in spec : g.long_name = f.long_name}) = f.long_name
  BY <1>3 DEF FlagsApart
<1>5. ASSUME NEW c, f \in find_flag_by_char(c) PROVE NameOf(find_flag_by_char(c)) = f.long_name
  BY <1>3, <1>5 DEF FlagsApart, find_flag_by_char
<1> QED BY <1>1, <1>2, <1>4, <1>5 DEF WantsValue

\* What a word of flags says.
LEMMA LongSays ==
  ASSUME NEW k, argv[k].kind = "long"
  PROVE  /\ Len(Flags(k)) = 1
         /\ Flags(k)[1] = NameOf({f \in spec : f.long_name = argv[k].name})
         /\ Final(k) = Flags(k)[1]
BY DEF Flags, Final

LEMMA ShortSays ==
  ASSUME NEW k, argv[k].kind = "short", Len(argv[k].letters) \in Nat
  PROVE  /\ Len(Flags(k)) = Len(argv[k].letters)
         /\ \A l \in 1 .. Len(Flags(k)) : Flags(k)[l] = NameOf(find_flag_by_char(argv[k].letters[l]))
         /\ Final(k) = Flags(k)[Len(Flags(k))]
<1> DEFINE n == Len(argv[k].letters)
           Name(l) == NameOf(find_flag_by_char(argv[k].letters[l]))
           says == [l \in 1 .. n |-> Name(l)]
<1>1. Flags(k) = says
  BY DEF Flags
<1> HIDE DEF Name
<1>2. n \in Nat /\ says \in [1 .. n -> {Name(l) : l \in 1 .. n}]
  OBVIOUS
<1>3. Len(says) = n
  BY <1>2
<1>4. \A l \in 1 .. n : says[l] = Name(l)
  OBVIOUS
<1> QED BY <1>1, <1>3, <1>4 DEF Name, Final

\* What is read from the flags and the words alone stays while they do.
LEMMA Rigid ==
  ASSUME UNCHANGED <<spec, argv>>
  PROVE  /\ Known' = Known /\ Options' = Options /\ FlagWords' = FlagWords
         /\ WordsKept' = WordsKept
         /\ \A k : Flags(k)' = Flags(k) /\ Final(k)' = Final(k) /\ Right(k)' = Right(k)
         /\ \A name : WantsValue(name)' = WantsValue(name) /\ Early(name)' = Early(name)
         /\ \A s, places : Lists(s, places)' = Lists(s, places)
         /\ Given' = Given /\ WellFormed' = WellFormed
<1>1. Known' = Known /\ Options' = Options /\ FlagWords' = FlagWords
  BY DEF Known, Options, FlagWords
<1>2. \A k : Flags(k)' = Flags(k)
  BY DEF Flags, find_flag_by_char
<1>3. \A k : Final(k)' = Final(k)
  BY <1>2 DEF Final
<1>4. \A name : WantsValue(name)' = WantsValue(name)
  BY <1>1 DEF WantsValue, FlagOf
<1>5. \A k : Right(k)' = Right(k)
  BY <1>2, <1>3, <1>4 DEF Right
<1>6. \A name : Early(name)' = Early(name)
  BY <1>4 DEF Early
<1>7. WordsKept' = WordsKept
  BY <1>1, <1>3, <1>4 DEF WordsKept, ValueWords
<1>8. \A s, places : Lists(s, places)' = Lists(s, places)
  BY DEF Lists
<1>9. Given' = Given
  BY <1>1, <1>2 DEF Given
<1>10. WellFormed' = WellFormed
  BY <1>1, <1>2, <1>3, <1>4, <1>9 DEF WellFormed
<1> QED BY <1>1, <1>2, <1>3, <1>4, <1>5, <1>6, <1>7, <1>8, <1>9, <1>10

\* A place for each word that is kept, in order.
LEMMA Keeping ==
  ASSUME NEW S, positional \in Seq(S), remaining \in Seq(S), NEW words \in Seq(S), Keep(words)
  PROVE  /\ positional' \in Seq(S) /\ remaining' \in Seq(S)
         /\ positional' \o remaining' = (positional \o remaining) \o words
         /\ Len(positional') <= ARG_COUNT
         /\ Len(positional') < ARG_COUNT => remaining' = <<>>
<1> DEFINE all == positional \o remaining \o words
           m == IF Len(all) < ARG_COUNT THEN Len(all) ELSE ARG_COUNT
<1>1. positional \o remaining \in Seq(S)
  BY ConcatProperties
<1>2. all \in Seq(S)
  BY <1>1, ConcatProperties
<1>3. positional' = SubSeq(all, 1, m) /\ remaining' = SubSeq(all, ARG_COUNT + 1, Len(all))
  BY DEF Keep
<1> HIDE DEF all
<1>4. Len(all) \in Nat /\ m \in 0 .. Len(all) /\ m <= ARG_COUNT /\ ARG_COUNT \in Nat
  BY <1>2, ArgAssumption
<1>5. \A i \in 1 .. Len(all) : all[i] \in S
  BY <1>2, ElementOfSeq
<1>6. positional' \in Seq(S) /\ Len(positional') = m
  <2>1. \A i \in 1 .. m : all[i] \in S
    BY <1>4, <1>5
  <2>2. /\ SubSeq(all, 1, m) \in Seq(S)
        /\ Len(SubSeq(all, 1, m)) = IF 1 <= m THEN m - 1 + 1 ELSE 0
    BY <2>1, <1>4, SubSeqProperties
  <2> QED BY <2>2, <1>3, <1>4
<1>7. remaining' \in Seq(S)
  <2>1. \A i \in ARG_COUNT + 1 .. Len(all) : all[i] \in S
    BY <1>4, <1>5
  <2>2. SubSeq(all, ARG_COUNT + 1, Len(all)) \in Seq(S)
    BY <2>1, <1>4, SubSeqProperties
  <2> QED BY <2>2, <1>3
<1>8. CASE Len(all) <= ARG_COUNT
  <2>1. m = Len(all) /\ ARG_COUNT + 1 \in Int /\ Len(all) \in Int /\ Len(all) < ARG_COUNT + 1
    BY <1>4, <1>8
  <2>2. SubSeq(all, ARG_COUNT + 1, Len(all)) = <<>>
    BY <2>1, SubSeqEmpty
  <2>3. positional' = all /\ remaining' = <<>>
    BY <1>2, <1>3, <2>1, <2>2, SubSeqFull
  <2>4. all \o <<>> = all
    BY <1>2, ConcatEmptySeq
  <2> QED BY <1>4, <1>6, <1>7, <2>3, <2>4 DEF all
<1>9. CASE ~ (Len(all) <= ARG_COUNT)
  <2>1. m = ARG_COUNT /\ m \in 1 - 1 .. Len(all) /\ 1 \in 1 .. Len(all) + 1 /\ Len(all) \in m .. Len(all)
    BY <1>4, <1>9
  <2>2. SubSeq(all, 1, m) \o SubSeq(all, m + 1, Len(all)) = SubSeq(all, 1, Len(all))
    BY <1>2, <2>1, ConcatAdjacentSubSeq
  <2>3. positional' \o remaining' = all
    BY <1>2, <1>3, <2>1, <2>2, SubSeqFull
  <2>4. ~ (Len(positional') < ARG_COUNT)
    BY <1>4, <1>6, <2>1
  <2> QED BY <1>4, <1>6, <1>7, <2>3, <2>4 DEF all
<1> QED BY <1>8, <1>9

\* A list is longer by the words that stand next.
LEMMA Listing ==
  ASSUME argv \in CommandLines, NEW s \in Seq(Arguments), NEW places, Lists(s, places),
         NEW m \in 1 .. Len(argv) + 1, NEW n \in m - 1 .. Len(argv), places \subseteq 1 .. m - 1
  PROVE  Lists(s \o SubSeq(argv, m, n), places \cup (m .. n))
<1>1. Len(argv) \in Nat /\ argv \in Seq(Arguments)
  BY Words
<1> DEFINE words == SubSeq(argv, m, n)
           k == n - m + 1
<1>2. /\ words \in Seq(Arguments) /\ Len(words) = k /\ k \in Nat
      /\ \A i \in 1 .. k : words[i] = argv[m + i - 1]
  <2>1. \A i \in m .. n : argv[i] \in Arguments
    BY <1>1, ElementOfSeq
  <2>2. /\ words \in Seq(Arguments)
        /\ Len(words) = IF m <= n THEN n - m + 1 ELSE 0
        /\ \A i \in 1 .. n - m + 1 : words[i] = argv[m + i - 1]
    BY <2>1, <1>1, SubSeqProperties
  <2> QED BY <1>1, <2>2
<1> HIDE DEF words
<1>3. PICK at \in [1 .. Len(s) -> places] :
        /\ {at[i] : i \in 1 .. Len(s)} = places
        /\ \A i, j \in 1 .. Len(s) : i < j => at[i] < at[j]
        /\ \A i \in 1 .. Len(s) : s[i] = argv[at[i]]
  BY DEF Lists
<1> DEFINE L == Len(s)
           to == [i \in 1 .. L + k |-> IF i <= L THEN at[i] ELSE m + (i - L) - 1]
           t == s \o words
<1>4. L \in Nat /\ k \in Nat /\ m \in Nat /\ n \in Int /\ n = m + k - 1
  BY <1>1, <1>2
<1>5. Len(t) = L + k /\ \A i \in 1 .. L + k : t[i] = IF i <= L THEN s[i] ELSE words[i - L]
  <2>1. /\ Len(s \o words) = Len(s) + Len(words)
        /\ \A i \in 1 .. Len(s) + Len(words) :
             (s \o words)[i] = IF i <= Len(s) THEN s[i] ELSE words[i - Len(s)]
    BY <1>2, ConcatProperties
  <2> QED BY <2>1, <1>2
<1>6. \A i \in 1 .. L : at[i] \in places /\ at[i] \in 1 .. m - 1
  BY <1>3
<1> HIDE DEF t, L, k
<1>7. to \in [1 .. L + k -> places \cup (m .. n)]
  BY <1>4, <1>6
<1>8. {to[i] : i \in 1 .. L + k} = places \cup (m .. n)
  <2>1. \A i \in 1 .. L + k : to[i] \in places \cup (m .. n)
    BY <1>7
  <2>2. ASSUME NEW x \in places PROVE \E i \in 1 .. L + k : to[i] = x
    <3>1. PICK i \in 1 .. L : at[i] = x
      BY <1>3 DEF L
    <3>2. i \in 1 .. L + k /\ to[i] = x
      BY <1>4, <3>1
    <3> QED BY <3>2
  <2>3. ASSUME NEW x \in m .. n PROVE \E i \in 1 .. L + k : to[i] = x
    <3>1. L + (x - m) + 1 \in 1 .. L + k /\ to[L + (x - m) + 1] = x
      BY <1>4
    <3> QED BY <3>1
  <2> QED BY <2>1, <2>2, <2>3, ZenonT(40)
<1>9. \A i, j \in 1 .. L + k : i < j => to[i] < to[j]
  <2>1. \A i, j \in 1 .. L : i < j => at[i] < at[j]
    BY <1>3 DEF L
  <2> QED BY <1>4, <1>6, <2>1
<1>10. \A i \in 1 .. L + k : t[i] = argv[to[i]]
  <2>1. \A i \in 1 .. L : s[i] = argv[at[i]]
    BY <1>3 DEF L
  <2>2. ASSUME NEW i \in 1 .. L + k, i > L PROVE words[i - L] = argv[m + (i - L) - 1]
    BY <1>2, <1>4, <2>2 DEF k
  <2> QED BY <1>4, <1>5, <2>1, <2>2
<1> QED BY <1>5, <1>7, <1>8, <1>9, <1>10 DEF t, words, Lists

-----------------------------------------------------------------------------
\* A line is well-formed if each of its words of flags is right.
LEMMA WellFormedRight ==
  /\ WellFormed => \A k \in FlagWords : Right(k)
  /\ (\A k \in FlagWords : Right(k)) => WellFormed
BY DEF WellFormed, Given, Right

\* A word that is kept is no word of flags, and does not follow one that wants it.
LEMMA NotKept ==
  ASSUME NEW k \in FlagWords
  PROVE  k \notin WordsKept /\ (WantsValue(Final(k)) => k + 1 \notin WordsKept)
BY DEF WordsKept, ValueWords

\* A word of flags has at least one.
LEMMA SaysSomething ==
  ASSUME argv \in CommandLines, NEW k \in FlagWords
  PROVE  k \in 1 .. Len(argv) /\ Len(Flags(k)) \in Nat \ {0}
<1>1. k \in 1 .. Len(argv) /\ argv[k].kind \in {"short", "long"}
  BY DEF FlagWords, Options
<1>2. CASE argv[k].kind = "long"
  <2>1. Len(Flags(k)) = 1
    BY <1>2, LongSays
  <2> QED BY <1>1, <2>1
<1>3. CASE argv[k].kind = "short"
  <2>1. Len(argv[k].letters) \in Nat \ {0}
    BY <1>1, <1>3, Words
  <2> QED BY <1>1, <1>3, <2>1, ShortSays
<1> QED BY <1>1, <1>2, <1>3

\* The next word, when it is one of flags.
LEMMA AtFlags ==
  ASSUME ArgTypes, ScanInv, argi <= Len(argv), argv[argi].kind \in {"short", "long"}
  PROVE  /\ argi \in FlagWords /\ argi \notin Read /\ argi + 1 \notin Read
         /\ Len(Flags(argi)) \in Nat \ {0}
         /\ argi \in 1 .. Len(argv) /\ Len(argv) \in Nat
<1>1. argv \in CommandLines /\ argi \in 1 .. Len(argv) + 1 /\ Len(argv) \in Nat
  BY Words DEF ArgTypes
<1>2. argi \in FlagWords
  BY <1>1 DEF ScanInv, ScanAt, FlagWords, Options
<1>3. Len(Flags(argi)) \in Nat \ {0}
  BY <1>1, <1>2, SaysSomething
<1> QED BY <1>1, <1>2, <1>3 DEF Read

\* The last flag of a word is taken: with its value, if it wants one, the whole of
\* the word is then read, and the line cannot be right if there is no value.
LEMMA LastTaken ==
  ASSUME ArgTypes, ScanInv, parsing = "scanning",
         argi <= Len(argv), argv[argi].kind \in {"short", "long"},
         NEW flag \in spec, Final(argi) = flag.long_name,
         \A l \in 1 .. Len(Flags(argi)) - 1 : l \in Letters,
         \A l \in Letters : l \in 1 .. Len(Flags(argi)) - 1,
         TakeFlag(flag), letter' = 0, UNCHANGED <<spec, argv, positional, remaining>>
  PROVE  /\ parsing' = "scanning" => ScanInv'
         /\ parsing' # "scanning" => parsing' # "ok" /\ ~ WellFormed
<1>1. /\ argi \in FlagWords /\ argi \notin Read /\ argi + 1 \notin Read
      /\ Len(Flags(argi)) \in Nat \ {0}
      /\ argi \in 1 .. Len(argv) /\ Len(argv) \in Nat
  BY AtFlags
<1>2. /\ flag.long_name # "?" /\ (WantsValue(flag.long_name) <=> flag.requires_value)
  BY Found DEF ArgTypes
<1>3. CASE flag.requires_value /\ ~ ValueFollows
  <2>1. ~ Right(argi)
    BY <1>1, <1>2, <1>3 DEF Right, ValueFollows
  <2>2. parsing' = "requires a value"
    BY <1>3 DEF TakeFlag
  <2> QED BY <1>1, <2>1, <2>2, WellFormedRight
<1>4. CASE ~ (flag.requires_value /\ ~ ValueFollows)
  <2> DEFINE next == IF flag.requires_value THEN argi + 2 ELSE argi + 1
  <2>1. /\ parsing' = "scanning" /\ argi' = next /\ is_present' = is_present \cup {flag.long_name}
        /\ value' = IF flag.requires_value THEN WithValue(flag.long_name, argv[argi + 1]) ELSE value
    BY <1>4 DEF TakeFlag
  <2>0. \A k \in Int : k < next <=> k < argi \/ k = argi \/ (flag.requires_value /\ k = argi + 1)
    <3>1. argi \in Int
      BY <1>1
    <3>2. CASE flag.requires_value
      BY <3>1, <3>2
    <3>3. CASE ~ flag.requires_value
      BY <3>1, <3>3
    <3> QED BY <3>2, <3>3
  <2>2. flag.requires_value => argi + 1 <= Len(argv) /\ argv[argi + 1].kind = "plain"
    BY <1>4 DEF ValueFollows
  <2>3. Right(argi)
    <3>1. \A l \in 1 .. Len(Flags(argi)) - 1 : Early(Flags(argi)[l])
      BY DEF ScanInv, ReadRight
    <3>2. Flags(argi)[Len(Flags(argi))] # "?"
      BY <1>2 DEF Final
    <3> QED BY <1>1, <1>2, <2>2, <3>1, <3>2 DEF Right, Early
  <2>4. \A k : k \in Read' <=> k \in Read \/ k = argi
    <3>1. Read' = {k \in FlagWords : k < next}
      BY <2>1, Rigid DEF Read
    <3>2. /\ FlagWords \subseteq 1 .. Len(argv)
          /\ argi + 1 \notin FlagWords \/ ~ flag.requires_value
      BY <2>2 DEF FlagWords, Options
    <3>3. FlagWords \subseteq Int
      BY <1>1 DEF FlagWords, Options
    <3> HIDE DEF next
    <3> QED BY <1>1, <2>0, <3>1, <3>2, <3>3 DEF Read
  <2>5. Letters' = {}
    BY DEF Letters
  <2>6. ScanAt'
    BY <1>1, <2>1, <2>2 DEF ScanInv, ScanAt, FlagWords, Options
  <2>7. ReadRight'
    <3>1. ASSUME NEW k \in Read' PROVE Right(k) /\ (WantsValue(Final(k)) => k + 1 < next)
      <4>1. CASE k \in Read
        <5>1. k \in Int
          BY <1>1, <4>1 DEF Read, FlagWords, Options
        <5> QED BY <1>1, <4>1, <5>1 DEF ScanInv, ReadRight
      <4>2. CASE k = argi
        BY <1>1, <1>2, <2>3, <4>2
      <4> QED BY <2>4, <4>1, <4>2
    <3> QED BY <2>1, <2>5, <3>1, Rigid DEF ReadRight
  <2>8. ReadGiven'
    <3> SUFFICES ASSUME NEW name
                 PROVE  name \in is_present' <=>
                          \E k \in Read' : \E l \in 1 .. Len(Flags(k)) : name = Flags(k)[l]
      BY <2>5, Rigid DEF ReadGiven
    <3>1. name \in is_present <=>
            \/ \E k \in Read : \E l \in 1 .. Len(Flags(k)) : name = Flags(k)[l]
            \/ \E l \in 1 .. Len(Flags(argi)) - 1 : name = Flags(argi)[l]
      BY DEF ScanInv, ReadGiven
    <3>2. (\E l \in 1 .. Len(Flags(argi)) : name = Flags(argi)[l]) <=>
            \/ \E l \in 1 .. Len(Flags(argi)) - 1 : name = Flags(argi)[l]
            \/ name = flag.long_name
      BY <1>1 DEF Final
    <3> QED BY <2>1, <2>4, <3>1, <3>2
  <2>9. ReadValues'
    <3>1. CASE flag.requires_value
      <4>1. \A name : name \in DOMAIN value' <=> name \in DOMAIN value \/ name = flag.long_name
        BY <2>1, <3>1 DEF WithValue
      <4>2. \A name \in DOMAIN value' :
              value'[name] = IF name = flag.long_name THEN argv[argi + 1] ELSE value[name]
        BY <2>1, <3>1 DEF WithValue
      <4>3. ASSUME NEW name
            PROVE  name \in DOMAIN value' <=> \E k \in Read' : Final(k) = name /\ WantsValue(name)
        BY <1>2, <2>4, <3>1, <4>1 DEF ScanInv, ReadValues
      <4>4. ASSUME NEW name \in DOMAIN value'
            PROVE  \E k \in Read' : /\ Final(k) = name /\ value'[name] = argv[k + 1]
                                    /\ \A later \in Read' : Final(later) = name => later <= k
        <5>1. CASE name = flag.long_name
          <6>1. \A later \in Read' : later <= argi
            BY <1>1, <2>4 DEF Read, FlagWords, Options
          <6> QED BY <2>4, <4>2, <5>1, <6>1
        <5>2. CASE name # flag.long_name
          <6>1. PICK k \in Read : /\ Final(k) = name /\ value[name] = argv[k + 1]
                                  /\ \A later \in Read : Final(later) = name => later <= k
            BY <4>1, <5>2 DEF ScanInv, ReadValues
          <6> QED BY <2>4, <4>2, <5>2, <6>1
        <5> QED BY <5>1, <5>2
      <4> QED BY <4>3, <4>4, Rigid DEF ReadValues
    <3>2. CASE ~ flag.requires_value
      <4>1. value' = value /\ ~ WantsValue(Final(argi))
        BY <1>2, <2>1, <3>2
      <4>2. ASSUME NEW name
            PROVE  name \in DOMAIN value <=> \E k \in Read' : Final(k) = name /\ WantsValue(name)
        BY <2>4, <4>1 DEF ScanInv, ReadValues
      <4>3. ASSUME NEW name \in DOMAIN value
            PROVE  \E k \in Read' : /\ Final(k) = name /\ value[name] = argv[k + 1]
                                    /\ \A later \in Read' : Final(later) = name => later <= k
        <5>1. PICK k \in Read : /\ Final(k) = name /\ value[name] = argv[k + 1]
                                /\ \A later \in Read : Final(later) = name => later <= k
          BY DEF ScanInv, ReadValues
        <5>2. WantsValue(name)
          BY DEF ScanInv, ReadValues
        <5> QED BY <2>4, <4>1, <5>1, <5>2
      <4> QED BY <4>1, <4>2, <4>3, Rigid DEF ReadValues
    <3> QED BY <3>1, <3>2
  <2>10. ReadKept'
    <3>1. {k \in WordsKept : k < next} = {k \in WordsKept : k < argi}
      <4>1. argi \notin WordsKept /\ (flag.requires_value => argi + 1 \notin WordsKept)
        BY <1>1, <1>2, NotKept
      <4>2. WordsKept \subseteq Int
        BY <1>1 DEF WordsKept
      <4> HIDE DEF next
      <4> QED BY <1>1, <2>0, <4>1, <4>2
    <3> QED BY <2>1, <3>1, Rigid DEF ScanInv, ReadKept
  <2> QED BY <2>1, <2>6, <2>7, <2>8, <2>9, <2>10 DEF ScanInv
<1> QED BY <1>3, <1>4

\* A long flag.
LEMMA LongScans ==
  ASSUME ArgTypes, ScanInv, LongFlag
  PROVE  /\ parsing' = "scanning" => ScanInv'
         /\ parsing' # "scanning" => parsing' # "ok" /\ ~ WellFormed
<1> DEFINE name == argv[argi].name
<1>1. /\ parsing = "scanning" /\ argi <= Len(argv) /\ argv[argi].kind = "long"
      /\ UNCHANGED <<spec, argv, letter, positional, remaining>>
  BY DEF LongFlag, AtWord
<1>2. /\ Len(Flags(argi)) = 1 /\ Final(argi) = Flags(argi)[1]
      /\ Flags(argi)[1] = NameOf({f \in spec : f.long_name = name})
  BY <1>1, LongSays
<1>3. CASE name \notin Known
  <2>1. Flags(argi)[1] = "?"
    BY <1>2, <1>3 DEF NameOf, Known
  <2>2. argi \in FlagWords
    BY <1>1, AtFlags
  <2>3. 1 \in 1 .. Len(Flags(argi))
    BY <1>2
  <2>4. ~ WellFormed
    BY <2>1, <2>2, <2>3, WellFormedRight DEF Right
  <2>5. parsing' = "unknown flag"
    BY <1>3 DEF LongFlag
  <2> QED BY <2>4, <2>5
<1>4. CASE name \in Known
  <2>1. PICK flag \in spec : flag.long_name = name
    BY <1>4 DEF Known
  <2>2. FlagOf(name) = flag /\ Final(argi) = flag.long_name
    BY <1>2, <2>1, Found DEF ArgTypes
  <2>3. TakeFlag(flag)
    BY <1>4, <2>2 DEF LongFlag
  <2>4. letter = 0 /\ letter' = 0
    BY <1>1 DEF ScanInv, ScanAt
  <2>5. /\ \A l \in 1 .. Len(Flags(argi)) - 1 : l \in Letters
        /\ \A l \in Letters : l \in 1 .. Len(Flags(argi)) - 1
    BY <1>2, <2>4 DEF Letters
  <2>6. argv[argi].kind \in {"short", "long"}
    BY <1>1
  <2> QED BY <1>1, <2>2, <2>3, <2>4, <2>5, <2>6, LastTaken
<1> QED BY <1>3, <1>4

\* The first letter of a word.
LEMMA WordScans ==
  ASSUME ArgTypes, ScanInv, ShortFlags
  PROVE  parsing' = "scanning" /\ ScanInv'
<1>1. /\ parsing = "scanning" /\ argi <= Len(argv) /\ argv[argi].kind = "short"
      /\ letter = 0 /\ letter' = 1
      /\ UNCHANGED <<spec, argv, argi, is_present, value, positional, remaining, parsing>>
  BY DEF ShortFlags, AtWord
<1>2. Letters = {} /\ Letters' = {}
  BY <1>1 DEF Letters
<1>3. Read' = Read
  BY <1>1, Rigid DEF Read
<1>4. ScanAt'
  <2>1. Len(argv[argi].letters) \in Nat \ {0}
    BY <1>1, AtFlags, Words DEF ArgTypes
  <2> QED BY <1>1, <2>1 DEF ScanInv, ScanAt
<1>5. ReadRight' /\ ReadGiven' /\ ReadValues'
  BY <1>1, <1>2, <1>3, Rigid DEF ScanInv, ReadRight, ReadGiven, ReadValues
<1>6. ReadKept'
  BY <1>1, Rigid DEF ScanInv, ReadKept
<1> QED BY <1>1, <1>4, <1>5, <1>6 DEF ScanInv

\* A letter of a word.
LEMMA LetterScans ==
  ASSUME ArgTypes, ScanInv, ShortFlag
  PROVE  /\ parsing' = "scanning" => ScanInv'
         /\ parsing' # "scanning" => parsing' # "ok" /\ ~ WellFormed
<1> DEFINE n == Len(argv[argi].letters)
           found == find_flag_by_char(argv[argi].letters[letter])
<1>1. /\ parsing = "scanning" /\ argi <= Len(argv) /\ argv[argi].kind = "short" /\ letter # 0
      /\ UNCHANGED <<spec, argv, positional, remaining>>
  BY DEF ShortFlag, AtWord
<1>2. /\ argi \in FlagWords /\ argi \in 1 .. Len(argv) /\ Len(argv) \in Nat
      /\ n \in Nat \ {0} /\ letter \in 1 .. n
  <2>1. n \in Nat \ {0}
    BY <1>1, AtFlags, Words DEF ArgTypes
  <2> QED BY <1>1, <2>1, AtFlags DEF ScanInv, ScanAt
<1>3. /\ Len(Flags(argi)) = n /\ Final(argi) = Flags(argi)[n]
      /\ Flags(argi)[letter] = NameOf(found)
  BY <1>1, <1>2, ShortSays
<1>4. CASE found = {} /\ parsing' = "unknown flag"
  <2>1. Flags(argi)[letter] = "?"
    BY <1>3, <1>4 DEF NameOf
  <2> QED BY <1>2, <1>3, <1>4, <2>1, WellFormedRight DEF Right
<1>5. ASSUME ~ IsLastLetter, NEW flag \in found,
             is_present' = is_present \cup {flag.long_name},
             parsing' = IF flag.requires_value THEN "must be last" ELSE parsing,
             letter' = letter + 1, UNCHANGED <<argi, value>>
      PROVE  /\ parsing' = "scanning" => ScanInv'
             /\ parsing' # "scanning" => parsing' # "ok" /\ ~ WellFormed
  <2>1. flag \in spec
    BY DEF find_flag_by_char
  <2>2. /\ Flags(argi)[letter] = flag.long_name /\ flag.long_name # "?"
        /\ WantsValue(flag.long_name) <=> flag.requires_value
    BY <1>3, <2>1, Found DEF ArgTypes
  <2>3. letter \in 1 .. n - 1 /\ letter' = letter + 1
    <3>1. letter # n /\ letter' = letter + 1
      BY <1>5 DEF IsLastLetter
    <3>2. letter \in 1 .. n /\ n \in Nat
      BY <1>2
    <3> HIDE DEF n
    <3> QED BY <3>1, <3>2
  <2>4. CASE flag.requires_value
    <3>1. WantsValue(Flags(argi)[letter])
      BY <2>2, <2>4
    <3>2. letter \in 1 .. Len(Flags(argi)) - 1
      BY <1>3, <2>3
    <3>3. ~ Right(argi)
      BY <3>1, <3>2 DEF Right
    <3>4. parsing' = "must be last"
      BY <1>5, <2>4
    <3> QED BY <1>2, <3>3, <3>4, WellFormedRight
  <2>5. CASE ~ flag.requires_value
    <3>1. Early(flag.long_name)
      BY <2>2, <2>5 DEF Early
    <3>2. Read' = Read /\ parsing' = "scanning"
      BY <1>1, <1>5, <2>5, Rigid DEF Read
    <3>3. \A l : l \in Letters' <=> l \in Letters \/ l = letter
      <4>1. n \in Nat
        BY <1>2
      <4> HIDE DEF n
      <4>2. letter \in Nat /\ letter > 0 /\ letter' = letter + 1
        BY <2>3, <4>1
      <4> QED BY <4>2 DEF Letters
    <3>4. ScanAt'
      <4>1. n \in Nat /\ argi' = argi
        BY <1>2, <1>5
      <4>2. letter' \in Nat /\ letter' <= n
        <5> HIDE DEF n
        <5> QED BY <2>3, <4>1
      <4> QED BY <1>1, <4>1, <4>2 DEF ScanInv, ScanAt
    <3>5. ReadRight'
      <4>1. \A l \in Letters' : Early(Flags(argi)[l])
        BY <2>2, <3>1, <3>3 DEF ScanInv, ReadRight
      <4> QED BY <1>1, <1>5, <3>2, <4>1, Rigid DEF ScanInv, ReadRight
    <3>6. ReadGiven'
      <4>1. \A name : (\E l \in Letters' : name = Flags(argi)[l]) <=>
                        (\E l \in Letters : name = Flags(argi)[l]) \/ name = flag.long_name
        BY <2>2, <3>3
      <4>2. is_present' = is_present \cup {flag.long_name} /\ argi' = argi
        BY <1>5
      <4>3. \A name : name \in is_present' <=>
              \/ \E k \in Read : \E l \in 1 .. Len(Flags(k)) : name = Flags(k)[l]
              \/ \E l \in Letters' : name = Flags(argi)[l]
        BY <4>1, <4>2 DEF ScanInv, ReadGiven
      <4> QED BY <1>1, <3>2, <4>2, <4>3, Rigid DEF ReadGiven
    <3>7. ReadValues' /\ ReadKept'
      BY <1>1, <1>5, <3>2, Rigid DEF ScanInv, ReadValues, ReadKept
    <3> QED BY <3>2, <3>4, <3>5, <3>6, <3>7 DEF ScanInv
  <2> QED BY <2>4, <2>5
<1>6. ASSUME IsLastLetter, NEW flag \in found, TakeFlag(flag), letter' = 0
      PROVE  /\ parsing' = "scanning" => ScanInv'
             /\ parsing' # "scanning" => parsing' # "ok" /\ ~ WellFormed
  <2>1. flag \in spec
    BY DEF find_flag_by_char
  <2>2. Final(argi) = flag.long_name
    BY <1>3, <1>6, <2>1, Found DEF ArgTypes, IsLastLetter
  <2>3. /\ \A l \in 1 .. Len(Flags(argi)) - 1 : l \in Letters
        /\ \A l \in Letters : l \in 1 .. Len(Flags(argi)) - 1
    BY <1>2, <1>3, <1>6 DEF Letters, IsLastLetter
  <2>4. argv[argi].kind \in {"short", "long"}
    BY <1>1
  <2> QED BY <1>1, <1>6, <2>1, <2>2, <2>3, <2>4, LastTaken
<1> QED BY <1>4, <1>5, <1>6 DEF ShortFlag

-----------------------------------------------------------------------------
\* The numbers of a set up to n and up to the next.
LEMMA UpTo ==
  ASSUME NEW S, S \subseteq Int, NEW n \in Int
  PROVE  /\ n \in S => {k \in S : k < n + 1} = {k \in S : k < n} \cup (n .. n)
         /\ n \notin S => {k \in S : k < n + 1} = {k \in S : k < n}
<1>1. ASSUME n \in S PROVE {k \in S : k < n + 1} = {k \in S : k < n} \cup (n .. n)
  <2>1. \A k \in Int : k < n + 1 <=> k < n \/ k = n
    OBVIOUS
  <2>2. n .. n = {n}
    OBVIOUS
  <2> QED BY <1>1, <2>1, <2>2
<1>2. ASSUME n \notin S PROVE {k \in S : k < n + 1} = {k \in S : k < n}
  <2>1. \A k \in Int : k < n + 1 <=> k < n \/ k = n
    OBVIOUS
  <2> QED BY <1>2, <2>1
<1> QED BY <1>1, <1>2

\* The numbers of a set, when all from the one after n are in it.
LEMMA AllFrom ==
  ASSUME NEW N \in Int, NEW S, S \subseteq 1 .. N, NEW n \in Int, n \notin S, n + 1 .. N \subseteq S
  PROVE  {k \in S : k < N + 1} = {k \in S : k < n} \cup (n + 1 .. N)
<1>1. \A k \in S : k \in Int /\ k <= N /\ k # n
  OBVIOUS
<1>2. \A k \in n + 1 .. N : k \in S /\ k < N + 1
  OBVIOUS
<1>3. ASSUME NEW k \in S, ~ (k < n) PROVE k \in n + 1 .. N
  BY <1>1, <1>3
<1>4. \A k \in S : k < N + 1
  BY <1>1
<1> QED BY <1>2, <1>3, <1>4

\* A word that is no flag: not the value of one either, or it were jumped.
LEMMA PositionalScans ==
  ASSUME ArgTypes, ScanInv, Positional
  PROVE  (parsing' = "scanning" /\ ScanInv') \/ parsing' \in OutOfMemory
<1> SUFFICES ASSUME parsing' \notin OutOfMemory PROVE parsing' = "scanning" /\ ScanInv'
  OBVIOUS
<1>1. /\ parsing = "scanning" /\ argi <= Len(argv) /\ argv[argi].kind \in {"plain", "dash"}
      /\ argi' = argi + 1 /\ Keep(<<argv[argi]>>)
      /\ UNCHANGED <<spec, argv, letter, is_present, value, parsing>>
  BY DEF Positional, AtWord, NoRoomFor, OutOfMemory
<1>2. /\ argi \in 1 .. Len(argv) /\ Len(argv) \in Nat /\ argv \in Seq(Arguments)
      /\ argv \in CommandLines
  BY <1>1, Words DEF ArgTypes
<1>3. argi \notin FlagWords /\ FlagWords \subseteq Int
  BY <1>1, <1>2 DEF FlagWords, Options
<1>4. Read' = Read
  <2>1. argi \in Int /\ argi' = argi + 1
    BY <1>1, <1>2
  <2>2. {k \in FlagWords : k < argi + 1} = {k \in FlagWords : k < argi}
    BY <1>3, <2>1, UpTo
  <2> QED BY <1>1, <2>1, <2>2, Rigid DEF Read
<1>5. letter = 0 /\ letter' = 0 /\ Letters = {} /\ Letters' = {}
  <2>1. letter = 0
    BY <1>1 DEF ScanInv, ScanAt
  <2> QED BY <1>1, <2>1 DEF Letters
<1>6. ScanAt'
  BY <1>1, <1>2, <1>5 DEF ScanInv, ScanAt
<1>7. ReadRight'
  <2>1. \A k \in Read : k \in Int /\ Right(k) /\ (WantsValue(Final(k)) => k + 1 < argi)
    BY <1>3 DEF ScanInv, ReadRight, Read
  <2>2. \A k \in Read : Right(k) /\ (WantsValue(Final(k)) => k + 1 < argi + 1)
    BY <1>2, <2>1
  <2> QED BY <1>1, <1>4, <1>5, <2>2, Rigid DEF ReadRight
<1>8. ReadGiven' /\ ReadValues'
  BY <1>1, <1>4, <1>5, Rigid DEF ScanInv, ReadGiven, ReadValues
<1>9. ReadKept'
  <2> DEFINE all == positional \o remaining
             places == {k \in WordsKept : k < argi}
  <2>1. SubSeq(argv, argi, argi) = <<argv[argi]>>
    <3>1. argi + 1 \in Int /\ argi \in Int /\ argi < argi + 1
      BY <1>2
    <3>2. SubSeq(argv, argi + 1, argi) = <<>>
      BY <3>1, SubSeqEmpty
    <3>3. argi \in argi .. Len(argv)
      BY <1>2
    <3>4. SubSeq(argv, argi, argi) = <<argv[argi]>> \o SubSeq(argv, argi + 1, argi)
      BY <1>2, <3>3, SubSeqRecursiveFirst
    <3>5. <<argv[argi]>> \in Seq(Arguments)
      BY <1>2, ElementOfSeq
    <3>6. <<argv[argi]>> \o <<>> = <<argv[argi]>>
      BY <3>5, ConcatEmptySeq
    <3> QED BY <3>2, <3>4, <3>6
  <2>2. /\ all \in Seq(Arguments) /\ <<argv[argi]>> \in Seq(Arguments)
        /\ positional' \o remaining' = all \o <<argv[argi]>>
    <3>1. positional \in Seq(Arguments) /\ remaining \in Seq(Arguments)
      BY DEF ArgTypes
    <3>2. <<argv[argi]>> \in Seq(Arguments)
      BY <1>2, ElementOfSeq
    <3>3. positional' \o remaining' = all \o <<argv[argi]>>
      BY <1>1, <3>1, <3>2, Keeping
    <3> QED BY <3>1, <3>2, <3>3, ConcatProperties
  <2>3. places \subseteq 1 .. argi - 1 /\ argi \in argi - 1 .. Len(argv) /\ argi \in 1 .. Len(argv) + 1
    BY <1>2 DEF WordsKept
  <2>4. Lists(all, places)
    BY DEF ScanInv, ReadKept
  <2> HIDE DEF all, places
  <2>5. Lists(all \o SubSeq(argv, argi, argi), places \cup (argi .. argi))
    BY <1>2, <2>2, <2>3, <2>4, Listing
  <2>6. argi \in WordsKept
    <3>1. argi \notin ValueWords
      <4> SUFFICES ASSUME NEW k \in FlagWords, WantsValue(Final(k)), argi = k + 1 PROVE FALSE
        BY DEF ValueWords
      <4>1. k \in Read
        BY <1>2, <1>3 DEF Read
      <4>2. k + 1 < argi
        BY <4>1 DEF ScanInv, ReadRight
      <4> QED BY <1>2, <1>3, <4>2
    <3> QED BY <1>1, <1>2, <1>3, <3>1 DEF WordsKept
  <2>7. {k \in WordsKept : k < argi + 1} = places \cup (argi .. argi)
    <3>1. WordsKept \subseteq Int
      BY <1>2 DEF WordsKept
    <3>2. argi \in Int
      BY <1>2
    <3> QED BY <2>6, <3>1, <3>2, UpTo DEF places
  <2>8. Lists(all \o <<argv[argi]>>, {k \in WordsKept : k < argi + 1})
    BY <2>1, <2>5, <2>7
  <2> QED BY <1>1, <2>2, <2>8, Rigid DEF ReadKept
<1> QED BY <1>1, <1>6, <1>7, <1>8, <1>9 DEF ScanInv

\* Two dashes: all the words after them are kept.
LEMMA EndScans ==
  ASSUME ArgTypes, ScanInv, EndOfOptions
  PROVE  (parsing' = "scanning" /\ ScanInv') \/ parsing' \in OutOfMemory
<1> SUFFICES ASSUME parsing' \notin OutOfMemory PROVE parsing' = "scanning" /\ ScanInv'
  OBVIOUS
<1> DEFINE N == Len(argv)
           words == SubSeq(argv, argi + 1, N)
<1>1. /\ parsing = "scanning" /\ argi <= N /\ argv[argi].kind = "end"
      /\ argi' = N + 1 /\ Keep(words)
      /\ UNCHANGED <<spec, argv, letter, is_present, value, parsing>>
  BY DEF EndOfOptions, AtWord, NoRoomFor, OutOfMemory
<1>2. /\ argi \in 1 .. N /\ N \in Nat /\ argv \in Seq(Arguments) /\ argv \in CommandLines
  BY <1>1, Words DEF ArgTypes
<1>3. \A k \in Options : k < argi
  BY <1>1, <1>2 DEF Options
<1>4. \A k \in FlagWords : k \in 1 .. N /\ k < argi
  BY <1>3 DEF FlagWords, Options
<1>5. Read = FlagWords /\ Read' = Read
  <2>1. \A k \in FlagWords : k < N + 1
    BY <1>2, <1>4
  <2> QED BY <1>1, <1>4, <2>1, Rigid DEF Read
<1>6. letter = 0 /\ letter' = 0 /\ Letters = {} /\ Letters' = {}
  <2>1. letter = 0
    BY <1>1 DEF ScanInv, ScanAt
  <2> QED BY <1>1, <2>1 DEF Letters
<1>7. ScanAt'
  BY <1>1, <1>2, <1>6 DEF ScanAt
<1>8. ReadRight'
  <2>1. \A k \in Read : k \in Int /\ Right(k) /\ (WantsValue(Final(k)) => k + 1 < argi)
    BY <1>4, <1>5 DEF ScanInv, ReadRight
  <2>2. \A k \in Read : Right(k) /\ (WantsValue(Final(k)) => k + 1 < N + 1)
    BY <1>2, <2>1
  <2> QED BY <1>1, <1>5, <1>6, <2>2, Rigid DEF ReadRight
<1>9. ReadGiven' /\ ReadValues'
  BY <1>1, <1>5, <1>6, Rigid DEF ScanInv, ReadGiven, ReadValues
<1>10. ReadKept'
  <2> DEFINE all == positional \o remaining
             places == {k \in WordsKept : k < argi}
  <2>1. words \in Seq(Arguments)
    <3>1. \A i \in argi + 1 .. N : argv[i] \in Arguments
      BY <1>2, ElementOfSeq
    <3>2. argi + 1 \in Int /\ N \in Int
      BY <1>2
    <3> QED BY <3>1, <3>2, SubSeqProperties
  <2>2. all \in Seq(Arguments) /\ positional' \o remaining' = all \o words
    <3>1. positional \in Seq(Arguments) /\ remaining \in Seq(Arguments)
      BY DEF ArgTypes
    <3>2. positional' \o remaining' = all \o words
      BY <1>1, <2>1, <3>1, Keeping
    <3> QED BY <3>1, <3>2, ConcatProperties
  <2>3. argi \notin WordsKept
    <3>1. argi - 1 \in Options \cup {0}
      BY <1>1, <1>2 DEF ScanInv, ScanAt, Options
    <3> QED BY <1>1, <3>1 DEF WordsKept
  <2>4. \A k \in argi + 1 .. N : k \in WordsKept
    <3> SUFFICES ASSUME NEW k \in argi + 1 .. N PROVE k \in WordsKept
      OBVIOUS
    <3>1. k \notin FlagWords
      BY <1>2, <1>4
    <3>2. k \notin ValueWords
      <4> SUFFICES ASSUME NEW j \in FlagWords, k = j + 1 PROVE FALSE
        BY DEF ValueWords
      <4> QED BY <1>2, <1>4
    <3>3. k - 1 \notin Options \cup {0}
      BY <1>2, <1>3
    <3> QED BY <1>2, <3>1, <3>2, <3>3 DEF WordsKept
  <2>5. WordsKept \subseteq 1 .. N
    BY DEF WordsKept
  <2>6. Lists(all, places)
    BY DEF ScanInv, ReadKept
  <2>7. places \subseteq 1 .. (argi + 1) - 1 /\ argi + 1 \in 1 .. N + 1 /\ N \in (argi + 1) - 1 .. N
    <3>1. argi \in 1 .. N /\ N \in Nat
      BY <1>2
    <3> HIDE DEF N
    <3>2. (argi + 1) - 1 = argi
      BY <3>1
    <3>3. \A k \in WordsKept : k < argi => k \in 1 .. argi - 1
      BY <2>5, <3>1
    <3>4. 1 .. argi - 1 \subseteq 1 .. argi
      BY <3>1
    <3> QED BY <3>1, <3>2, <3>3, <3>4
  <2>8. {k \in WordsKept : k < N + 1} = places \cup (argi + 1 .. N)
    <3>1. argi \in Int /\ N \in Int /\ WordsKept \subseteq Int
      BY <1>2, <2>5
    <3> HIDE DEF N
    <3>2. argi + 1 .. N \subseteq WordsKept
      BY <2>4
    <3> QED BY <2>3, <2>5, <3>1, <3>2, AllFrom
  <2> HIDE DEF all, places
  <2>9. Lists(all \o words, places \cup (argi + 1 .. N))
    BY <1>2, <2>2, <2>6, <2>7, Listing
  <2> QED BY <1>1, <2>2, <2>8, <2>9, Rigid DEF ReadKept
<1> QED BY <1>1, <1>7, <1>8, <1>9, <1>10 DEF ScanInv

\* At the end of the line all of it is read, and was right.
LEMMA FinishScans ==
  ASSUME ArgTypes, ScanInv, FinishParsing
  PROVE  /\ parsing' = "ok" /\ WellFormed
         /\ is_present = Given
         /\ DOMAIN value = {name \in Given : WantsValue(name)}
         /\ \A name \in DOMAIN value :
              \E k \in FlagWords :
                /\ Final(k) = name /\ value[name] = argv[k + 1]
                /\ \A later \in FlagWords : Final(later) = name => later <= k
         /\ Lists(positional \o remaining, WordsKept)
<1>1. argi = Len(argv) + 1 /\ Len(argv) \in Nat /\ argv \in CommandLines /\ ~ (argi <= Len(argv))
  <2>1. argi \in 1 .. Len(argv) + 1 /\ argi > Len(argv) /\ argv \in CommandLines
    BY DEF ArgTypes, FinishParsing
  <2>2. Len(argv) \in Nat
    BY <2>1, Words
  <2> QED BY <2>1, <2>2
<1>2. \A k \in 1 .. Len(argv) : k < argi
  BY <1>1
<1>3. Read = FlagWords
  BY <1>2 DEF Read, FlagWords, Options
<1>4. Letters = {}
  BY <1>1 DEF ScanInv, ScanAt, Letters
<1>5. \A k \in FlagWords : Right(k)
  BY <1>3 DEF ScanInv, ReadRight
<1>6. parsing' = "ok"
  BY ArgSpecAssumption DEF FinishParsing, ArgTypes, FlagsApart
<1>7. is_present = Given
  <2>1. \A name : name \in is_present <=>
                    \E k \in FlagWords : \E l \in 1 .. Len(Flags(k)) : name = Flags(k)[l]
    BY <1>3, <1>4 DEF ScanInv, ReadGiven
  <2> QED BY <2>1 DEF Given
<1>8. DOMAIN value = {name \in Given : WantsValue(name)}
  <2>1. \A name : name \in DOMAIN value <=> \E k \in FlagWords : Final(k) = name /\ WantsValue(name)
    BY <1>3 DEF ScanInv, ReadValues
  <2>2. ASSUME NEW k \in FlagWords PROVE Final(k) \in Given
    <3>1. Len(Flags(k)) \in 1 .. Len(Flags(k))
      BY <1>1, SaysSomething
    <3> QED BY <3>1 DEF Final, Given
  <2>3. ASSUME NEW name \in Given, WantsValue(name) PROVE \E k \in FlagWords : Final(k) = name
    <3>0. PICK k \in FlagWords : \E l \in 1 .. Len(Flags(k)) : name = Flags(k)[l]
      BY DEF Given
    <3>1. PICK l \in 1 .. Len(Flags(k)) : name = Flags(k)[l]
      BY <3>0
    <3>2. l \notin 1 .. Len(Flags(k)) - 1
      BY <1>5, <2>3, <3>1 DEF Right
    <3>3. l = Len(Flags(k))
      BY <1>1, <3>2, SaysSomething
    <3> QED BY <3>1, <3>3 DEF Final
  <2> QED BY <2>1, <2>2, <2>3
<1>9. \A name \in DOMAIN value :
        \E k \in FlagWords :
          /\ Final(k) = name /\ value[name] = argv[k + 1]
          /\ \A later \in FlagWords : Final(later) = name => later <= k
  BY <1>3 DEF ScanInv, ReadValues
<1>10. Lists(positional \o remaining, WordsKept)
  <2>1. {k \in WordsKept : k < argi} = WordsKept
    BY <1>2 DEF WordsKept
  <2> QED BY <2>1 DEF ScanInv, ReadKept
<1> QED BY <1>5, <1>6, <1>7, <1>8, <1>9, <1>10, WellFormedRight

-----------------------------------------------------------------------------
\* A flag that is taken is known, whether or not its value is there.
LEMMA TakenTyped ==
  ASSUME ArgTypes, argi <= Len(argv), NEW flag \in spec, TakeFlag(flag), UNCHANGED <<spec, argv>>
  PROVE  /\ argi' \in 1 .. Len(argv) + 1
         /\ is_present' \subseteq Known
         /\ DOMAIN value' \subseteq is_present'
<1>1. flag.long_name \in Known /\ Len(argv) \in Nat /\ argi \in 1 .. Len(argv)
  BY Words DEF Known, ArgTypes
<1>2. is_present' \subseteq Known
  BY <1>1 DEF TakeFlag, ArgTypes
<1>3. argi' = argi \/ argi' = argi + 1 \/ (argi' = argi + 2 /\ argi + 1 <= Len(argv))
  BY DEF TakeFlag, ValueFollows
<1>4. value' = value \/ value' = WithValue(flag.long_name, argv[argi + 1])
  BY DEF TakeFlag
<1>5. DOMAIN WithValue(flag.long_name, argv[argi + 1]) = DOMAIN value \cup {flag.long_name}
  BY DEF WithValue
<1>6. is_present' = is_present \cup {flag.long_name}
  BY DEF TakeFlag
<1> QED BY <1>1, <1>2, <1>3, <1>4, <1>5, <1>6 DEF ArgTypes

\* Types, and room for the named arguments only.
LEMMA TypesStep ==
  ASSUME ArgTypes, parsing = "scanning" => ScanInv, ParseNext
  PROVE  ArgTypes'
<1>1. argv \in Seq(Arguments) /\ Len(argv) \in Nat
  BY Words DEF ArgTypes
<1>2. UNCHANGED <<spec, argv>>
  BY DEF ParseNext, LongFlag, ShortFlags, ShortFlag, Positional, EndOfOptions, FinishParsing
<1>3. Known' = Known /\ Arguments' = Arguments /\ FlagsApart(spec)'
  BY <1>2, Rigid DEF ArgTypes, Arguments
<1>4. ASSUME UNCHANGED <<positional, remaining>>,
             argi' \in 1 .. Len(argv) + 1, is_present' \subseteq Known, DOMAIN value' \subseteq is_present'
      PROVE  ArgTypes'
  BY <1>2, <1>3, <1>4 DEF ArgTypes
<1>5. CASE LongFlag
  <2>1. CASE UNCHANGED <<argi, is_present, value>>
    BY <1>4, <1>5, <2>1 DEF LongFlag, ArgTypes
  <2>2. CASE argv[argi].name \in Known /\ TakeFlag(FlagOf(argv[argi].name))
    <3>1. PICK flag \in spec : flag.long_name = argv[argi].name
      BY <2>2 DEF Known
    <3>2. TakeFlag(flag)
      BY <2>2, <3>1, Found DEF ArgTypes
    <3> QED BY <1>2, <1>4, <1>5, <3>2, TakenTyped DEF LongFlag, AtWord
  <2> QED BY <1>5, <2>1, <2>2 DEF LongFlag
<1>6. CASE ShortFlags
  BY <1>4, <1>6 DEF ShortFlags, ArgTypes
<1>7. CASE ShortFlag
  <2> DEFINE found == find_flag_by_char(argv[argi].letters[letter])
  <2>1. CASE UNCHANGED <<argi, is_present, value>>
    BY <1>4, <1>7, <2>1 DEF ShortFlag, ArgTypes
  <2>2. CASE \E flag \in found : is_present' = is_present \cup {flag.long_name} /\ UNCHANGED <<argi, value>>
    <3>1. is_present' \subseteq Known /\ DOMAIN value \subseteq is_present'
      BY <2>2 DEF ArgTypes, Known, find_flag_by_char
    <3> QED BY <1>4, <1>7, <2>2, <3>1 DEF ShortFlag, ArgTypes
  <2>3. CASE \E flag \in found : TakeFlag(flag)
    <3>1. PICK flag \in spec : TakeFlag(flag)
      BY <2>3 DEF find_flag_by_char
    <3> QED BY <1>2, <1>4, <1>7, <3>1, TakenTyped DEF ShortFlag, AtWord
  <2> QED BY <1>7, <2>1, <2>2, <2>3 DEF ShortFlag
<1>8. ASSUME NEW words \in Seq(Arguments), Keep(words), argi' \in 1 .. Len(argv) + 1,
             UNCHANGED <<is_present, value>>
      PROVE  ArgTypes'
  <2>1. positional \in Seq(Arguments) /\ remaining \in Seq(Arguments)
    BY DEF ArgTypes
  <2>2. /\ positional' \in Seq(Arguments) /\ remaining' \in Seq(Arguments)
        /\ Len(positional') <= ARG_COUNT
        /\ Len(positional') < ARG_COUNT => remaining' = <<>>
    BY <1>8, <2>1, Keeping
  <2> QED BY <1>2, <1>3, <1>8, <2>2 DEF ArgTypes
<1>12. ASSUME NEW count, NEW outcome, NoRoomFor(count, outcome), UNCHANGED <<is_present, value>>
       PROVE  ArgTypes'
  <2>1. UNCHANGED <<argi, positional>> /\ remaining' = <<>>
    BY <1>12 DEF NoRoomFor
  <2> QED BY <1>2, <1>3, <1>12, <2>1 DEF ArgTypes
<1>9. CASE Positional
  <2>0. CASE NoRoomFor(1, "out of memory")
    BY <1>9, <1>12, <2>0 DEF Positional
  <2> SUFFICES ASSUME Keep(<<argv[argi]>>), argi' = argi + 1 PROVE ArgTypes'
    BY <1>9, <2>0 DEF Positional
  <2>1. /\ argi \in 1 .. Len(argv) /\ argi' = argi + 1 /\ Keep(<<argv[argi]>>)
        /\ UNCHANGED <<is_present, value>>
    <3>1. argi <= Len(argv) /\ UNCHANGED <<is_present, value>>
      BY <1>9 DEF Positional, AtWord
    <3> QED BY <1>1, <3>1 DEF ArgTypes
  <2>2. <<argv[argi]>> \in Seq(Arguments)
    BY <1>1, <2>1, ElementOfSeq
  <2>3. argi' \in 1 .. Len(argv) + 1
    BY <1>1, <2>1
  <2> QED BY <1>8, <2>1, <2>2, <2>3
<1>10. CASE EndOfOptions
  <2>0. CASE NoRoomFor(Len(argv) - argi, "crash")
    BY <1>10, <1>12, <2>0 DEF EndOfOptions
  <2> SUFFICES ASSUME ~ NoRoomFor(Len(argv) - argi, "crash") PROVE ArgTypes'
    BY <2>0
  <2>1. /\ argi' = Len(argv) + 1 /\ argi \in 1 .. Len(argv) /\ Keep(SubSeq(argv, argi + 1, Len(argv)))
        /\ UNCHANGED <<is_present, value>>
    BY <1>1, <1>10 DEF EndOfOptions, AtWord, ArgTypes
  <2>2. SubSeq(argv, argi + 1, Len(argv)) \in Seq(Arguments)
    <3>1. \A i \in argi + 1 .. Len(argv) : argv[i] \in Arguments
      BY <1>1, <2>1, ElementOfSeq
    <3>2. argi + 1 \in Int /\ Len(argv) \in Int
      BY <1>1, <2>1
    <3> QED BY <3>1, <3>2, SubSeqProperties
  <2>3. argi' \in 1 .. Len(argv) + 1
    BY <1>1, <2>1
  <2> QED BY <1>8, <2>1, <2>2, <2>3
<1>11. CASE FinishParsing
  BY <1>4, <1>11 DEF FinishParsing, ArgTypes
<1> QED BY <1>5, <1>6, <1>7, <1>9, <1>10, <1>11 DEF ParseNext

-----------------------------------------------------------------------------
LEMMA ParseStart ==
  ASSUME NEW flags, FlagsApart(flags), ParseInit(flags)
  PROVE  ParseInv
<1>1. /\ argv \in CommandLines /\ argi = 1 /\ letter = 0 /\ is_present = {} /\ value = <<>>
      /\ positional = <<>> /\ remaining = <<>> /\ parsing = "scanning" /\ FlagsApart(spec)
  BY DEF ParseInit
<1>2. Len(argv) \in Nat /\ DOMAIN value = {}
  BY <1>1, Words
<1>3. ArgTypes
  BY <1>1, <1>2, ArgAssumption DEF ArgTypes
<1>4. Read = {} /\ Letters = {} /\ {k \in WordsKept : k < argi} = {}
  <2>1. \A k \in 1 .. Len(argv) : ~ (k < argi)
    BY <1>1, <1>2
  <2> QED BY <1>1, <2>1 DEF Read, FlagWords, Options, Letters, WordsKept
<1>5. ScanAt
  BY <1>1, <1>2 DEF ScanAt
<1>6. ReadRight /\ ReadGiven /\ ReadValues
  BY <1>1, <1>2, <1>4 DEF ReadRight, ReadGiven, ReadValues
<1>7. ReadKept
  <2>1. positional \o remaining = <<>> /\ Len(<<>>) = 0
    BY <1>1, EmptySeq, ConcatEmptySeq
  <2>2. [i \in 1 .. 0 |-> i] \in [1 .. Len(<<>>) -> {}] /\ 1 .. Len(<<>>) = {}
    BY <2>1
  <2>3. Lists(<<>>, {})
    BY <2>2 DEF Lists
  <2> QED BY <1>4, <2>1, <2>3 DEF ReadKept
<1>8. ParsedAsMeant
  BY <1>1 DEF ParsedAsMeant
<1> QED BY <1>3, <1>5, <1>6, <1>7, <1>8 DEF ParseInv, ScanInv

LEMMA ParseStep ==
  ASSUME ParseInv, ParseNext
  PROVE  ParseInv'
<1>1. ArgTypes /\ parsing = "scanning" /\ ScanInv
  BY DEF ParseInv, ParseNext, LongFlag, ShortFlags, ShortFlag, Positional, EndOfOptions, FinishParsing, AtWord
<1>2. UNCHANGED <<spec, argv>>
  BY DEF ParseNext, LongFlag, ShortFlags, ShortFlag, Positional, EndOfOptions, FinishParsing
<1>3. ArgTypes'
  BY <1>1, TypesStep
<1>4. CASE ~ FinishParsing
  <2>1. /\ parsing' = "scanning" => ScanInv'
        /\ parsing' # "scanning" => parsing' # "ok" /\ (parsing' \in OutOfMemory \/ ~ WellFormed)
    BY <1>1, <1>4, LongScans, WordScans, LetterScans, PositionalScans, EndScans
       DEF ParseNext, OutOfMemory
  <2>2. ParsedAsMeant'
    BY <1>2, <2>1, Rigid DEF ParsedAsMeant
  <2> QED BY <1>3, <2>1, <2>2 DEF ParseInv
<1>5. CASE FinishParsing
  <2>1. /\ parsing' = "ok" /\ WellFormed /\ is_present = Given
        /\ DOMAIN value = {name \in Given : WantsValue(name)}
        /\ \A name \in DOMAIN value :
             \E k \in FlagWords :
               /\ Final(k) = name /\ value[name] = argv[k + 1]
               /\ \A later \in FlagWords : Final(later) = name => later <= k
        /\ Lists(positional \o remaining, WordsKept)
    BY <1>1, <1>5, FinishScans
  <2>2. UNCHANGED <<is_present, value, positional, remaining>>
    BY <1>5 DEF FinishParsing
  <2>3. Len(positional) < ARG_COUNT => remaining = <<>>
    BY <1>1 DEF ArgTypes
  <2>4. ParsedAsMeant'
    BY <1>2, <2>1, <2>2, <2>3, Rigid DEF ParsedAsMeant
  <2> QED BY <1>3, <2>1, <2>4 DEF ParseInv
<1> QED BY <1>4, <1>5

LEMMA ParseKept ==
  ASSUME ParseInv, UNCHANGED argVars
  PROVE  ParseInv'
<1> USE DEF argVars
<1>1. ArgTypes'
  BY Rigid DEF ParseInv, ArgTypes, Arguments
<1>2. Read' = Read /\ Letters' = Letters
  BY Rigid DEF Read, Letters
<1>3. ASSUME ScanInv PROVE ScanInv'
  <2>1. ScanAt' /\ ReadKept'
    BY <1>3, Rigid DEF ScanInv, ScanAt, ReadKept
  <2>2. ReadRight' /\ ReadGiven' /\ ReadValues'
    BY <1>2, <1>3, Rigid DEF ScanInv, ReadRight, ReadGiven, ReadValues
  <2> QED BY <2>1, <2>2 DEF ScanInv
<1>4. ParsedAsMeant'
  <2>1. CASE parsing = "ok"
    <3>1. /\ WellFormed /\ is_present = Given
          /\ DOMAIN value = {name \in Given : WantsValue(name)}
          /\ \A name \in DOMAIN value :
               \E k \in FlagWords :
                 /\ Final(k) = name /\ value[name] = argv[k + 1]
                 /\ \A later \in FlagWords : Final(later) = name => later <= k
          /\ Lists(positional \o remaining, WordsKept)
          /\ Len(positional) < ARG_COUNT => remaining = <<>>
      BY <2>1 DEF ParseInv, ParsedAsMeant
    <3> QED BY <2>1, <3>1, Rigid DEF ParsedAsMeant
  <2>2. CASE parsing # "ok"
    <3>1. parsing \notin {"scanning"} \cup OutOfMemory => ~ WellFormed
      BY <2>2 DEF ParseInv, ParsedAsMeant
    <3> QED BY <2>2, <3>1, Rigid DEF ParsedAsMeant
  <2> QED BY <2>1, <2>2
<1> QED BY <1>1, <1>3, <1>4 DEF ParseInv

-----------------------------------------------------------------------------
\* The stages by what has been decided before them.
Opening == {"verbose", "open"}
Writing == {"emit", "close"}
Assembling == {"assembler", "available", "invoke"}
Analyzing == {"source", "lex", "parse", "reader", "analyze", "report"}
Before == {"arguments", "toolchain", "target"} \cup Analyzing \cup Opening

Supported(target) == target.os \in SUPPORTED_OS /\ target.arch \in SUPPORTED_ARCH

StageInv == stage \in Stages /\ exit \in {"running", "success", "failure", "abort", "crash"}

\* What is known of the target and of the errors.
TargetInv ==
  /\ host \in HOST_INFOS
  /\ config.target \in HOST_INFOS
  /\ stage \in Analyzing \cup Opening \cup Writing \cup Assembling => Supported(config.target)
  /\ stage \in Opening \cup Writing \cup Assembling => ~ errors
  /\ stage \in Assembling => ~ config.emit_asm
  /\ stage \in Before => output = "untouched"
  /\ ~ config.emit_asm /\ stage \in Writing \cup Assembling => output = "untouched"
  /\ output # "untouched" => Supported(config.target) /\ ~ errors

\* What has been said, and what a true exit code means.
ExitInv ==
  /\ exit_code \in BOOLEAN
  /\ exit = "running" => (exit_code = TRUE <=> said = {})
  /\ stage \in Before \cup Writing \cup Assembling => exit_code = TRUE
  /\ stage \in Assembling => asm = "whole" \/ lost
  /\ stage \in {"cleanup", "return"} /\ exit_code = TRUE => output = "whole" \/ lost

\* What is held at least, and at most.
AtLeast(name) ==
  {"parser", "result"}
  \cup (IF name = "arguments" THEN {} ELSE {"config"})
  \cup (IF name \in {"lex", "parse", "reader"} THEN {"reader"} ELSE {})
  \cup (IF name \in {"parse", "reader", "analyze", "report", "cleanup"} \cup Opening \cup Writing \cup Assembling
          THEN {"tokens"} ELSE {})
  \cup (IF name \in {"reader", "analyze", "report", "cleanup"} \cup Opening \cup Writing \cup Assembling
          THEN {"ast"} ELSE {})
  \cup (IF name \in {"report"} \cup Opening \cup Writing THEN {"tables"} ELSE {})
  \cup (IF name \in Writing THEN {"asm_file"} ELSE {})
AtMost(name) ==
  AtLeast(name) \cup {"config"}
  \cup (IF name \in {"arguments", "toolchain", "target", "source", "lex", "return"} THEN {} ELSE {"reports"})
Leaked == IF Unopened THEN {"tables", "descriptor"} ELSE {}
HeldInv ==
  /\ exit = "running" => AtLeast(stage) \subseteq held /\ held \subseteq AtMost(stage) \cup Leaked
  /\ exit # "running" /\ stage = "return" => held \subseteq Leaked

\* What the other parts leave to say of the types.
HeldNames == {"parser", "result", "config", "reader", "tokens", "ast", "tables",
              "reports", "asm_file", "descriptor"}
TypeInv ==
  /\ spec = FLAG_SPEC(host)
  /\ errors \in BOOLEAN /\ lost \in BOOLEAN
  /\ asm \in {"none", "partial", "whole"} /\ output \in {"untouched", "partial", "whole"}
  /\ held \subseteq HeldNames
  /\ ~ config.emit_asm /\ stage \in Writing \cup Assembling => asm # "none"

DInv == StageInv /\ TargetInv /\ ExitInv /\ HeldInv /\ ExitStatusTrue /\ TypeInv /\ ParseInv

-----------------------------------------------------------------------------
USE DEF At, GoesTo, FailsAt, Exits, Says, FilesKept, Stages, Opening, Writing, Assembling,
        Analyzing, Before

\* A triple that is parsed gives one of the platforms.
LEMMA TripleKnown == \A parts : parse_target_triple(parts) \in HOST_INFOS
<1> SUFFICES ASSUME NEW parts PROVE parse_target_triple(parts) \in HOST_INFOS
  OBVIOUS
<1>1. PLAT_INFO_UNKNOWN \in HOST_INFOS
  BY DEF PLAT_INFO_UNKNOWN, HOST_INFOS
<1>2. parse_arch(parts[1]) \in ARCH \cup {ARCH_UNKNOWN} /\ parse_os(parts[2]) \in OS \cup {OS_UNKNOWN}
  BY DEF parse_arch, parse_os, ARCH, ARCH_UNKNOWN, OS, OS_UNKNOWN
<1> QED BY <1>1, <1>2 DEF parse_target_triple, HOST_INFOS

\* Every step leads to a stage.
LEMMA StageStep ==
  ASSUME StageInv, [Next]_vars
  PROVE  StageInv'
<1> USE DEF StageInv
<1>1. CASE ParseArguments
  BY <1>1 DEF ParseArguments, driverVars
<1>2. CASE InvalidArguments \/ Crash
  BY <1>2 DEF InvalidArguments, Crash
<1>3. CASE parse_debug_commands_and_exit
  BY <1>3 DEF parse_debug_commands_and_exit
<1>4. CASE NoInput
  BY <1>4 DEF NoInput
<1>5. CASE compiler_config_init
  BY <1>5 DEF compiler_config_init, NoConfig
<1>6. CASE CheckToolchain
  BY <1>6 DEF CheckToolchain
<1>7. CASE CheckTarget
  BY <1>7 DEF CheckTarget
<1>8. CASE get_filereader_from_config
  BY <1>8 DEF get_filereader_from_config
<1>9. CASE LexExits
  BY <1>9 DEF LexExits
<1>10. CASE lexer_parse
  BY <1>10 DEF lexer_parse, Pass
<1>11. CASE ast_parse
  BY <1>11 DEF ast_parse, Pass
<1>12. CASE DestroyReader
  BY <1>12 DEF DestroyReader
<1>13. CASE semantic_analyzer_check
  BY <1>13 DEF semantic_analyzer_check, Pass
<1>14. CASE ReportErrors
  BY <1>14 DEF ReportErrors
<1>15. CASE PrintAssembly
  BY <1>15 DEF PrintAssembly, Emit
<1>16. CASE OpenTemporary
  BY <1>16 DEF OpenTemporary, create_named_tmpfile
<1>17. CASE OpenOutput
  BY <1>17 DEF OpenOutput
<1>18. CASE emit_x86
  BY <1>18 DEF emit_x86, Emit
<1>19. CASE CloseAssembly
  BY <1>19 DEF CloseAssembly
<1>20. CASE assembler_init
  BY <1>20 DEF assembler_init
<1>21. CASE assembler_is_available
  BY <1>21 DEF assembler_is_available
<1>22. CASE assembler_invoke
  BY <1>22 DEF assembler_invoke
<1>23. CASE Cleanup
  BY <1>23 DEF Cleanup
<1>24. CASE Return
  BY <1>24 DEF Return
<1>25. CASE Stopped
  BY <1>25 DEF Stopped, vars, argVars, driverVars
<1>26. CASE UNCHANGED vars
  BY <1>26 DEF vars, argVars, driverVars
<1> QED BY <1>1, <1>2, <1>3, <1>4, <1>5, <1>6, <1>7, <1>8, <1>9, <1>10, <1>11, <1>12, <1>13, <1>14, <1>15, <1>16, <1>17, <1>18, <1>19, <1>20, <1>21, <1>22, <1>23, <1>24, <1>25, <1>26 DEF Next

\* Only a target that passed its checks gets beyond them, and only without errors.
LEMMA TargetStep ==
  ASSUME StageInv, TargetInv, [Next]_vars
  PROVE  TargetInv'
<1> USE DEF StageInv, TargetInv, Supported
<1>1. CASE ParseArguments
  BY <1>1 DEF ParseArguments, driverVars
<1>2. CASE InvalidArguments \/ Crash
  BY <1>2 DEF InvalidArguments, Crash
<1>3. CASE parse_debug_commands_and_exit
  BY <1>3 DEF parse_debug_commands_and_exit
<1>4. CASE NoInput
  BY <1>4 DEF NoInput
<1>5. CASE compiler_config_init
  BY <1>5, TripleKnown DEF compiler_config_init, NoConfig
<1>6. CASE CheckToolchain
  BY <1>6 DEF CheckToolchain
<1>7. CASE CheckTarget
  BY <1>7 DEF CheckTarget, Unknown
<1>8. CASE get_filereader_from_config
  BY <1>8 DEF get_filereader_from_config
<1>9. CASE LexExits
  BY <1>9 DEF LexExits
<1>10. CASE lexer_parse
  BY <1>10 DEF lexer_parse, Pass
<1>11. CASE ast_parse
  BY <1>11 DEF ast_parse, Pass
<1>12. CASE DestroyReader
  BY <1>12 DEF DestroyReader
<1>13. CASE semantic_analyzer_check
  BY <1>13 DEF semantic_analyzer_check, Pass
<1>14. CASE ReportErrors
  <2>1. CASE errors /\ stage' = "cleanup"
    BY <1>14, <2>1 DEF ReportErrors
  <2>2. CASE ~ errors /\ stage' \in Opening
    <3>1. UNCHANGED <<config, errors, host, output>>
      BY <1>14 DEF ReportErrors
    <3>2. Supported(config.target) /\ output = "untouched"
      BY <1>14 DEF ReportErrors
    <3> QED BY <2>2, <3>1, <3>2
  <2> QED BY <1>14, <2>1, <2>2 DEF ReportErrors
<1>15. CASE PrintAssembly
  BY <1>15 DEF PrintAssembly, Emit
<1>16. CASE OpenTemporary
  BY <1>16 DEF OpenTemporary, create_named_tmpfile
<1>17. CASE OpenOutput
  <2>1. CASE stage' = "emit"
    BY <1>17, <2>1 DEF OpenOutput
  <2>2. CASE stage' = "cleanup"
    BY <1>17, <2>2 DEF OpenOutput
  <2> QED BY <1>17, <2>1, <2>2 DEF OpenOutput
<1>18. CASE emit_x86
  BY <1>18 DEF emit_x86, Emit
<1>19. CASE CloseAssembly
  BY <1>19 DEF CloseAssembly
<1>20. CASE assembler_init
  BY <1>20 DEF assembler_init
<1>21. CASE assembler_is_available
  <2>1. CASE stage' = "invoke"
    BY <1>21, <2>1 DEF assembler_is_available
  <2>2. CASE stage' = "cleanup"
    BY <1>21, <2>2 DEF assembler_is_available
  <2> QED BY <1>21, <2>1, <2>2 DEF assembler_is_available
<1>22. CASE assembler_invoke
  <2>1. stage' = "cleanup" /\ UNCHANGED <<config, errors, host>>
    BY <1>22 DEF assembler_invoke
  <2>2. Supported(config.target) /\ ~ errors
    BY <1>22 DEF assembler_invoke
  <2> QED BY <2>1, <2>2
<1>23. CASE Cleanup
  BY <1>23 DEF Cleanup
<1>24. CASE Return
  BY <1>24 DEF Return
<1>25. CASE Stopped
  BY <1>25 DEF Stopped, vars, argVars, driverVars
<1>26. CASE UNCHANGED vars
  BY <1>26 DEF vars, argVars, driverVars
<1> QED BY <1>1, <1>2, <1>3, <1>4, <1>5, <1>6, <1>7, <1>8, <1>9, <1>10, <1>11, <1>12, <1>13, <1>14, <1>15, <1>16, <1>17, <1>18, <1>19, <1>20, <1>21, <1>22, <1>23, <1>24, <1>25, <1>26 DEF Next

\* The exit code and the messages agree.
LEMMA ExitStep ==
  ASSUME StageInv, TargetInv, ExitInv, [Next]_vars
  PROVE  ExitInv'
<1> USE DEF StageInv, TargetInv, ExitInv
<1>1. CASE ParseArguments
  BY <1>1 DEF ParseArguments, driverVars
<1>2. CASE InvalidArguments \/ Crash
  BY <1>2 DEF InvalidArguments, Crash
<1>3. CASE parse_debug_commands_and_exit
  BY <1>3 DEF parse_debug_commands_and_exit
<1>4. CASE NoInput
  BY <1>4 DEF NoInput
<1>5. CASE compiler_config_init
  BY <1>5 DEF compiler_config_init
<1>6. CASE CheckToolchain
  BY <1>6 DEF CheckToolchain
<1>7. CASE CheckTarget
  BY <1>7 DEF CheckTarget
<1>8. CASE get_filereader_from_config
  BY <1>8 DEF get_filereader_from_config
<1>9. CASE LexExits
  BY <1>9 DEF LexExits
<1>10. CASE lexer_parse
  BY <1>10 DEF lexer_parse, Pass
<1>11. CASE ast_parse
  BY <1>11 DEF ast_parse, Pass
<1>12. CASE DestroyReader
  BY <1>12 DEF DestroyReader
<1>13. CASE semantic_analyzer_check
  BY <1>13 DEF semantic_analyzer_check, Pass
<1>14. CASE ReportErrors
  BY <1>14 DEF ReportErrors
<1>15. CASE PrintAssembly
  BY <1>15 DEF PrintAssembly, Emit
<1>16. CASE OpenTemporary
  BY <1>16 DEF OpenTemporary, create_named_tmpfile
<1>17. CASE OpenOutput
  BY <1>17 DEF OpenOutput
<1>18. CASE emit_x86
  BY <1>18 DEF emit_x86, Emit
<1>19. CASE CloseAssembly
  BY <1>19 DEF CloseAssembly
<1>20. CASE assembler_init
  BY <1>20 DEF assembler_init
<1>21. CASE assembler_is_available
  BY <1>21 DEF assembler_is_available
<1>22. CASE assembler_invoke
  BY <1>22 DEF assembler_invoke
<1>23. CASE Cleanup
  BY <1>23 DEF Cleanup
<1>24. CASE Return
  BY <1>24 DEF Return
<1>25. CASE Stopped
  BY <1>25 DEF Stopped, vars, argVars, driverVars
<1>26. CASE UNCHANGED vars
  BY <1>26 DEF vars, argVars, driverVars
<1> QED BY <1>1, <1>2, <1>3, <1>4, <1>5, <1>6, <1>7, <1>8, <1>9, <1>10, <1>11, <1>12, <1>13, <1>14, <1>15, <1>16, <1>17, <1>18, <1>19, <1>20, <1>21, <1>22, <1>23, <1>24, <1>25, <1>26 DEF Next

\* What is held is what the stage needs, and little more.
LEMMA HeldStep ==
  ASSUME StageInv, HeldInv, [Next]_vars
  PROVE  HeldInv'
<1> USE DEF StageInv, HeldInv, AtLeast, AtMost, Leaked, Unopened
<1>1. CASE ParseArguments
  BY <1>1 DEF ParseArguments, driverVars
<1>2. CASE InvalidArguments \/ Crash
  BY <1>2 DEF InvalidArguments, Crash
<1>3. CASE parse_debug_commands_and_exit
  BY <1>3 DEF parse_debug_commands_and_exit
<1>4. CASE NoInput
  BY <1>4 DEF NoInput
<1>5. CASE compiler_config_init
  BY <1>5 DEF compiler_config_init
<1>6. CASE CheckToolchain
  BY <1>6 DEF CheckToolchain
<1>7. CASE CheckTarget
  BY <1>7, ZenonT(40) DEF CheckTarget
<1>8. CASE get_filereader_from_config
  BY <1>8 DEF get_filereader_from_config
<1>9. CASE LexExits
  BY <1>9 DEF LexExits
<1>10. CASE lexer_parse
  BY <1>10 DEF lexer_parse, Pass
<1>11. CASE ast_parse
  BY <1>11 DEF ast_parse, Pass
<1>12. CASE DestroyReader
  BY <1>12 DEF DestroyReader
<1>13. CASE semantic_analyzer_check
  BY <1>13 DEF semantic_analyzer_check, Pass
<1>14. CASE ReportErrors
  BY <1>14 DEF ReportErrors
<1>15. CASE PrintAssembly
  BY <1>15 DEF PrintAssembly, Emit
<1>16. CASE OpenTemporary
  <2>1. PICK result \in {"asm_file", "nothing", "descriptor"} :
          /\ stage = "open" /\ exit = "running" /\ exit' = exit
          /\ held' = held \cup ({result} \ {"nothing"})
          /\ \/ result = "asm_file" /\ stage' = "emit" /\ said' = said
             \/ /\ result # "asm_file" /\ stage' = "cleanup"
                /\ said' = said \cup {"Could not create temporary file"}
    BY <1>16 DEF OpenTemporary, create_named_tmpfile
  <2>2. CASE result = "asm_file"
    BY <2>1, <2>2
  <2>3. CASE result # "asm_file"
    <3>1. Leaked' = {"tables", "descriptor"}
      BY <2>1, <2>3
    <3> QED BY <2>1, <2>3, <3>1
  <2> QED BY <2>2, <2>3
<1>17. CASE OpenOutput
  BY <1>17 DEF OpenOutput
<1>18. CASE emit_x86
  BY <1>18 DEF emit_x86, Emit
<1>19. CASE CloseAssembly
  BY <1>19 DEF CloseAssembly
<1>20. CASE assembler_init
  BY <1>20, ZenonT(40) DEF assembler_init
<1>21. CASE assembler_is_available
  BY <1>21, ZenonT(40) DEF assembler_is_available
<1>22. CASE assembler_invoke
  BY <1>22, ZenonT(40) DEF assembler_invoke
<1>23. CASE Cleanup
  BY <1>23 DEF Cleanup
<1>24. CASE Return
  BY <1>24 DEF Return
<1>25. CASE Stopped
  BY <1>25 DEF Stopped, vars, argVars, driverVars
<1>26. CASE UNCHANGED vars
  BY <1>26 DEF vars, argVars, driverVars
<1> QED BY <1>1, <1>2, <1>3, <1>4, <1>5, <1>6, <1>7, <1>8, <1>9, <1>10, <1>11, <1>12, <1>13, <1>14, <1>15, <1>16, <1>17, <1>18, <1>19, <1>20, <1>21, <1>22, <1>23, <1>24, <1>25, <1>26 DEF Next

\* The process ends with the status that its messages and files call for.
LEMMA StatusStep ==
  ASSUME StageInv, ExitInv, ExitStatusTrue, [Next]_vars
  PROVE  ExitStatusTrue'
<1> USE DEF StageInv, ExitInv, ExitStatusTrue, Asked, argVars
<1>1. CASE ParseArguments
  BY <1>1 DEF ParseArguments, driverVars
<1>2. CASE InvalidArguments \/ Crash
  BY <1>2 DEF InvalidArguments, Crash
<1>3. CASE parse_debug_commands_and_exit
  BY <1>3 DEF parse_debug_commands_and_exit, Before
<1>4. CASE NoInput
  BY <1>4 DEF NoInput
<1>5. CASE compiler_config_init
  BY <1>5 DEF compiler_config_init
<1>6. CASE CheckToolchain
  BY <1>6 DEF CheckToolchain
<1>7. CASE CheckTarget
  BY <1>7 DEF CheckTarget
<1>8. CASE get_filereader_from_config
  BY <1>8 DEF get_filereader_from_config
<1>9. CASE LexExits
  BY <1>9 DEF LexExits
<1>10. CASE lexer_parse
  BY <1>10 DEF lexer_parse, Pass
<1>11. CASE ast_parse
  BY <1>11 DEF ast_parse, Pass
<1>12. CASE DestroyReader
  BY <1>12 DEF DestroyReader
<1>13. CASE semantic_analyzer_check
  BY <1>13 DEF semantic_analyzer_check, Pass
<1>14. CASE ReportErrors
  BY <1>14 DEF ReportErrors
<1>15. CASE PrintAssembly
  BY <1>15 DEF PrintAssembly, Emit
<1>16. CASE OpenTemporary
  BY <1>16 DEF OpenTemporary, create_named_tmpfile
<1>17. CASE OpenOutput
  BY <1>17 DEF OpenOutput
<1>18. CASE emit_x86
  BY <1>18 DEF emit_x86, Emit
<1>19. CASE CloseAssembly
  BY <1>19 DEF CloseAssembly
<1>20. CASE assembler_init
  BY <1>20 DEF assembler_init
<1>21. CASE assembler_is_available
  BY <1>21 DEF assembler_is_available
<1>22. CASE assembler_invoke
  BY <1>22 DEF assembler_invoke
<1>23. CASE Cleanup
  BY <1>23 DEF Cleanup
<1>24. CASE Return
  BY <1>24 DEF Return
<1>25. CASE Stopped
  BY <1>25 DEF Stopped, vars, argVars, driverVars
<1>26. CASE UNCHANGED vars
  BY <1>26 DEF vars, argVars, driverVars
<1> QED BY <1>1, <1>2, <1>3, <1>4, <1>5, <1>6, <1>7, <1>8, <1>9, <1>10, <1>11, <1>12, <1>13, <1>14, <1>15, <1>16, <1>17, <1>18, <1>19, <1>20, <1>21, <1>22, <1>23, <1>24, <1>25, <1>26 DEF Next

\* The command line is scanned by one step, and left alone by all others.
LEMMA ScanningOnly ==
  ASSUME [Next]_vars
  PROVE  (ParseNext /\ UNCHANGED driverVars) \/ UNCHANGED <<argVars, host>>
<1>1. CASE ParseArguments
  BY <1>1 DEF ParseArguments, driverVars
<1>2. CASE InvalidArguments \/ Crash
  BY <1>2 DEF InvalidArguments, Crash
<1>3. CASE parse_debug_commands_and_exit
  BY <1>3 DEF parse_debug_commands_and_exit
<1>4. CASE NoInput
  BY <1>4 DEF NoInput
<1>5. CASE compiler_config_init
  BY <1>5 DEF compiler_config_init
<1>6. CASE CheckToolchain
  BY <1>6 DEF CheckToolchain
<1>7. CASE CheckTarget
  BY <1>7 DEF CheckTarget
<1>8. CASE get_filereader_from_config
  BY <1>8 DEF get_filereader_from_config
<1>9. CASE LexExits
  BY <1>9 DEF LexExits
<1>10. CASE lexer_parse
  BY <1>10 DEF lexer_parse, Pass
<1>11. CASE ast_parse
  BY <1>11 DEF ast_parse, Pass
<1>12. CASE DestroyReader
  BY <1>12 DEF DestroyReader
<1>13. CASE semantic_analyzer_check
  BY <1>13 DEF semantic_analyzer_check, Pass
<1>14. CASE ReportErrors
  BY <1>14 DEF ReportErrors
<1>15. CASE PrintAssembly
  BY <1>15 DEF PrintAssembly, Emit
<1>16. CASE OpenTemporary
  BY <1>16 DEF OpenTemporary, create_named_tmpfile
<1>17. CASE OpenOutput
  BY <1>17 DEF OpenOutput
<1>18. CASE emit_x86
  BY <1>18 DEF emit_x86, Emit
<1>19. CASE CloseAssembly
  BY <1>19 DEF CloseAssembly
<1>20. CASE assembler_init
  BY <1>20 DEF assembler_init
<1>21. CASE assembler_is_available
  BY <1>21 DEF assembler_is_available
<1>22. CASE assembler_invoke
  BY <1>22 DEF assembler_invoke
<1>23. CASE Cleanup
  BY <1>23 DEF Cleanup
<1>24. CASE Return
  BY <1>24 DEF Return
<1>25. CASE Stopped
  BY <1>25 DEF Stopped, vars, argVars, driverVars
<1>26. CASE UNCHANGED vars
  BY <1>26 DEF vars, argVars, driverVars
<1> QED BY <1>1, <1>2, <1>3, <1>4, <1>5, <1>6, <1>7, <1>8, <1>9, <1>10, <1>11, <1>12, <1>13, <1>14, <1>15, <1>16, <1>17, <1>18, <1>19, <1>20, <1>21, <1>22, <1>23, <1>24, <1>25, <1>26 DEF Next

\* Files, errors and what is held take only these values.
LEMMA TypeStep ==
  ASSUME StageInv, TargetInv, TypeInv, [Next]_vars
  PROVE  TypeInv'
<1>0. spec' = FLAG_SPEC(host)'
  <2>1. spec' = spec /\ host' = host
    <3>1. CASE ParseNext /\ UNCHANGED driverVars
      BY <3>1 DEF driverVars, ParseNext, LongFlag, ShortFlags, ShortFlag, Positional, EndOfOptions, FinishParsing
    <3>2. CASE UNCHANGED <<argVars, host>>
      BY <3>2 DEF argVars
    <3> QED BY <3>1, <3>2, ScanningOnly
  <2> QED BY <2>1 DEF TypeInv
<1> DEFINE Files == /\ errors \in BOOLEAN /\ lost \in BOOLEAN
                    /\ asm \in {"none", "partial", "whole"} /\ output \in {"untouched", "partial", "whole"}
                    /\ held \subseteq HeldNames
                    /\ ~ config.emit_asm /\ stage \in Writing \cup Assembling => asm # "none"
<1> SUFFICES ASSUME Files PROVE Files'
  BY <1>0 DEF TypeInv
<1> USE DEF HeldNames
<1>1. CASE ParseArguments
  BY <1>1 DEF ParseArguments, driverVars
<1>2. CASE InvalidArguments \/ Crash
  BY <1>2 DEF InvalidArguments, Crash
<1>3. CASE parse_debug_commands_and_exit
  BY <1>3 DEF parse_debug_commands_and_exit
<1>4. CASE NoInput
  BY <1>4 DEF NoInput
<1>5. CASE compiler_config_init
  BY <1>5 DEF compiler_config_init
<1>6. CASE CheckToolchain
  BY <1>6 DEF CheckToolchain
<1>7. CASE CheckTarget
  BY <1>7 DEF CheckTarget
<1>8. CASE get_filereader_from_config
  BY <1>8 DEF get_filereader_from_config
<1>9. CASE LexExits
  BY <1>9 DEF LexExits
<1>10. CASE lexer_parse
  BY <1>10 DEF lexer_parse, Pass
<1>11. CASE ast_parse
  BY <1>11 DEF ast_parse, Pass
<1>12. CASE DestroyReader
  BY <1>12 DEF DestroyReader
<1>13. CASE semantic_analyzer_check
  BY <1>13 DEF semantic_analyzer_check, Pass
<1>14. CASE ReportErrors
  BY <1>14 DEF ReportErrors
<1>15. CASE PrintAssembly
  BY <1>15 DEF PrintAssembly, Emit
<1>16. CASE OpenTemporary
  BY <1>16 DEF OpenTemporary, create_named_tmpfile
<1>17. CASE OpenOutput
  BY <1>17 DEF OpenOutput
<1>18. CASE emit_x86
  BY <1>18 DEF emit_x86, Emit
<1>19. CASE CloseAssembly
  BY <1>19 DEF CloseAssembly
<1>20. CASE assembler_init
  BY <1>20 DEF assembler_init
<1>21. CASE assembler_is_available
  BY <1>21 DEF assembler_is_available
<1>22. CASE assembler_invoke
  <2>1. asm \in {"partial", "whole"}
    BY <1>22 DEF assembler_invoke, TargetInv
  <2> QED BY <1>22, <2>1 DEF assembler_invoke
<1>23. CASE Cleanup
  BY <1>23 DEF Cleanup
<1>24. CASE Return
  BY <1>24 DEF Return
<1>25. CASE Stopped
  BY <1>25 DEF Stopped, vars, argVars, driverVars
<1>26. CASE UNCHANGED vars
  BY <1>26 DEF vars, argVars, driverVars
<1> QED BY <1>1, <1>2, <1>3, <1>4, <1>5, <1>6, <1>7, <1>8, <1>9, <1>10, <1>11, <1>12, <1>13, <1>14, <1>15, <1>16, <1>17, <1>18, <1>19, <1>20, <1>21, <1>22, <1>23, <1>24, <1>25, <1>26 DEF Next

\* The flags of every build have names of their own, and none is required.
LEMMA FlagSpecApart == \A h : FlagsApart(FLAG_SPEC(h))
<1> SUFFICES ASSUME NEW h PROVE FlagsApart(FLAG_SPEC(h))
  OBVIOUS
<1> DEFINE F == {FLAG("c", "code"), FLAG("h", "help"), FLAG("v", "verbose"), FLAG_WITH_VALUE("o", "output-file"),
                 FLAG("i", "host-info"), FLAG("a", "emit-asm"), FLAG_WITH_VALUE("t", "target"),
                 FLAG("l", "list-targets")}
<1>1. FLAG_SPEC(h) \subseteq F
  BY DEF FLAG_SPEC
<1>2. \A f \in F : f.is_required = FALSE /\ f.long_name # "?"
  BY DEF FLAG, FLAG_WITH_VALUE
<1>3. \A f, g \in F : f.long_name = g.long_name \/ f.short_name = g.short_name => f = g
  <2> DEFINE Only(f) == \A g \in F : f.long_name = g.long_name \/ f.short_name = g.short_name => f = g
  <2>1. Only(FLAG("c", "code"))
    BY DEF FLAG, FLAG_WITH_VALUE
  <2>2. Only(FLAG("h", "help"))
    BY DEF FLAG, FLAG_WITH_VALUE
  <2>3. Only(FLAG("v", "verbose"))
    BY DEF FLAG, FLAG_WITH_VALUE
  <2>4. Only(FLAG_WITH_VALUE("o", "output-file"))
    BY DEF FLAG, FLAG_WITH_VALUE
  <2>5. Only(FLAG("i", "host-info"))
    BY DEF FLAG, FLAG_WITH_VALUE
  <2>6. Only(FLAG("a", "emit-asm"))
    BY DEF FLAG, FLAG_WITH_VALUE
  <2>7. Only(FLAG_WITH_VALUE("t", "target"))
    BY DEF FLAG, FLAG_WITH_VALUE
  <2>8. Only(FLAG("l", "list-targets"))
    BY DEF FLAG, FLAG_WITH_VALUE
  <2> QED BY <2>1, <2>2, <2>3, <2>4, <2>5, <2>6, <2>7, <2>8
<1> QED BY <1>1, <1>2, <1>3 DEF FlagsApart

-----------------------------------------------------------------------------
LEMMA DriverInit == Init => DInv
<1> SUFFICES ASSUME Init PROVE DInv
  OBVIOUS
<1>1. host \in HOST_INFOS /\ config.target \in HOST_INFOS
  BY HostAssumption DEF Init, NoConfig, PLAT_INFO_UNKNOWN, HOST_INFOS
<1>2. StageInv /\ TargetInv
  BY <1>1 DEF Init, StageInv, TargetInv
<1>3. ExitInv /\ ExitStatusTrue
  BY DEF Init, ExitInv, ExitStatusTrue
<1>4. HeldInv
  BY DEF Init, HeldInv, AtLeast, AtMost
<1>5. TypeInv
  BY DEF Init, TypeInv, ParseInit, HeldNames
<1>6. ParseInv
  <2>1. ParseInit(FLAG_SPEC(host)) /\ FlagsApart(FLAG_SPEC(host))
    BY FlagSpecApart DEF Init
  <2> QED BY <2>1, ParseStart
<1> QED BY <1>2, <1>3, <1>4, <1>5, <1>6 DEF DInv

LEMMA DriverNext == DInv /\ [Next]_vars => DInv'
<1> SUFFICES ASSUME DInv, [Next]_vars PROVE DInv'
  OBVIOUS
<1>1. ParseInv'
  <2>1. ParseInv
    BY DEF DInv
  <2>2. CASE ParseNext
    BY <2>1, <2>2, ParseStep
  <2>3. CASE UNCHANGED argVars
    BY <2>1, <2>3, ParseKept
  <2> QED BY <2>2, <2>3, ScanningOnly
<1> QED BY <1>1, StageStep, TargetStep, ExitStep, HeldStep, StatusStep, TypeStep DEF DInv

LEMMA DriverInv == Spec => []DInv
BY DriverInit, DriverNext, PTL DEF Spec

\* Success is silent and means that the output is there, unless a close lost the
\* end of it; failure is never silent: for every command line, build and failure
\* of the environment (compiler.c:105-293, main.c:44-80).
THEOREM StatusIsTrue == Spec => []ExitStatusTrue
<1>1. DInv => ExitStatusTrue
  BY DEF DInv
<1> QED BY <1>1, DriverInv, PTL

\* A platform that is supported has a convention in the emitter.
LEMMA SupportedHasConvention ==
  \A target \in HOST_INFOS : Supported(target) => HasConvention(target)
<1> SUFFICES ASSUME NEW arch \in ARCH \cup {ARCH_UNKNOWN}, NEW os \in OS \cup {OS_UNKNOWN},
                    Supported(PlatformInfo(arch, os))
             PROVE  HasConvention(PlatformInfo(arch, os))
  BY DEF HOST_INFOS
<1>1. arch = "x86_64" /\ os \in {"windows", "linux"}
  BY DEF Supported, PlatformInfo, SUPPORTED_OS, SUPPORTED_ARCH
<1>2. get_abi_from_os(os) \in {"MS", "SYSV"}
  BY <1>1 DEF get_abi_from_os
<1> QED BY <1>1, <1>2 DEF HasConvention, PlatformInfo

\* Nor does the choice of the assembler fail for it.
LEMMA SupportedHasAssembler == Supported(config.target) => gcc_command # "none"
BY Zenon DEF Supported, SUPPORTED_OS, SUPPORTED_ARCH, gcc_command, IsX86_64

\* The user's file is touched, and code emitted, only for a program without errors
\* and a target that emitter and assembler know, whatever the host and whatever
\* follows -t (compiler.c:121-153 and 185-244, platform.c:66-79, assembly.c:3-31).
THEOREM OutputIsGuarded == Spec => []OutputGuarded
<1>1. DInv => OutputGuarded
  <2> SUFFICES ASSUME StageInv, TargetInv PROVE OutputGuarded
    BY DEF DInv
  <2>1. ASSUME output # "untouched" \/ stage \in Opening \cup Writing \cup {"assembler"}
        PROVE  ~ errors /\ Supported(config.target)
    BY <2>1 DEF TargetInv
  <2>2. ASSUME output # "untouched" \/ stage \in Opening \cup Writing \cup {"assembler"}
        PROVE  HasConvention(config.target) /\ gcc_command # "none"
    BY <2>1, <2>2, SupportedHasConvention, SupportedHasAssembler DEF TargetInv
  <2>3. ASSUME ~ config.emit_asm, stage \in Opening \cup Writing \cup {"assembler", "available"}
        PROVE  output = "untouched"
    BY <2>3 DEF TargetInv
  <2> QED BY <2>1, <2>2, <2>3 DEF OutputGuarded
<1> QED BY <1>1, DriverInv, PTL

\* Nothing is used before it is made, after it is released or released twice on any
\* path, and what main leaves behind is at most the tables and a descriptor
\* (compiler.c:185-190, 223-247 and 288-292).
THEOREM ResourcesAreRight == Spec => []ResourcesRight
<1>1. DInv => ResourcesRight
  <2> SUFFICES ASSUME StageInv, HeldInv PROVE ResourcesRight
    BY DEF DInv
  <2>1. Needs[stage] \subseteq AtLeast(stage)
    BY DEF StageInv, Needs, AtLeast
  <2> QED BY <2>1 DEF ResourcesRight, HeldInv, Leaked
<1> QED BY <1>1, DriverInv, PTL

\* Whatever the command line, the build and the failures, the driver keeps its types,
\* and fills no more named arguments than there are (arg_parse.c:186-336).
THEOREM TypesAreRight == Spec => []TypeOK
<1>1. DInv => TypeOK
  <2> SUFFICES ASSUME DInv PROVE TypeOK
    OBVIOUS
  <2>1. ArgTypes
    BY DEF DInv, ParseInv
  <2> QED BY <2>1 DEF DInv, ArgTypes, TypeInv, StageInv, TargetInv, ExitInv, TypeOK, HeldNames
<1> QED BY <1>1, DriverInv, PTL

\* Every command line is accepted exactly if it is well-formed, and then each of its
\* words has the place that a reading of the whole line gives it, for every number of
\* names for positional arguments (arg_parse.c:186-336).
THEOREM CommandLineParsedAsMeant == Spec => []ParsedAsMeant
<1>1. DInv => ParsedAsMeant
  BY DEF DInv, ParseInv
<1> QED BY <1>1, DriverInv, PTL
=============================================================================
