------------------------------- MODULE MCDriver -------------------------------
(***************************************************************************)
(* Command lines of all short combinations of words, and some longer ones. *)
(***************************************************************************)
EXTENDS Driver, SequencesExt

CONSTANT MaxWords

Short(letters) == [kind |-> "short", letters |-> letters]
Long(name) == [kind |-> "long", name |-> name]
Plain(parts) == [kind |-> "plain", parts |-> parts]
Triples == {Plain(<<"x64", "windows">>), Plain(<<"x86_64", "linux", "gnu">>), Plain(<<"i386", "linux">>),
            Plain(<<"x86_64", "macos">>), Plain(<<"vax", "linux">>), Plain(<<"x86_64">>)}
Program == Plain(<<"prog.bas">>)
Words == {Short(<<"v">>), Short(<<"o">>), Short(<<"a", "c">>), Short(<<"a", "t">>), Short(<<"t", "a">>),
          Short(<<"x">>), Long("help"), Long("output-file"), Long("emit-asm"), Long("nope"),
          Long("target"), [kind |-> "end"], [kind |-> "dash"], Program}
MCCommandLines ==
  BoundedSeq(Words, MaxWords)
  \cup {<<t, triple, Program>> : t \in {Long("target"), Short(<<"v", "t">>)}, triple \in Triples}
  \cup {<<Short(<<"a", "t">>), triple, Short(<<"o">>), Plain(<<"out">>), Short(<<"o">>), Plain(<<"out2">>),
          Program>> : triple \in Triples}

MCHosts == {PlatformInfo("x86_64", os) : os \in OS \cup {OS_UNKNOWN}}
           \cup {PlatformInfo(arch, "linux") : arch \in {"x86", ARCH_UNKNOWN}}
=============================================================================
