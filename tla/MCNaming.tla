------------------------------ MODULE MCNaming ------------------------------
(***************************************************************************)
(* Machines and paths for the run of Naming.  A text has twelve characters *)
(* and its end, a part three, and a path four parts.                       *)
(***************************************************************************)
EXTENDS Naming

B == <<"b">>
L == <<"l">>
I == <<"i">>
P == <<"p">>
Long == <<"a", "b", "c">>
AB == <<"a", "b">>

Path(volume, rooted, names) ==
    [volume |-> volume, pieces |-> (IF rooted THEN << << >> >> ELSE << >>) \o (IF names = << >> THEN << << >> >> ELSE names)]

\* A directory with a program and a directory of the same name further in;
\* directories too deep for a path, and one whose name fills a part.
Data == [dirs |-> {<<B>>, <<L>>, <<B, L>>, <<B, L, B>>, <<B, L, B, L>>, <<L, I>>, <<Long>>, <<Long, Long>>, <<Long, Long, B>>,
                  <<AB>>, <<AB, AB>>, <<AB, AB, AB>>},
         programs |-> {<<B, I>>, <<B, L, I>>, <<Long, I>>, <<B, L, P>>}]
Small == [dirs |-> {<<B>>}, programs |-> {<<B, I>>}]
Loader == [dirs |-> {<<L>>}, programs |-> {<<L, I>>}]

Entry(type, start, holds) == [type |-> type, start |-> start, holds |-> holds]
Empty == Entry("empty", 0, NoVolume)
Table(a, b, c) == [sector0 |-> "mbr", table |-> <<a, b, c>>]
FatEntry(files) == Entry("fat", 1, files)

\* The image the Makefile builds; partitions that do not count, and more that
\* do than there are numbers; one that counts and holds nothing, and a blank
\* drive; a drive that is one volume.
Image == <<Table(FatEntry(Loader), FatEntry(Data), Empty), Absent>>
Spread == <<Table(Entry("extended", 1, NoVolume), FatEntry(Loader), Entry("linux", 1, NoVolume)),
            Table(FatEntry(Small), FatEntry(Small), FatEntry(Small))>>
Foreign == <<Table(Entry("other", 1, NoVolume), Empty, FatEntry(Small)), [sector0 |-> "blank"]>>
Bare == <<[sector0 |-> "bare", whole |-> Loader], Table(FatEntry(Small), Empty, Empty)>>

\* Drives have the numbers from 0.
Attached(pair) == [d \in 0 .. 1 |-> pair[d + 1]]
MCMachines == {Attached(pair) : pair \in {Image, Spread, Foreign, Bare}}

MCAsked ==
    [chdir |-> {Path("1", TRUE, << >>), Path("", TRUE, <<B, L, B>>), Path("", FALSE, <<L, DotDot, B>>),
                Path("", FALSE, <<L>>), Path("", FALSE, <<DotDot>>), Path("", FALSE, <<DotDot, DotDot, DotDot>>),
                Path("1", TRUE, <<Long, Long, B>>), Path("1", TRUE, <<AB, AB, AB, B>>)},
     opendir |-> {Path("0", TRUE, << >>), Path("1", TRUE, << >>)},
     stat |-> {Path("1", FALSE, <<B>>), Path("", FALSE, <<Dot>>)},
     open |-> {Path("", TRUE, << <<>>, B, << >>, I>>), Path("2", TRUE, <<L>>)},
     exec |-> {Path("", FALSE, <<I>>)}]

MCCommands == {Path("", FALSE, <<P>>), Path("", FALSE, <<I>>), Path("", FALSE, <<Dot, I>>), Path("1", TRUE, <<B, I>>)}
MCSearchPath == <<Path("1", TRUE, <<L>>), Path("1", TRUE, <<B>>)>>
MCFirstProgram == Path("1", TRUE, <<B, I>>)
=============================================================================
