------------------------------ MODULE MCBasic ------------------------------
(* Three line numbers, and texts that print, set a variable and jump to it, *)
(* jump and go on, are empty, have an unknown keyword or a misplaced        *)
(* operator, or never end; the heap has the sizes of the code.              *)
EXTENDS Basic

Id(k) == <<"id", k>>
Num(n) == <<"num", n>>

Unknown == << Num(5), Id("PUT") >>
MissingEquals == << Id("LET"), Id("A"), Num(20) >>
PrintSum == << Id("PRINT"), Id("A"), <<"op", "+">>, Num(20) >>
Loop == << Id("PRINT"), <<"string">>, <<"bad">> >>

MCTexts == {
    << >>,
    << Id("PRINT"), Id("A"), Num(10), Id("GOTO") >>,
    << Id("LET"), Id("A"), <<"op", "=">>, Num(20), Id("GOTO"), Id("A") >>,
    << Id("GOTO"), Num(10), <<"string">>, Id("GOTO"), Num(30) >>,
    Unknown, MissingEquals, PrintSum, Loop}

MCEnvSizes == <<8, 15>>

ASSUME MCAssumption == Faulty = {Unknown, MissingEquals, PrintSum}
=============================================================================
