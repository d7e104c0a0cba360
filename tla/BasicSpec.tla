----------------------------- MODULE BasicSpec ------------------------------
(***************************************************************************)
(* What cyBASIC does with a program, without its list of nodes: a program  *)
(* is a function from the numbers of its lines to their texts.  A run goes *)
(* from a line to the one with the next number, a line that jumps to n     *)
(* goes on behind line n when it is done, and only a faulty line or a jump *)
(* to no line ends the run early.                                          *)
(***************************************************************************)
EXTENDS Integers

CONSTANTS Numbers, Texts,
          Faulty,       \* the texts the interpreter refuses
          Jumps(_)      \* the numbers a text may jump to

VARIABLES program, at,  \* the line that runs, or 0
          behind        \* the line the run goes on behind

vars == <<program, at, behind>>

Least(S) == CHOOSE n \in S : \A m \in S : n <= m
Following(n) ==
    LET later == {m \in DOMAIN program : m > n} IN IF later = {} THEN 0 ELSE Least(later)

GoOn(n) == at' = Following(n) /\ behind' = Following(n)

Init == program = << >> /\ at = 0 /\ behind = 0

Edit ==
    /\ at = 0 /\ UNCHANGED <<at, behind>>
    /\ \/ \E n \in Numbers, text \in Texts :
              program' = [m \in DOMAIN program \cup {n} |->
                              IF m = n THEN text ELSE program[m]]
       \/ \E n \in DOMAIN program :
              program' = [m \in DOMAIN program \ {n} |-> program[m]]
       \/ program' = << >>

Run == at = 0 /\ GoOn(0) /\ UNCHANGED program

Jump ==
    /\ at # 0
    /\ behind' \in Jumps(program[at]) \cap DOMAIN program
    /\ UNCHANGED <<program, at>>

Continue == at # 0 /\ GoOn(behind) /\ UNCHANGED program

Stop ==
    /\ at # 0
    /\ program[at] \in Faulty \/ ~ Jumps(program[at]) \subseteq DOMAIN program
    /\ at' = 0 /\ behind' = 0
    /\ UNCHANGED program

Next == Edit \/ Run \/ Jump \/ Continue \/ Stop

Spec == Init /\ [][Next]_vars
=============================================================================
