------------------------------ MODULE KeyQueue ------------------------------
(***************************************************************************)
(* What the reader of the keyboard may rely on.  Characters are numbered   *)
(* as they are typed.  They are delivered in that order, each at most      *)
(* once, and one is passed over only after the reader fell behind by as    *)
(* many as the buffer has places.                                          *)
(***************************************************************************)
EXTENDS Integers

CONSTANT Size   \* places of the buffer

VARIABLES typed,  \* how many characters have been typed
          last    \* the one delivered last

vars == <<typed, last>>

Init == typed = 0 /\ last = 0

Type ==
    /\ typed' = typed + 1
    /\ UNCHANGED last

Deliver ==
    /\ last' \in last + 1 .. typed
    /\ last' # last + 1 => typed - last >= Size
    /\ UNCHANGED typed

Next == Type \/ Deliver

Spec == Init /\ [][Next]_vars
=============================================================================
