------------------------------ MODULE HeapSpec ------------------------------
(***************************************************************************)
(* What a caller of kmalloc, kfree and krealloc may rely on, whatever the  *)
(* allocator keeps: held maps every pointer the callers hold to the number *)
(* of bytes they asked for behind it.  A pointer handed out is aligned,    *)
(* not null, and its bytes are nobody else's.                              *)
(***************************************************************************)
EXTENDS Integers

CONSTANTS Requests      \* the sizes callers ask for

VARIABLE held

\* The n bytes at p and the bytes behind pointer q have none in common.
Apart(p, n, q) == p + n <= q \/ q + held[q] <= p

Malloc ==
    \E n \in Requests, p \in DOMAIN held' \ DOMAIN held :
        /\ p > 0 /\ p % 4 = 0
        /\ \A q \in DOMAIN held : Apart(p, n, q)
        /\ held' = [q \in DOMAIN held \cup {p} |-> IF q = p THEN n ELSE held[q]]

Free ==
    \E p \in DOMAIN held : held' = [q \in DOMAIN held \ {p} |-> held[q]]

\* The bytes are enlarged or cut down where they are.
Resize ==
    \E p \in DOMAIN held, n \in Requests :
        /\ \A q \in DOMAIN held \ {p} : Apart(p, n, q)
        /\ held' = [held EXCEPT ![p] = n]

\* The bytes move: the new ones were nobody's, not even the caller's old ones.
Move ==
    \E p \in DOMAIN held, n \in Requests, r \in DOMAIN held' \ DOMAIN held :
        /\ r > 0 /\ r % 4 = 0
        /\ \A q \in DOMAIN held : Apart(r, n, q)
        /\ held' = [q \in (DOMAIN held \ {p}) \cup {r} |->
                        IF q = r THEN n ELSE held[q]]

HeapInit == held = << >>

HeapNext == Malloc \/ Free \/ Resize \/ Move

HeapSpecification == HeapInit /\ [][HeapNext]_held
=============================================================================
