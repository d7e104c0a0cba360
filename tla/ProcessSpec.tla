---------------------------- MODULE ProcessSpec ----------------------------
(***************************************************************************)
(* What the process layer promises its programs: every process has pages   *)
(* nobody else has, a caller sleeps until the process it started is over,  *)
(* and finds its memory as it left it.                                     *)
(***************************************************************************)
EXTENDS Integers

CONSTANTS Nobody,   \* the kernel itself, which starts the first process
          Stack,    \* the pages of a stack
          NoFrame   \* the page a process gets when the memory is exhausted

VARIABLES running,  \* the process on the CPU
          caller,   \* of each live process, who waits for it
          space     \* of each live process, its pages and their frames

vars == <<running, caller, space>>

Init ==
    /\ running = Nobody
    /\ caller = << >>
    /\ space = << >>

Live == DOMAIN space

FramesOf(m) == {m[page] : page \in DOMAIN m} \ {NoFrame}

Taken == UNION {FramesOf(space[p]) : p \in Live}

With(f, x, v) == [y \in DOMAIN f \cup {x} |-> IF y = x THEN v ELSE f[y]]
Without(f, x) == [y \in DOMAIN f \ {x} |-> f[y]]

\* p begins with the memory m, of its own, and the process running waits.
Start(p, m) ==
    /\ p \notin Live
    /\ Stack \subseteq DOMAIN m
    /\ FramesOf(m) \cap Taken = {}
    /\ \A a, b \in DOMAIN m : m[a] = m[b] /\ m[a] # NoFrame => a = b
    /\ running' = p
    /\ caller' = With(caller, p, running)
    /\ space' = With(space, p, m)

\* The running process gets a page, in the place of another one if it had
\* one there; its stack stays.
Map(page, frame) ==
    /\ running \in Live
    /\ page \notin Stack
    /\ frame \notin Taken
    /\ space' = [space EXCEPT ![running] = With(@, page, frame)]
    /\ UNCHANGED <<running, caller>>

\* The running process is over: its caller goes on.
Exit ==
    /\ running \in Live
    /\ running' = caller[running]
    /\ caller' = Without(caller, running)
    /\ space' = Without(space, running)

Next ==
    \/ \E p \in (DOMAIN space') \ Live : Start(p, space'[p])
    \/ running \in DOMAIN space' /\ \E page \in DOMAIN space'[running] :
           Map(page, space'[running][page])
    \/ Exit

Spec == Init /\ [][Next]_vars
=============================================================================
