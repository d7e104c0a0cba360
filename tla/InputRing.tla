------------------------------ MODULE InputRing ------------------------------
(***************************************************************************)
(* The keyboard buffer, kernel/inbuffer.c, between the keyboard interrupt  *)
(* and the code that waits for a character: TTYRead in a system call       *)
(* (interrupts stay enabled in it), or scanl at the kernel's prompt.       *)
(* The kernel is built without optimisation (Makefile), so the reader      *)
(* loads and stores the indices where the source does, and an interrupt    *)
(* may come between any two of these.  A character is its number.          *)
(***************************************************************************)
EXTENDS Integers

CONSTANTS Size,      \* INPUT_BUFFER_SIZE
          MaxTyped   \* bound: characters typed

ASSUME InputRingAssumption == Size \in Nat /\ Size > 1 /\ MaxTyped \in Nat

VARIABLES inputBuffer, bufferStart, bufferEnd,
          pc,     \* where the reader is in InBufferGetC
          c,      \* its local variable
          typed,  \* how many characters have been typed
          last    \* the character it returned last

vars == <<inputBuffer, bufferStart, bufferEnd, pc, c, typed, last>>

Places == 0 .. Size - 1

After(i) == (i + 1) % Size

Init ==
    /\ inputBuffer = [i \in Places |-> 0]
    /\ bufferStart = 0
    /\ bufferEnd = 0
    /\ pc = "wait"
    /\ c = 0
    /\ typed = 0
    /\ last = 0

\* The interrupt; whether there is room is not asked.
InBufferPutC ==
    /\ typed < MaxTyped
    /\ typed' = typed + 1
    /\ inputBuffer' = [inputBuffer EXCEPT ![bufferEnd] = typed + 1]
    /\ bufferEnd' = After(bufferEnd)
    /\ UNCHANGED <<bufferStart, pc, c, last>>

\* Mutant: the reader does not wait.
Pending_Always == TRUE

\* Mutant: the end is expected above the start.
Pending_Above == bufferStart < bufferEnd

Pending == bufferStart # bufferEnd

\* while (bufferStart == bufferEnd);
Wait ==
    /\ pc = "wait"
    /\ Pending
    /\ pc' = "read"
    /\ UNCHANGED <<inputBuffer, bufferStart, bufferEnd, c, typed, last>>

Read ==
    /\ pc = "read"
    /\ c' = inputBuffer[bufferStart]
    /\ pc' = "advance"
    /\ UNCHANGED <<inputBuffer, bufferStart, bufferEnd, typed, last>>

\* The index moves and the character is returned.
Advance ==
    /\ pc = "advance"
    /\ bufferStart' = After(bufferStart)
    /\ last' = c
    /\ pc' = "wait"
    /\ UNCHANGED <<inputBuffer, bufferEnd, c, typed>>

InBufferGetC == Wait \/ Read \/ Advance

Next == InBufferPutC \/ InBufferGetC

Spec == Init /\ [][Next]_vars

-----------------------------------------------------------------------------
\* A character a program reads was typed after the one it read before: none
\* comes twice or out of order, though interrupts may go round the buffer
\* between the reader's three steps.  While the reader is less than Size
\* characters behind, it misses none (kernel/inbuffer.c:10-20).
Queue == INSTANCE KeyQueue
Implements == Queue!Spec
=============================================================================
