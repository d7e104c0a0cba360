----------------------------- MODULE UserMalloc -----------------------------
(***************************************************************************)
(* The heap of the C library, malloc and free of usr/lib/stdlib.c.  It     *)
(* keeps the same list as the kernel's, but takes its memory from sbrk     *)
(* block by block: the heap is empty until the first request, and a walk   *)
(* that ends at the last block, free or not, appends a block in use.  That *)
(* sbrk may fail is not asked, so here it does not.                        *)
(***************************************************************************)
EXTENDS BlockList

CONSTANT HeapStart   \* where the program break is at first

ASSUME UserMallocAssumption == HeapStart \in Nat \ {0}

VARIABLES hdr,   \* the block headers reachable from heapHead
          brk    \* the program break, kept by the kernel

heapVars == <<hdr, brk>>

Payload(b) == b + HeaderSize
HeaderOf(p) == p - HeaderSize

HeapInit == hdr = << >> /\ brk = HeapStart

\* What sbrk(n) returns is the break before it.
sbrk(n) == brk' = brk + n

\* if (!heapHead)
FirstBlock(p, n) ==
    /\ hdr = << >>
    /\ p = Payload(brk) /\ sbrk(HeaderSize + n)
    /\ hdr' = [b \in {brk} |-> [size |-> n, free |-> FALSE, next |-> NULL, prev |-> NULL]]

\* The walk finds a free block that is large enough.
ReuseBlock(p, n) ==
    \E b \in DOMAIN hdr :
        /\ FirstFit(hdr, b, n)
        /\ p = Payload(b)
        /\ hdr' = Take(hdr, b, n)
        /\ UNCHANGED brk

\* The walk ends; what sbrk returns lies behind the last block.
NewBlock(p, n) ==
    \E b \in DOMAIN hdr :
        /\ NoFit(hdr, n) /\ Last(hdr, b)
        /\ p = Payload(End(hdr, b)) /\ sbrk(HeaderSize + n)
        /\ hdr' = AppendBlock(hdr, b, n, FALSE)

\* A pointer p to size bytes.
malloc(p, size) ==
    \/ FirstBlock(p, Align(size))
    \/ ReuseBlock(p, Align(size))
    \/ NewBlock(p, Align(size))

free(p) ==
    /\ hdr' = Release(hdr, HeaderOf(p))
    /\ UNCHANGED brk

\* Where a pointer of malloc can be.
HeapPointers == {Payload(b) : b \in DOMAIN hdr \cup {brk}}

\* The list is a partition of the memory taken from sbrk and no two neighbours
\* are free (usr/lib/stdlib.c:105-161).
HeapSound ==
    IF hdr = << >> THEN brk = HeapStart
    ELSE Partition(hdr, HeapStart, brk) /\ NoAdjacentFree(hdr)
=============================================================================
