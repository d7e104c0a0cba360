----------------------------- MODULE BlockList -----------------------------
(***************************************************************************)
(* The doubly linked list of block headers that both heaps of cyOS keep:   *)
(* the kernel's (mm/kmalloc.c) and the C library's (usr/lib/stdlib.c).     *)
(*                                                                         *)
(* A heap is a function from the addresses of the headers in the list to   *)
(* the headers themselves.  The memory a block describes starts HeaderSize *)
(* bytes after its header, and address 0 is the null pointer.              *)
(***************************************************************************)
EXTENDS Integers

CONSTANTS HeaderSize,   \* sizeof(BlockHeader)
          MinSplit      \* the smallest remainder worth a block of its own

ASSUME BlockListAssumption ==
    /\ HeaderSize \in Nat \ {0}
    /\ MinSplit \in Nat

NULL == 0

Header == [size : Nat, free : BOOLEAN, next : Nat, prev : Nat]

\* Requests are rounded up to a multiple of four bytes.
Align(n) == ((n + 3) \div 4) * 4

End(h, b) == b + HeaderSize + h[b].size

\* Mutant: the size of the block is not compared.
Fits_AnySize(h, b, n) == h[b].free

Fits(h, b, n) == h[b].free /\ h[b].size >= n

(***************************************************************************)
(* The block a walk from the head of the list stops at.                    *)
(***************************************************************************)
FirstFit(h, b, n) ==
    /\ Fits(h, b, n)
    /\ \A c \in DOMAIN h : c < b => ~ Fits(h, c, n)

NoFit(h, n) == \A b \in DOMAIN h : ~ Fits(h, b, n)

Last(h, b) == h[b].next = NULL

(***************************************************************************)
(* Operations on the list.                                                 *)
(***************************************************************************)
SetFree(h, b, v) == [h EXCEPT ![b].free = v]

\* Block b keeps n bytes, a new free block after it gets the rest.
Split(h, b, n) ==
    LET new == b + HeaderSize + n
        rest == [size |-> h[b].size - n - HeaderSize, free |-> TRUE,
                 next |-> h[b].next, prev |-> b]
    IN  [c \in DOMAIN h \cup {new} |->
            IF c = new THEN rest
            ELSE IF c = b THEN [h[b] EXCEPT !.size = n, !.next = new]
            ELSE IF c = h[b].next THEN [h[c] EXCEPT !.prev = new]
            ELSE h[c]]

\* Block b is handed out for n bytes.
Take(h, b, n) ==
    IF h[b].size >= n + HeaderSize + MinSplit
    THEN SetFree(Split(h, b, n), b, FALSE)
    ELSE SetFree(h, b, FALSE)

\* The last block b grows by d bytes.
Extend(h, b, d) == [h EXCEPT ![b].size = @ + d]

\* A block of n bytes follows the last block b.
AppendBlock(h, b, n, v) ==
    [c \in DOMAIN h \cup {End(h, b)} |->
        IF c = End(h, b) THEN [size |-> n, free |-> v, next |-> NULL, prev |-> b]
        ELSE IF c = b THEN [h[b] EXCEPT !.next = End(h, b)]
        ELSE h[c]]

\* Mutant: the block behind the absorbed one keeps its old back link.
AbsorbNext_StaleBackLink(h, b) ==
    LET n == h[b].next
    IN  [c \in DOMAIN h \ {n} |->
            IF c = b THEN [h[b] EXCEPT !.size = @ + HeaderSize + h[n].size,
                                       !.next = h[n].next]
            ELSE h[c]]

\* Block b takes over the header and the memory of the block after it.
AbsorbNext(h, b) ==
    LET n == h[b].next
    IN  [c \in DOMAIN h \ {n} |->
            IF c = b THEN [h[b] EXCEPT !.size = @ + HeaderSize + h[n].size,
                                       !.next = h[n].next]
            ELSE IF c = h[n].next THEN [h[c] EXCEPT !.prev = b]
            ELSE h[c]]

JoinNext(h, b) ==
    IF h[b].next # NULL /\ h[h[b].next].free THEN AbsorbNext(h, b) ELSE h

JoinPrev(h, b) ==
    IF h[b].prev # NULL /\ h[h[b].prev].free THEN AbsorbNext(h, h[b].prev) ELSE h

Release(h, b) == JoinPrev(JoinNext(SetFree(h, b, TRUE), b), b)

(***************************************************************************)
(* What makes a list of headers a partition of the bytes from lo to hi.    *)
(***************************************************************************)
ForwardLinks(h, hi) ==
    \A b \in DOMAIN h :
        IF h[b].next = NULL
        THEN End(h, b) = hi
        ELSE /\ h[b].next \in DOMAIN h
             /\ h[b].next = End(h, b)
             /\ h[h[b].next].prev = b

BackwardLinks(h, lo) ==
    \A b \in DOMAIN h :
        IF b = lo
        THEN h[b].prev = NULL
        ELSE h[b].prev \in DOMAIN h /\ h[h[b].prev].next = b

InOrder(h, lo, hi) ==
    /\ lo \in DOMAIN h
    /\ \A b \in DOMAIN h : lo <= b /\ End(h, b) <= hi
    /\ \A b, c \in DOMAIN h : b < c => End(h, b) <= c

Partition(h, lo, hi) ==
    /\ ForwardLinks(h, hi)
    /\ BackwardLinks(h, lo)
    /\ InOrder(h, lo, hi)

NoAdjacentFree(h) ==
    \A b \in DOMAIN h :
        h[b].free /\ h[b].next # NULL => ~ h[h[b].next].free
=============================================================================
