------------------------------ MODULE KMalloc -------------------------------
(***************************************************************************)
(* The kernel heap, mm/kmalloc.c: first fit with splitting, growth of the  *)
(* heap at its end, and coalescing when a block is released.  held is what *)
(* the rest of the kernel knows: the pointers it was given and has not     *)
(* released, with the sizes it asked for.                                  *)
(***************************************************************************)
EXTENDS BlockList

CONSTANTS HeapStart,    \* KERNEL_MALLOC
          InitialSize,  \* the argument of KMallocInit
          PageSize,     \* bytes of a page
          Requests,     \* the sizes the kernel asks for
          MaxSize       \* bound: the heap is not grown past this many bytes

ASSUME KMallocAssumption ==
    /\ HeapStart \in Nat \ {0} /\ HeapStart % 4 = 0
    /\ HeaderSize % 4 = 0
    /\ InitialSize \in Nat /\ InitialSize >= HeaderSize /\ InitialSize % 4 = 0
    /\ PageSize \in Nat \ {0}
    /\ Requests \subseteq Nat \ {0}
    /\ MaxSize \in Nat

VARIABLES hdr,          \* the block headers reachable from heapHead
          heapSize,     \* static heapSize
          heapPages,    \* pages mapped from HeapStart on
          held          \* pointer |-> bytes asked for, the callers' view

vars == <<hdr, heapSize, heapPages, held>>

HeapEnd == HeapStart + heapSize

PagesFor(n) == (n + PageSize - 1) \div PageSize

Payload(b) == b + HeaderSize
HeaderOf(p) == p - HeaderSize

Without(f, p) == [q \in DOMAIN f \ {p} |-> f[q]]
With(f, p, n) == [q \in DOMAIN f \cup {p} |-> IF q = p THEN n ELSE f[q]]

-----------------------------------------------------------------------------
Init ==
    /\ heapSize = InitialSize
    /\ heapPages = PagesFor(InitialSize)
    /\ hdr = [b \in {HeapStart} |->
                [size |-> InitialSize - HeaderSize, free |-> TRUE,
                 next |-> NULL, prev |-> NULL]]
    /\ held = << >>

\* Only the pages above the old top are mapped, and only when it rises; there
\* are frames enough, or a page would be mapped at frame 0 (kmalloc.c:23-25).
ChangeHeapSize(newSize) ==
    /\ newSize <= MaxSize
    /\ heapPages' = IF PagesFor(newSize) > PagesFor(heapSize)
                    THEN heapPages + PagesFor(newSize) - PagesFor(heapSize)
                    ELSE heapPages
    /\ heapSize' = newSize

\* krealloc releases the block it moved from, old; kmalloc has none.
Dropping(h, old) == IF old = NULL THEN h ELSE Release(h, old)

\* The walk finds a free block that is large enough.
Reuse(b, n, old) ==
    /\ FirstFit(hdr, b, n)
    /\ hdr' = Dropping(Take(hdr, b, n), old)
    /\ UNCHANGED <<heapSize, heapPages>>

\* The walk ends at a free last block: it grows, and is examined again.
GrowLast(b, n, old) ==
    /\ NoFit(hdr, n) /\ Last(hdr, b) /\ hdr[b].free
    /\ ChangeHeapSize(heapSize + n + HeaderSize)
    /\ hdr' = Dropping(Take(Extend(hdr, b, n + HeaderSize), b, n), old)

\* The walk ends at a last block in use: a new block is linked behind it.
GrowNew(b, n, old) ==
    /\ NoFit(hdr, n) /\ Last(hdr, b) /\ ~ hdr[b].free
    /\ ChangeHeapSize(heapSize + n + HeaderSize)
    /\ hdr' = Dropping(Take(AppendBlock(hdr, b, n, TRUE), End(hdr, b), n), old)

\* What the walk of kmalloc does to get s bytes at pointer p.
Walk(p, s, old) ==
    \E b \in DOMAIN hdr :
        \/ p = Payload(b) /\ Reuse(b, Align(s), old)
        \/ p = Payload(b) /\ GrowLast(b, Align(s), old)
        \/ p = Payload(End(hdr, b)) /\ GrowNew(b, Align(s), old)

\* The headers in the list, and the one a new block at the end would have.
Pointers == {Payload(b) : b \in DOMAIN hdr \cup {HeapEnd}}

-----------------------------------------------------------------------------
kmalloc(s) ==
    \E p \in Pointers :
        /\ Walk(p, s, NULL)
        /\ held' = With(held, p, s)

kfree(p) ==
    /\ hdr' = Release(hdr, HeaderOf(p))
    /\ held' = Without(held, p)
    /\ UNCHANGED <<heapSize, heapPages>>

\* krealloc, when the block is large enough already.
kreallocInPlace(p, s) ==
    /\ hdr[HeaderOf(p)].size >= s
    /\ held' = [held EXCEPT ![p] = s]
    /\ UNCHANGED <<hdr, heapSize, heapPages>>

\* krealloc, when the bytes are copied to a new block and the old is freed.
kreallocMove(p, s) ==
    /\ hdr[HeaderOf(p)].size < s
    /\ \E q \in Pointers :
        /\ Walk(q, s, HeaderOf(p))
        /\ held' = With(Without(held, p), q, s)

Next ==
    \/ \E s \in Requests : kmalloc(s)
    \/ \E p \in DOMAIN held : kfree(p)
    \/ \E p \in DOMAIN held, s \in Requests : kreallocInPlace(p, s)
    \/ \E p \in DOMAIN held, s \in Requests : kreallocMove(p, s)

Spec == Init /\ [][Next]_vars

-----------------------------------------------------------------------------
TypeOK ==
    /\ DOMAIN hdr \subseteq Nat
    /\ hdr \in [DOMAIN hdr -> Header]
    /\ heapSize \in Nat /\ heapPages \in Nat
    /\ DOMAIN held \subseteq Nat
    /\ held \in [DOMAIN held -> Requests]

\* The list is a partition of the heap's bytes: splitting, growing and
\* coalescing neither lose a byte, nor leave a link behind, nor let two
\* blocks overlap (mm/kmalloc.c:58-90, 106-116).
HeapPartitioned == Partition(hdr, HeapStart, HeapEnd)

\* Coalescing in both directions is complete: no two neighbours are free
\* (mm/kmalloc.c:106-116), whatever the order blocks are released in.
Coalesced == NoAdjacentFree(hdr)

\* The blocks marked in use are exactly those whose pointer a caller holds,
\* and each still has the bytes asked for: none is handed out twice, freed
\* behind its owner's back, cut short by a split or a growth, or forgotten.
HeldInUse ==
    /\ {Payload(b) : b \in {c \in DOMAIN hdr : ~ hdr[c].free}} = DOMAIN held
    /\ \A p \in DOMAIN held : held[p] <= hdr[HeaderOf(p)].size

\* Every byte of the heap is mapped: the growth by pages keeps up with the
\* growth by bytes across page boundaries (mm/kmalloc.c:15-30).
HeapMapped == HeapEnd <= HeapStart + heapPages * PageSize

\* Whatever is allocated, resized and released, in whatever order: the heap is
\* a mapped partition, coalesced, in use exactly where a caller holds a block
\* (mm/kmalloc.c:15-30, 49-135).
HeapSound == HeapPartitioned /\ Coalesced /\ HeldInUse /\ HeapMapped

\* No two callers hold common bytes.
HeldApart ==
    \A p, q \in DOMAIN held : p < q => p + held[p] <= q

\* kmalloc, kfree and krealloc keep what they promise their callers.
Abstract == INSTANCE HeapSpec
Implements == Abstract!HeapSpecification
=============================================================================
