------------------------ MODULE KernelMemoryProofs --------------------------
(***************************************************************************)
(* The memory of the kernel, mm/.  Its heap is a partition with no two     *)
(* free neighbours, its blocks in use are the callers' pointers, and it    *)
(* implements HeapSpec: for every size of headers, pages and requests and  *)
(* any sequence of calls.  The frames handed out are memory outside the    *)
(* kernel image, the bitmap and the count are exact and every allocation   *)
(* is fresh, for any size of memory and any end of the kernel image.       *)
(***************************************************************************)
EXTENDS KMalloc, PageFrames, BlockListProofs, FiniteSetTheorems

USE BlockListAssumption, KMallocAssumption

(***************************************************************************)
(* The inductive invariant.  HeapPartitioned alone is not inductive: that  *)
(* a release may merge needs the types of the headers, that a pointer may  *)
(* be released needs HeldInUse, and that the pages keep up with the bytes  *)
(* needs their exact number.                                               *)
(***************************************************************************)
Inv ==
    /\ heapSize \in Nat
    /\ DOMAIN held \subseteq Nat
    /\ held \in [DOMAIN held -> Requests]
    /\ List(hdr, HeapStart, HeapEnd)
    /\ Coalesced
    /\ HeldInUse
    /\ Aligned(hdr)
    /\ heapPages = PagesFor(heapSize)

LEMMA PagesEnough ==
    ASSUME NEW n \in Nat
    PROVE  PagesFor(n) \in Nat /\ PagesFor(n) * PageSize >= n
BY DEF PagesFor

LEMMA PagesMonotone ==
    ASSUME NEW m \in Nat, NEW n \in Nat, m <= n
    PROVE  PagesFor(m) <= PagesFor(n)
BY DEF PagesFor

LEMMA GrowPages ==
    ASSUME heapSize \in Nat, heapPages = PagesFor(heapSize),
           NEW n \in Nat, ChangeHeapSize(heapSize + n + HeaderSize)
    PROVE  /\ heapSize' = heapSize + n + HeaderSize
           /\ heapSize' \in Nat
           /\ heapPages' = PagesFor(heapSize')
<1>1. heapSize' = heapSize + n + HeaderSize /\ heapSize' \in Nat
  BY DEF ChangeHeapSize
<1>2. PagesFor(heapSize) <= PagesFor(heapSize')
  BY <1>1, PagesMonotone
<1>3. PagesFor(heapSize) \in Nat /\ PagesFor(heapSize') \in Nat
  BY <1>1, PagesEnough
<1> QED
  BY <1>1, <1>2, <1>3 DEF ChangeHeapSize

(***************************************************************************)
(* Pointers and headers correspond.                                        *)
(***************************************************************************)
LEMMA HeldHeaders ==
    ASSUME Inv
    PROVE  /\ \A p \in DOMAIN held : /\ HeaderOf(p) \in InUse(hdr)
                                     /\ p = Payload(HeaderOf(p))
                                     /\ held[p] <= hdr[HeaderOf(p)].size
                                     /\ held[p] \in Nat \ {0}
           /\ \A b \in InUse(hdr) : /\ Payload(b) \in DOMAIN held
                                    /\ HeaderOf(Payload(b)) = b
                                    /\ b \in Nat
<1>1. DOMAIN hdr \subseteq Nat
  BY DEF Inv, List
<1>2. {Payload(b) : b \in InUse(hdr)} = DOMAIN held
  BY DEF Inv, HeldInUse, InUse
<1>3. \A b \in InUse(hdr) : b \in Nat /\ HeaderOf(Payload(b)) = b
  BY <1>1 DEF InUse, Payload, HeaderOf
<1> QED
  BY <1>2, <1>3 DEF Inv, HeldInUse

(***************************************************************************)
(* What the walk leaves behind, before a block to be dropped is released:  *)
(* one more block in use, large enough, and the others as they were.       *)
(***************************************************************************)
Obtained(h, p, s) ==
    /\ List(h, HeapStart, HeapStart + heapSize')
    /\ NoAdjacentFree(h)
    /\ Aligned(h)
    /\ HeaderOf(p) \notin InUse(hdr)
    /\ InUse(h) = InUse(hdr) \cup {HeaderOf(p)}
    /\ s <= h[HeaderOf(p)].size
    /\ \A c \in InUse(hdr) : h[c].size = hdr[c].size

LEMMA WalkObtains ==
    ASSUME Inv, NEW p, NEW s \in Requests, NEW old, Walk(p, s, old)
    PROVE  /\ heapSize' \in Nat
           /\ heapPages' = PagesFor(heapSize')
           /\ p \in Nat \ {0} /\ p = Payload(HeaderOf(p))
           /\ \E h : hdr' = Dropping(h, old) /\ Obtained(h, p, s)
<1> DEFINE n == Align(s)
<1>1. s \in Nat /\ n \in Nat /\ n >= s /\ n % 4 = 0
  BY AlignUp
<1> HIDE DEF n
<1>2. /\ heapSize \in Nat
      /\ List(hdr, HeapStart, HeapEnd) /\ NoAdjacentFree(hdr) /\ Aligned(hdr)
      /\ HeapEnd \in Nat /\ DOMAIN hdr \subseteq Nat
      /\ hdr \in [DOMAIN hdr -> Header]
  BY DEF Inv, List, Coalesced, HeapEnd
<1>3. PICK b \in DOMAIN hdr :
        \/ p = Payload(b) /\ Reuse(b, n, old)
        \/ p = Payload(b) /\ GrowLast(b, n, old)
        \/ p = Payload(End(hdr, b)) /\ GrowNew(b, n, old)
  BY DEF Walk, n
<1>4. CASE p = Payload(b) /\ Reuse(b, n, old)
  <2> DEFINE h == Take(hdr, b, n)
  <2>1. Fits(hdr, b, n) /\ b \notin InUse(hdr)
    BY <1>4 DEF Reuse, FirstFit, Fits, InUse
  <2>2. /\ List(h, HeapStart, HeapEnd)
        /\ InUse(h) = InUse(hdr) \cup {b}
        /\ h[b].size >= n
        /\ \A c \in DOMAIN hdr \ {b} : h[c].size = hdr[c].size
        /\ NoAdjacentFree(h)
    BY <1>1, <1>2, <2>1, TakeList
  <2>3. Aligned(h)
    BY <1>1, <1>2, AlignedOps
  <2>4. /\ hdr' = Dropping(h, old) /\ heapSize' = heapSize
        /\ heapPages' = heapPages
    BY <1>4 DEF Reuse
  <2>5. HeaderOf(p) = b /\ p \in Nat \ {0} /\ p = Payload(HeaderOf(p))
    BY <1>4, <1>2 DEF Payload, HeaderOf
  <2>6. h[b].size \in Nat
    BY <2>2 DEF List, Header, InUse
  <2> HIDE DEF h
  <2>7. Obtained(h, p, s)
    BY <1>1, <1>2, <2>1, <2>2, <2>3, <2>4, <2>5, <2>6 DEF Obtained, InUse, HeapEnd
  <2> QED
    BY <1>2, <2>4, <2>5, <2>7 DEF Inv
<1>5. CASE p = Payload(b) /\ GrowLast(b, n, old)
  <2> DEFINE g == Extend(hdr, b, n + HeaderSize)
             h == Take(g, b, n)
  <2>1. Last(hdr, b) /\ hdr[b].free /\ b \notin InUse(hdr)
    BY <1>5 DEF GrowLast, InUse
  <2>2. /\ heapSize' = heapSize + n + HeaderSize /\ heapSize' \in Nat
        /\ heapPages' = PagesFor(heapSize')
    BY <1>1, <1>2, <1>5, GrowPages DEF GrowLast, Inv
  <2>3. n + HeaderSize \in Nat /\ HeapEnd + (n + HeaderSize) = HeapStart + heapSize'
    BY <1>1, <1>2, <2>2 DEF HeapEnd
  <2>4. List(g, HeapStart, HeapStart + heapSize')
    BY <1>2, <2>1, <2>3, ExtendList
  <2>5. /\ DOMAIN g = DOMAIN hdr
        /\ g[b].free /\ g[b].size = hdr[b].size + (n + HeaderSize)
        /\ \A c \in DOMAIN hdr : g[c].next = hdr[c].next /\ g[c].free = hdr[c].free
        /\ \A c \in DOMAIN hdr \ {b} : g[c].size = hdr[c].size
    BY <1>2, <2>1 DEF Extend, Header
  <2>6. Aligned(g)
    BY <1>1, <1>2, AlignedOps
  <2> HIDE DEF g
  <2>7. NoAdjacentFree(g) /\ InUse(g) = InUse(hdr)
    <3>1. ForwardLinks(hdr, HeapEnd)
      BY <1>2 DEF List, Partition
    <3> QED
      BY <1>2, <2>5, <3>1 DEF NoAdjacentFree, InUse, ForwardLinks
  <2>8. Fits(g, b, n)
    <3>1. hdr[b].size \in Nat
      BY <1>2 DEF Header
    <3> QED
      BY <3>1, <1>1, <2>5 DEF Fits
  <2>9. HeapStart + heapSize' \in Nat
    BY <2>2
  <2>10. /\ List(h, HeapStart, HeapStart + heapSize')
         /\ InUse(h) = InUse(g) \cup {b}
         /\ h[b].size >= n
         /\ \A c \in DOMAIN g \ {b} : h[c].size = g[c].size
         /\ NoAdjacentFree(h)
    BY <1>1, <2>4, <2>5, <2>7, <2>8, <2>9, TakeList
  <2>11. Aligned(h)
    <3>1. g \in [DOMAIN g -> Header] /\ DOMAIN g \subseteq Nat
      BY <2>4 DEF List
    <3> QED
      BY <3>1, <1>1, <2>5, <2>6, AlignedOps
  <2>12. hdr' = Dropping(h, old)
    BY <1>5 DEF GrowLast, g
  <2>13. HeaderOf(p) = b /\ p \in Nat \ {0} /\ p = Payload(HeaderOf(p))
    BY <1>5, <1>2 DEF Payload, HeaderOf
  <2>14. h[b].size \in Nat
    BY <2>10 DEF List, Header, InUse
  <2> HIDE DEF h
  <2>15. InUse(h) = InUse(hdr) \cup {b} /\ s <= h[b].size
    BY <1>1, <2>7, <2>10, <2>14
  <2>16. \A c \in InUse(hdr) : h[c].size = hdr[c].size
    BY <2>1, <2>5, <2>10 DEF InUse
  <2>17. Obtained(h, p, s)
    BY ONLY <2>1, <2>10, <2>11, <2>13, <2>15, <2>16 DEF Obtained
  <2> QED
    BY <2>2, <2>12, <2>13, <2>17
<1>6. CASE p = Payload(End(hdr, b)) /\ GrowNew(b, n, old)
  <2> DEFINE e == End(hdr, b)
             g == AppendBlock(hdr, b, n, TRUE)
             h == Take(g, e, n)
  <2>1. Last(hdr, b) /\ ~ hdr[b].free
    BY <1>6 DEF GrowNew
  <2>2. /\ heapSize' = heapSize + n + HeaderSize /\ heapSize' \in Nat
        /\ heapPages' = PagesFor(heapSize')
    BY <1>1, <1>2, <1>6, GrowPages DEF GrowNew, Inv
  <2>3. HeapEnd + HeaderSize + n = HeapStart + heapSize' /\ HeapStart + heapSize' \in Nat
    BY <1>1, <1>2, <2>2 DEF HeapEnd
  <2>4. /\ List(g, HeapStart, HeapEnd + HeaderSize + n)
        /\ DOMAIN g = DOMAIN hdr \cup {e}
        /\ e = HeapEnd /\ e \notin DOMAIN hdr
    BY <1>1, <1>2, <2>1, AppendList, ZenonT(40)
  <2>5. /\ g[e] = [size |-> n, free |-> TRUE, next |-> NULL, prev |-> b]
        /\ \A c \in DOMAIN hdr : /\ g[c].size = hdr[c].size
                                 /\ g[c].free = hdr[c].free
                                 /\ c # b => g[c].next = hdr[c].next
    BY <1>2, <2>4 DEF AppendBlock, Header
  <2>6. Aligned(g)
    BY <1>1, <1>2, AlignedOps
  <2> HIDE DEF g, e
  <2>7. NoAdjacentFree(g) /\ InUse(g) = InUse(hdr)
    <3>1. ForwardLinks(hdr, HeapEnd)
      BY <1>2 DEF List, Partition
    <3>2. NoAdjacentFree(g)
      BY <1>2, <2>1, <2>4, <2>5, <3>1 DEF NoAdjacentFree, ForwardLinks
    <3>3. InUse(g) = InUse(hdr)
      BY <2>4, <2>5 DEF InUse
    <3> QED
      BY <3>2, <3>3
  <2>8. Fits(g, e, n)
    BY <1>1, <2>5 DEF Fits
  <2>9. /\ List(h, HeapStart, HeapStart + heapSize')
        /\ InUse(h) = InUse(g) \cup {e}
        /\ h[e].size >= n
        /\ \A c \in DOMAIN g \ {e} : h[c].size = g[c].size
        /\ NoAdjacentFree(h)
    BY <1>1, <2>3, <2>4, <2>7, <2>8, TakeList, SMTT(20)
  <2>10. Aligned(h)
    <3>1. g \in [DOMAIN g -> Header] /\ DOMAIN g \subseteq Nat
      BY <2>4 DEF List
    <3> QED
      BY <3>1, <1>1, <2>4, <2>6, AlignedOps
  <2>11. hdr' = Dropping(h, old)
    BY <1>6 DEF GrowNew, g, e
  <2>12. HeaderOf(p) = e /\ p \in Nat \ {0} /\ p = Payload(HeaderOf(p))
    BY <1>6, <1>2, <2>4 DEF Payload, HeaderOf, e
  <2>13. h[e].size \in Nat /\ e \notin InUse(hdr)
    BY <2>4, <2>9 DEF List, Header, InUse
  <2> HIDE DEF h
  <2>14. Obtained(h, p, s)
    BY <1>1, <2>4, <2>5, <2>7, <2>9, <2>10, <2>12, <2>13 DEF Obtained, InUse
  <2> QED
    BY <2>2, <2>11, <2>12, <2>14
<1> QED
  BY <1>3, <1>4, <1>5, <1>6

(***************************************************************************)
(* The heap after a walk keeps the invariant, whatever the pointers held   *)
(* were before, if those held afterwards are the blocks in use afterwards. *)
(***************************************************************************)
LEMMA InitInv == Init => Inv
<1> SUFFICES ASSUME Init PROVE Inv
  OBVIOUS
<1>1. /\ DOMAIN hdr = {HeapStart} /\ DOMAIN held = {} /\ heapSize = InitialSize
      /\ hdr[HeapStart] = [size |-> InitialSize - HeaderSize, free |-> TRUE,
                           next |-> NULL, prev |-> NULL]
      /\ hdr = [c \in {HeapStart} |-> hdr[c]]
      /\ InitialSize - HeaderSize \in Nat
  BY DEF Init
<1>2. hdr[HeapStart] \in Header
  BY <1>1 DEF Header, NULL
<1>3. hdr \in [DOMAIN hdr -> Header] /\ DOMAIN hdr \subseteq Nat
  BY <1>1, <1>2
<1>4. End(hdr, HeapStart) = HeapEnd
  BY <1>1 DEF End, HeapEnd
<1>5. Partition(hdr, HeapStart, HeapEnd)
  BY <1>1, <1>4 DEF Partition, ForwardLinks, BackwardLinks, InOrder, HeapEnd
<1>6. Coalesced
  BY <1>1 DEF Coalesced, NoAdjacentFree
<1>7. HeldInUse
  <2>1. {c \in DOMAIN hdr : ~ hdr[c].free} = {}
    BY <1>1
  <2> QED
    BY <2>1, <1>1 DEF HeldInUse
<1>8. Aligned(hdr)
  <2>1. (InitialSize - HeaderSize) % 4 = 0
    OBVIOUS
  <2> QED
    BY <2>1, <1>1 DEF Aligned
<1>9. heapPages = PagesFor(heapSize)
  BY DEF Init
<1>10. held \in [DOMAIN held -> Requests]
  BY DEF Init
<1> QED
  BY <1>1, <1>3, <1>5, <1>6, <1>7, <1>8, <1>9, <1>10 DEF Inv, List

LEMMA KmallocInv ==
    ASSUME Inv, NEW s \in Requests, kmalloc(s)
    PROVE  Inv'
<1>1. PICK p \in Pointers : Walk(p, s, NULL) /\ held' = With(held, p, s)
  BY DEF kmalloc
<1>2. PICK h : hdr' = Dropping(h, NULL) /\ Obtained(h, p, s)
  BY <1>1, WalkObtains
<1>3. hdr' = h
  BY <1>2 DEF Dropping
<1>4. /\ heapSize' \in Nat /\ heapPages' = PagesFor(heapSize')
      /\ p \in Nat \ {0} /\ p = Payload(HeaderOf(p))
  BY <1>1, WalkObtains
<1>5. /\ DOMAIN held' = DOMAIN held \cup {p} /\ held'[p] = s
      /\ \A q \in DOMAIN held : q # p => held'[q] = held[q]
      /\ held' \in [DOMAIN held' -> Requests] /\ DOMAIN held' \subseteq Nat
  BY <1>1, <1>4 DEF With, Inv
<1>6. HeldInUse'
  <2>1. InUse(hdr') = InUse(hdr) \cup {HeaderOf(p)}
    BY <1>2, <1>3 DEF Obtained
  <2>2. {Payload(b) : b \in InUse(hdr')} = DOMAIN held'
    BY <2>1, <1>4, <1>5 DEF Inv, HeldInUse, InUse
  <2>3. \A q \in DOMAIN held' : held'[q] <= hdr'[HeaderOf(q)].size
    BY <1>2, <1>3, <1>5, HeldHeaders DEF Obtained
  <2> QED
    BY <2>2, <2>3 DEF HeldInUse, InUse
<1> QED
  BY <1>2, <1>3, <1>4, <1>5, <1>6 DEF Inv, Obtained, Coalesced, HeapEnd

LEMMA KfreeInv ==
    ASSUME Inv, NEW p \in DOMAIN held, kfree(p)
    PROVE  Inv'
<1> DEFINE b == HeaderOf(p)
<1>1. b \in InUse(hdr) /\ p = Payload(b)
  BY HeldHeaders
<1>2. /\ List(hdr, HeapStart, HeapEnd) /\ NoAdjacentFree(hdr) /\ Aligned(hdr)
      /\ HeapEnd \in Nat /\ b \in DOMAIN hdr
  BY <1>1 DEF Inv, Coalesced, HeapEnd, InUse
<1>3. /\ List(hdr', HeapStart, HeapEnd)
      /\ InUse(hdr') = InUse(hdr) \ {b}
      /\ \A c \in InUse(hdr) \ {b} : hdr'[c].size = hdr[c].size
      /\ NoAdjacentFree(hdr')
  BY <1>2, ReleaseList DEF kfree
<1>4. Aligned(hdr')
  BY <1>2, AlignedRelease DEF kfree
<1>5. HeapEnd' = HeapEnd /\ heapSize' = heapSize /\ heapPages' = heapPages
  BY DEF kfree, HeapEnd
<1>6. /\ DOMAIN held' = DOMAIN held \ {p}
      /\ \A q \in DOMAIN held' : held'[q] = held[q]
      /\ held' \in [DOMAIN held' -> Requests] /\ DOMAIN held' \subseteq Nat
  BY DEF kfree, Without, Inv
<1> HIDE DEF b
<1>7. HeldInUse'
  <2>1. {Payload(c) : c \in InUse(hdr')} = DOMAIN held'
    <3>1. \A c \in InUse(hdr') : Payload(c) \in DOMAIN held'
      BY <1>1, <1>3, <1>6, HeldHeaders DEF b
    <3>2. \A q \in DOMAIN held' : HeaderOf(q) \in InUse(hdr') /\ q = Payload(HeaderOf(q))
      BY <1>1, <1>3, <1>6, HeldHeaders DEF b
    <3> QED
      BY <3>1, <3>2
  <2>2. \A q \in DOMAIN held' : held'[q] <= hdr'[HeaderOf(q)].size
    BY <1>1, <1>3, <1>6, HeldHeaders DEF b
  <2> QED
    BY <2>1, <2>2 DEF HeldInUse, InUse
<1> QED
  BY <1>3, <1>4, <1>5, <1>6, <1>7 DEF Inv, Coalesced

LEMMA ReallocInPlaceInv ==
    ASSUME Inv, NEW p \in DOMAIN held, NEW s \in Requests, kreallocInPlace(p, s)
    PROVE  Inv'
<1>1. /\ hdr' = hdr /\ heapSize' = heapSize /\ heapPages' = heapPages
      /\ DOMAIN held' = DOMAIN held /\ held'[p] = s
      /\ \A q \in DOMAIN held \ {p} : held'[q] = held[q]
      /\ held' \in [DOMAIN held' -> Requests]
      /\ s <= hdr[HeaderOf(p)].size
  <2>1. hdr[HeaderOf(p)].size \in Nat
    BY HeldHeaders DEF Inv, List, Header, InUse
  <2> QED
    BY <2>1 DEF kreallocInPlace, Inv
<1>2. HeldInUse'
  BY <1>1 DEF Inv, HeldInUse
<1> QED
  BY <1>1, <1>2 DEF Inv, Coalesced, HeapEnd

LEMMA ReallocMoveInv ==
    ASSUME Inv, NEW p \in DOMAIN held, NEW s \in Requests, kreallocMove(p, s)
    PROVE  Inv'
<1> DEFINE b == HeaderOf(p)
<1>1. PICK q \in Pointers : Walk(q, s, b) /\ held' = With(Without(held, p), q, s)
  BY DEF kreallocMove
<1>2. PICK h : hdr' = Dropping(h, b) /\ Obtained(h, q, s)
  BY <1>1, WalkObtains
<1>3. /\ heapSize' \in Nat /\ heapPages' = PagesFor(heapSize')
      /\ q \in Nat \ {0} /\ q = Payload(HeaderOf(q))
  BY <1>1, WalkObtains
<1>4. /\ b \in InUse(hdr) /\ p = Payload(b)
      /\ HeaderOf(q) \notin InUse(hdr) /\ q # p
      /\ InUse(h) = InUse(hdr) \cup {HeaderOf(q)}
      /\ List(h, HeapStart, HeapEnd') /\ NoAdjacentFree(h) /\ Aligned(h)
      /\ HeapEnd' \in Nat
  <2>1. b \in InUse(hdr) /\ p = Payload(b)
    BY HeldHeaders
  <2>2. HeapEnd' = HeapStart + heapSize' /\ HeapEnd' \in Nat
    <3>1. HeapEnd' = HeapStart + heapSize'
      BY DEF HeapEnd
    <3>2. HeapStart + heapSize' \in Nat
      <4>1. heapSize' \in Nat
        BY <1>3
      <4>2. HeapStart \in Nat
        OBVIOUS
      <4>3. \A x, y \in Nat : x + y \in Nat
        OBVIOUS
      <4> QED
        BY <4>1, <4>2, <4>3, Zenon
    <3> QED
      BY <3>1, <3>2
  <2> HIDE DEF b
  <2>3. /\ HeaderOf(q) \notin InUse(hdr)
        /\ InUse(h) = InUse(hdr) \cup {HeaderOf(q)}
        /\ List(h, HeapStart, HeapEnd') /\ NoAdjacentFree(h) /\ Aligned(h)
    BY <1>2, <2>2 DEF Obtained
  <2>4. q # p
    BY <2>1, <2>3 DEF b
  <2> QED
    BY <2>1, <2>2, <2>3, <2>4
<1>5. b \in DOMAIN h /\ b # NULL
  BY <1>4 DEF InUse, Inv, List, Partition, InOrder, NULL
<1>6. hdr' = Release(h, b)
  BY <1>2, <1>5 DEF Dropping
<1>7. /\ List(hdr', HeapStart, HeapEnd')
      /\ InUse(hdr') = InUse(h) \ {b}
      /\ \A c \in InUse(h) \ {b} : hdr'[c].size = h[c].size
      /\ NoAdjacentFree(hdr')
  BY <1>4, <1>5, <1>6, ReleaseList
<1>8. Aligned(hdr')
  BY <1>4, <1>5, <1>6, AlignedRelease
<1>9. /\ DOMAIN held' = (DOMAIN held \ {p}) \cup {q} /\ held'[q] = s
      /\ \A r \in DOMAIN held \ {p} : r # q => held'[r] = held[r]
      /\ held' \in [DOMAIN held' -> Requests] /\ DOMAIN held' \subseteq Nat
  BY <1>1, <1>3 DEF With, Without, Inv
<1>10. HeldInUse'
  <2>1. \A c \in InUse(hdr') : Payload(c) \in DOMAIN held'
    BY <1>3, <1>4, <1>7, <1>9, HeldHeaders DEF b
  <2>2. \A r \in DOMAIN held' : HeaderOf(r) \in InUse(hdr') /\ r = Payload(HeaderOf(r))
    BY <1>3, <1>4, <1>7, <1>9, HeldHeaders
  <2>3. {Payload(c) : c \in InUse(hdr')} = DOMAIN held'
    BY <2>1, <2>2
  <2>4. \A r \in DOMAIN held' : held'[r] <= hdr'[HeaderOf(r)].size
    <3>1. ASSUME NEW r \in DOMAIN held', r # q
          PROVE  held'[r] <= hdr'[HeaderOf(r)].size
      <4>1. /\ r \in DOMAIN held /\ r # p
            /\ HeaderOf(r) \in InUse(hdr) \ {b}
            /\ held'[r] = held[r]
        BY <3>1, <1>4, <1>9, HeldHeaders
      <4>2. hdr'[HeaderOf(r)].size = hdr[HeaderOf(r)].size
        BY <4>1, <1>2, <1>4, <1>7 DEF Obtained
      <4> QED
        BY <4>1, <4>2, HeldHeaders
    <3>2. held'[q] <= hdr'[HeaderOf(q)].size
      BY <1>2, <1>4, <1>7, <1>9 DEF Obtained
    <3> QED
      BY <3>1, <3>2
  <2> QED
    BY <2>3, <2>4 DEF HeldInUse, InUse
<1> QED
  BY <1>3, <1>7, <1>8, <1>9, <1>10 DEF Inv, Coalesced

(***************************************************************************)
(* Blocks in use do not overlap, so neither do the bytes asked for.        *)
(***************************************************************************)
LEMMA InvApart == Inv => HeldApart
<1> SUFFICES ASSUME Inv, NEW p \in DOMAIN held, NEW q \in DOMAIN held, p < q
             PROVE  p + held[p] <= q
  BY DEF HeldApart
<1>1. /\ HeaderOf(p) \in InUse(hdr) /\ HeaderOf(q) \in InUse(hdr)
      /\ held[p] <= hdr[HeaderOf(p)].size /\ held[p] \in Nat
      /\ p \in Nat /\ q \in Nat
  BY HeldHeaders DEF Inv
<1>2. /\ hdr[HeaderOf(p)].size \in Nat
      /\ HeaderOf(p) \in DOMAIN hdr /\ HeaderOf(q) \in DOMAIN hdr
      /\ HeaderOf(p) < HeaderOf(q)
  BY <1>1 DEF Inv, List, Header, InUse, HeaderOf
<1>3. End(hdr, HeaderOf(p)) <= HeaderOf(q)
  BY <1>2 DEF Inv, List, Partition, InOrder
<1> QED
  BY <1>1, <1>2, <1>3 DEF End, HeaderOf

LEMMA NextInv == Inv /\ [Next]_vars => Inv'
<1> SUFFICES ASSUME Inv, [Next]_vars PROVE Inv'
  OBVIOUS
<1>1. ASSUME NEW s \in Requests, kmalloc(s) PROVE Inv'
  BY <1>1, KmallocInv
<1>2. ASSUME NEW p \in DOMAIN held, kfree(p) PROVE Inv'
  BY <1>2, KfreeInv
<1>3. ASSUME NEW p \in DOMAIN held, NEW s \in Requests, kreallocInPlace(p, s)
      PROVE  Inv'
  BY <1>3, ReallocInPlaceInv
<1>4. ASSUME NEW p \in DOMAIN held, NEW s \in Requests, kreallocMove(p, s)
      PROVE  Inv'
  BY <1>4, ReallocMoveInv
<1>5. CASE UNCHANGED vars
  BY <1>5 DEF vars, Inv, Coalesced, HeldInUse, HeapEnd
<1> QED
  BY <1>1, <1>2, <1>3, <1>4, <1>5 DEF Next

LEMMA InvSafety ==
    Inv => /\ TypeOK /\ HeapPartitioned /\ Coalesced /\ HeldInUse
           /\ HeapMapped /\ HeldApart
<1> SUFFICES ASSUME Inv
             PROVE  TypeOK /\ HeapPartitioned /\ Coalesced /\ HeldInUse
                    /\ HeapMapped /\ HeldApart
  OBVIOUS
<1>1. heapPages \in Nat /\ heapPages * PageSize >= heapSize
  BY PagesEnough DEF Inv
<1>2. HeapMapped
  BY <1>1 DEF HeapMapped, HeapEnd, Inv
<1> QED
  BY <1>1, <1>2, InvApart DEF Inv, TypeOK, HeapPartitioned, List

\* The heap stays a partition with no two free neighbours, its blocks in use
\* are the pointers callers hold with the bytes they asked for, and every
\* byte of it is mapped (mm/kmalloc.c).
THEOREM Safety == Spec => [](TypeOK /\ HeapSound /\ HeldApart)
<1>1. Spec => []Inv
  BY InitInv, NextInv, PTL DEF Spec
<1>2. Inv => TypeOK /\ HeapSound /\ HeldApart
  BY InvSafety DEF HeapSound
<1> QED
  BY <1>1, <1>2, PTL

(***************************************************************************)
(* Refinement of HeapSpec.                                                 *)
(***************************************************************************)
LEMMA ObtainedApart ==
    ASSUME Inv, NEW h, NEW p \in Nat \ {0}, p = Payload(HeaderOf(p)),
           NEW s \in Requests, Obtained(h, p, s), heapSize' \in Nat
    PROVE  /\ p \notin DOMAIN held
           /\ p % 4 = 0
           /\ \A q \in DOMAIN held : Abstract!Apart(p, s, q)
<1> DEFINE b == HeaderOf(p)
<1>1. /\ List(h, HeapStart, HeapStart + heapSize') /\ Aligned(h)
      /\ b \notin InUse(hdr) /\ b \in InUse(h) /\ s <= h[b].size
      /\ InUse(hdr) \subseteq InUse(h)
      /\ \A c \in InUse(hdr) : h[c].size = hdr[c].size
  BY DEF Obtained
<1>2. p \notin DOMAIN held
  BY <1>1, HeldHeaders
<1>3. p % 4 = 0
  <2>1. b \in DOMAIN h /\ b \in Nat /\ b % 4 = 0
    BY <1>1 DEF Aligned, InUse, List
  <2> QED
    BY <2>1 DEF Payload
<1>4. ASSUME NEW q \in DOMAIN held
      PROVE  Abstract!Apart(p, s, q)
  <2> DEFINE c == HeaderOf(q)
  <2>1. /\ c \in InUse(hdr) /\ q = Payload(c) /\ q \in Nat
        /\ held[q] <= hdr[c].size /\ held[q] \in Nat
    BY HeldHeaders DEF Inv
  <2>2. b # c
    BY <1>1, <2>1
  <2>3. /\ b \in DOMAIN h /\ c \in DOMAIN h /\ b \in Nat /\ c \in Nat
        /\ h[b].size \in Nat /\ h[c].size \in Nat
        /\ held[q] <= h[c].size
    BY <1>1, <2>1 DEF InUse, List, Header
  <2>4. /\ b < c => End(h, b) <= c
        /\ c < b => End(h, c) <= b
    BY <2>3, <1>1 DEF List, Partition, InOrder
  <2>5. s \in Nat /\ p = b + HeaderSize /\ q = c + HeaderSize
    BY <2>1 DEF Payload
  <2> HIDE DEF b, c
  <2>6. CASE b < c
    BY <1>1, <2>3, <2>4, <2>5, <2>6 DEF Abstract!Apart, End
  <2>7. CASE c < b
    BY <1>1, <2>1, <2>3, <2>4, <2>5, <2>7 DEF Abstract!Apart, End
  <2> QED
    BY <2>2, <2>3, <2>6, <2>7
<1> QED
  BY <1>2, <1>3, <1>4

LEMMA StepSimulation ==
    Inv /\ Inv' /\ [Next]_vars => [Abstract!HeapNext]_held
<1> SUFFICES ASSUME Inv, Inv', [Next]_vars
             PROVE  [Abstract!HeapNext]_held
  OBVIOUS
<1>1. ASSUME NEW s \in Requests, kmalloc(s)
      PROVE  Abstract!Malloc
  <2>1. PICK p \in Pointers : Walk(p, s, NULL) /\ held' = With(held, p, s)
    BY <1>1 DEF kmalloc
  <2>2. PICK h : Obtained(h, p, s)
    BY <2>1, WalkObtains
  <2>3. p \in Nat \ {0} /\ p = Payload(HeaderOf(p)) /\ heapSize' \in Nat
    BY <2>1, WalkObtains
  <2>4. /\ p \notin DOMAIN held /\ p % 4 = 0
        /\ \A q \in DOMAIN held : Abstract!Apart(p, s, q)
    BY <2>2, <2>3, ObtainedApart
  <2>5. p \in DOMAIN held' \ DOMAIN held /\ p > 0
    BY <2>1, <2>3, <2>4 DEF With
  <2> QED
    BY <2>1, <2>4, <2>5 DEF Abstract!Malloc, With
<1>2. ASSUME NEW p \in DOMAIN held, kfree(p)
      PROVE  Abstract!Free
  BY <1>2 DEF kfree, Without, Abstract!Free
<1>3. ASSUME NEW p \in DOMAIN held, NEW s \in Requests, kreallocInPlace(p, s)
      PROVE  Abstract!Resize
  <2>1. held' = [held EXCEPT ![p] = s] /\ DOMAIN held' = DOMAIN held
    BY <1>3 DEF kreallocInPlace
  <2>2. HeldApart'
    BY InvApart, PTL
  <2>3. ASSUME NEW q \in DOMAIN held \ {p}
        PROVE  Abstract!Apart(p, s, q)
    <3>1. held'[p] = s /\ held'[q] = held[q] /\ p \in Nat /\ q \in Nat
      BY <2>1 DEF Inv
    <3>2. /\ p < q => p + held'[p] <= q
          /\ q < p => q + held'[q] <= p
      BY <2>1, <2>2 DEF HeldApart
    <3> QED
      BY <3>1, <3>2 DEF Abstract!Apart
  <2> QED
    BY <2>1, <2>3 DEF Abstract!Resize
<1>4. ASSUME NEW p \in DOMAIN held, NEW s \in Requests, kreallocMove(p, s)
      PROVE  Abstract!Move
  <2>1. PICK q \in Pointers : /\ Walk(q, s, HeaderOf(p))
                              /\ held' = With(Without(held, p), q, s)
    BY <1>4 DEF kreallocMove
  <2>2. PICK h : Obtained(h, q, s)
    BY <2>1, WalkObtains
  <2>3. q \in Nat \ {0} /\ q = Payload(HeaderOf(q)) /\ heapSize' \in Nat
    BY <2>1, WalkObtains
  <2>4. /\ q \notin DOMAIN held /\ q % 4 = 0
        /\ \A r \in DOMAIN held : Abstract!Apart(q, s, r)
    BY <2>2, <2>3, ObtainedApart
  <2>5. q \in DOMAIN held' \ DOMAIN held /\ q > 0
    BY <2>1, <2>3, <2>4 DEF With
  <2>6. held' = [r \in (DOMAIN held \ {p}) \cup {q} |->
                    IF r = q THEN s ELSE held[r]]
    BY <2>1 DEF With, Without
  <2> QED
    BY <2>4, <2>5, <2>6 DEF Abstract!Move
<1>5. CASE UNCHANGED vars
  BY <1>5 DEF vars
<1> QED
  BY <1>1, <1>2, <1>3, <1>4, <1>5 DEF Next, Abstract!HeapNext

\* Every behaviour of kmalloc, kfree and krealloc is one HeapSpec allows.
THEOREM Refinement == Spec => Implements
<1>1. Init => Abstract!HeapInit
  BY DEF Init, Abstract!HeapInit
<1>2. Spec => []Inv
  BY InitInv, NextInv, PTL DEF Spec
<1> QED
  BY <1>1, <1>2, StepSimulation, PTL
  DEF Spec, Implements, Abstract!HeapSpecification

-----------------------------------------------------------------------------
(***************************************************************************)
(* The frames.                                                             *)
(***************************************************************************)
USE PageFramesAssumption

FramesInv ==
    /\ pageFrameMin \in Nat \ {0}
    /\ pageFrameMax \in Nat
    /\ used \subseteq Frames
    /\ IsFiniteSet(used)
    /\ taken = used
    /\ totalAlloc = Cardinality(used)

\* The range of whole bytes lies inside the range of frames.
LEMMA ManagedIsMemory ==
    ASSUME NEW min \in Nat \ {0}, NEW max \in Nat
    PROVE  \A f \in Managed(min, max) : f \in Nat \ {0} /\ min <= f /\ f < max
<1>1. FirstByte(min) \in Nat /\ FirstByte(min) * 8 >= min
  BY DEF FirstByte
<1>2. EndByte(max) \in Int /\ EndByte(max) * 8 <= max
  BY DEF EndByte
<1> QED
  BY <1>1, <1>2 DEF Managed

LEMMA FramesInitInv == PMMInit => FramesInv
<1> SUFFICES ASSUME PMMInit PROVE FramesInv
  OBVIOUS
<1>1. pageFrameMin \in Nat \ {0} /\ pageFrameMax \in Nat
  BY DEF PMMInit, CeilDiv
<1>2. IsFiniteSet({}) /\ Cardinality({}) = 0
  BY FS_EmptySet
<1> QED
  BY <1>1, <1>2 DEF PMMInit, FramesInv

LEMMA FramesNextInv == FramesInv /\ [PMMNext]_pmmVars => FramesInv'
<1> SUFFICES ASSUME FramesInv, [PMMNext]_pmmVars PROVE FramesInv'
  OBVIOUS
<1> USE DEF FramesInv
<1>1. CASE PMMAllocPageFrame
  <2> PICK f \in Frames \cup {NoFrame} :
             /\ NextFrame(Frames, used, f)
             /\ IF f = NoFrame
                THEN UNCHANGED pmmVars
                ELSE /\ used' = used \cup {f}
                     /\ taken' = taken \cup {f}
                     /\ totalAlloc' = totalAlloc + 1
                     /\ UNCHANGED <<pageFrameMin, pageFrameMax>>
    BY <1>1 DEF PMMAllocPageFrame
  <2>1. CASE f = NoFrame
    BY <2>1 DEF pmmVars, Frames
  <2>2. CASE f # NoFrame
    <3>1. f \in Frames \ used
      BY <2>2 DEF NextFrame
    <3>2. IsFiniteSet(used') /\ Cardinality(used') = Cardinality(used) + 1
      BY <2>2, <3>1, FS_AddElement
    <3>3. Frames' = Frames
      BY <2>2 DEF Frames
    <3> QED
      BY <2>2, <3>1, <3>2, <3>3
  <2> QED
    BY <2>1, <2>2
<1>2. ASSUME NEW f \in taken, PMMFreePageFrame(f) PROVE FramesInv'
  <2>1. f \in used /\ used' = used \ {f}
    BY <1>2 DEF PMMFreePageFrame, ClearBit
  <2>2. IsFiniteSet(used') /\ Cardinality(used') = Cardinality(used) - 1
    BY <2>1, FS_RemoveElement
  <2>3. Frames' = Frames
    BY <1>2 DEF PMMFreePageFrame, Frames
  <2> QED
    BY <1>2, <2>1, <2>2, <2>3 DEF PMMFreePageFrame
<1>3. CASE UNCHANGED pmmVars
  BY <1>3 DEF pmmVars, Frames
<1> QED
  BY <1>1, <1>2, <1>3 DEF PMMNext

\* Frames handed out are memory above the kernel, and bitmap, count and
\* callers agree (mm/memory.c:27-50, 133-140).
THEOREM FramesSafety == PMMSpec => [](PMMTypeOK /\ FramesSound)
<1>1. FramesInv => PMMTypeOK /\ FramesSound
  <2> SUFFICES ASSUME FramesInv PROVE PMMTypeOK /\ FramesSound
    OBVIOUS
  <2>1. \A f \in used : f \in Nat \ {0} /\ f \in Memory
    BY ManagedIsMemory DEF FramesInv, Frames, Memory
  <2>2. totalAlloc \in Nat
    BY FS_CardinalityType DEF FramesInv
  <2> QED
    BY <2>1, <2>2 DEF FramesInv, PMMTypeOK, TakenIsMemory, BitmapExact, FramesSound
<1> QED
  BY <1>1, FramesInitInv, FramesNextInv, PTL DEF PMMSpec

(***************************************************************************)
(* What rounding to whole bytes leaves out, at the bottom and at the top.  *)
(***************************************************************************)
LEMMA RoundingLoss ==
    ASSUME NEW min \in Nat \ {0}, NEW max \in Nat
    PROVE  /\ FirstByte(min) * 8 \in Nat /\ FirstByte(min) * 8 - min \in 0 .. 7
           /\ EndByte(max) * 8 \in Int /\ max - EndByte(max) * 8 \in 0 .. 15
<1>1. FirstByte(min) * 8 \in Nat /\ FirstByte(min) * 8 - min \in 0 .. 7
  BY DEF FirstByte
<1>2. EndByte(max) * 8 \in Int /\ max - EndByte(max) * 8 \in 0 .. 15
  BY DEF EndByte
<1> QED
  BY <1>1, <1>2

\* When the allocator finds nothing, at most 22 frames of the memory are
\* unused (mm/memory.c:28-29).
THEOREM Waste == PMMSpec => []WasteBounded
<1>1. FramesInv => WasteBounded
  <2> SUFFICES ASSUME FramesInv, Frames \subseteq used
               PROVE  Cardinality(Memory \ used) <= 22
    BY DEF WasteBounded
  <2> DEFINE lo == FirstByte(pageFrameMin) * 8
             hi == EndByte(pageFrameMax) * 8
             A == pageFrameMin .. lo - 1
             B == hi .. pageFrameMax - 1
  <2>1. /\ pageFrameMin \in Nat \ {0} /\ pageFrameMax \in Nat
        /\ lo \in Nat /\ lo - pageFrameMin \in 0 .. 7
        /\ hi \in Int /\ pageFrameMax - hi \in 0 .. 15
    BY RoundingLoss DEF FramesInv
  <2>2. Memory \ used \subseteq A \cup B
    BY <2>1 DEF Memory, Frames, Managed, FramesInv
  <2> HIDE DEF lo, hi
  <2>3. IsFiniteSet(A) /\ Cardinality(A) <= 7
    <3>1. IsFiniteSet(A)
          /\ Cardinality(A) = IF pageFrameMin > lo - 1 THEN 0 ELSE lo - 1 - pageFrameMin + 1
      BY <2>1, FS_Interval
    <3> QED
      BY <3>1, <2>1
  <2>4. IsFiniteSet(B) /\ Cardinality(B) <= 15
    <3>1. IsFiniteSet(B)
          /\ Cardinality(B) = IF hi > pageFrameMax - 1 THEN 0 ELSE pageFrameMax - 1 - hi + 1
      BY <2>1, FS_Interval
    <3> QED
      BY <3>1, <2>1
  <2> HIDE DEF A, B
  <2>5. /\ IsFiniteSet(A \cup B)
        /\ Cardinality(A \cup B) = Cardinality(A) + Cardinality(B) - Cardinality(A \cap B)
    BY <2>3, <2>4, FS_Union
  <2>6. Cardinality(A \cap B) \in Nat /\ Cardinality(A) \in Nat /\ Cardinality(B) \in Nat
    <3>1. IsFiniteSet(A \cap B)
      BY <2>3, FS_Intersection
    <3> QED
      BY <3>1, <2>3, <2>4, FS_CardinalityType
  <2>7. Cardinality(Memory \ used) <= Cardinality(A \cup B)
        /\ Cardinality(Memory \ used) \in Nat /\ Cardinality(A \cup B) \in Nat
    <3>1. IsFiniteSet(Memory \ used) /\ Cardinality(Memory \ used) <= Cardinality(A \cup B)
      BY <2>2, <2>5, FS_Subset
    <3> QED
      BY <3>1, <2>5, FS_CardinalityType
  <2> QED
    BY <2>3, <2>4, <2>5, <2>6, <2>7
<1>2. PMMSpec => []FramesInv
  BY FramesInitInv, FramesNextInv, PTL DEF PMMSpec
<1> QED
  BY <1>1, <1>2, PTL
=============================================================================
