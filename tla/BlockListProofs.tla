-------------------------- MODULE BlockListProofs ---------------------------
(***************************************************************************)
(* Each operation of BlockList keeps a partition of the bytes from lo to   *)
(* hi a partition, for every list of headers and every size.               *)
(***************************************************************************)
EXTENDS BlockList, TLAPS

List(h, lo, hi) ==
    /\ DOMAIN h \subseteq Nat
    /\ h \in [DOMAIN h -> Header]
    /\ Partition(h, lo, hi)

USE BlockListAssumption

(***************************************************************************)
(* Marking a block changes no link and no size.                            *)
(***************************************************************************)
LEMMA SetFreeList ==
    ASSUME NEW h, NEW lo \in Nat \ {0}, NEW hi \in Nat, List(h, lo, hi),
           NEW b \in DOMAIN h, NEW v \in BOOLEAN
    PROVE  List(SetFree(h, b, v), lo, hi)
<1> DEFINE k == SetFree(h, b, v)
<1>1. /\ DOMAIN k = DOMAIN h
      /\ k \in [DOMAIN h -> Header]
      /\ \A c \in DOMAIN h : /\ k[c].size = h[c].size
                             /\ k[c].next = h[c].next
                             /\ k[c].prev = h[c].prev
  BY DEF List, SetFree, Header
<1>2. \A c \in DOMAIN h : End(k, c) = End(h, c)
  BY <1>1 DEF End
<1> HIDE DEF k
<1>3. ForwardLinks(k, hi)
  BY <1>1, <1>2 DEF List, Partition, ForwardLinks
<1>4. BackwardLinks(k, lo)
  BY <1>1, <1>2 DEF List, Partition, BackwardLinks
<1>5. InOrder(k, lo, hi)
  BY <1>1, <1>2 DEF List, Partition, InOrder
<1> QED
  BY <1>1, <1>3, <1>4, <1>5 DEF List, Partition, k

(***************************************************************************)
(* Splitting: the rest of block b becomes a block between b and its next.  *)
(***************************************************************************)
Room(h, b, n) == h[b].size >= n + HeaderSize

After(b, n) == b + HeaderSize + n

LEMMA SplitList ==
    ASSUME NEW h, NEW lo \in Nat \ {0}, NEW hi \in Nat, List(h, lo, hi),
           NEW b \in DOMAIN h, NEW n \in Nat, Room(h, b, n)
    PROVE  /\ List(Split(h, b, n), lo, hi)
           /\ DOMAIN Split(h, b, n) = DOMAIN h \cup {After(b, n)}
           /\ After(b, n) \notin DOMAIN h
<1> USE DEF Room, After
<1> DEFINE new == b + HeaderSize + n
           k == Split(h, b, n)
<1>1. /\ DOMAIN h \subseteq Nat
      /\ \A c \in DOMAIN h : h[c] \in Header
      /\ \A c \in DOMAIN h : /\ h[c].size \in Nat /\ h[c].next \in Nat
                             /\ h[c].prev \in Nat /\ h[c].free \in BOOLEAN
      /\ ForwardLinks(h, hi) /\ BackwardLinks(h, lo) /\ InOrder(h, lo, hi)
  BY DEF List, Header, Partition
<1>2. /\ new \in Nat /\ new > b /\ new < End(h, b)
      /\ \A c \in DOMAIN h : End(h, c) \in Nat /\ End(h, c) > c
  BY <1>1 DEF End
<1>3. new \notin DOMAIN h
  BY <1>1, <1>2 DEF InOrder, End
<1>4. b # h[b].next
  BY <1>1 DEF ForwardLinks, InOrder, End, NULL
<1>5. DOMAIN k = DOMAIN h \cup {new}
  BY DEF Split
<1>6. k[new] = [size |-> h[b].size - n - HeaderSize, free |-> TRUE,
                next |-> h[b].next, prev |-> b]
  BY DEF Split
<1>7. k[b] = [h[b] EXCEPT !.size = n, !.next = new]
  BY <1>3 DEF Split
<1>8. h[b].next \in DOMAIN h => k[h[b].next] = [h[h[b].next] EXCEPT !.prev = new]
  BY <1>3, <1>4 DEF Split
<1>9. \A c \in DOMAIN h \ {b, h[b].next} : k[c] = h[c]
  BY <1>3 DEF Split
<1> HIDE DEF k
<1>10. /\ k[new].size = h[b].size - n - HeaderSize
       /\ k[new].next = h[b].next /\ k[new].prev = b
       /\ k[b].size = n /\ k[b].next = new /\ k[b].prev = h[b].prev
       /\ \A c \in DOMAIN h \ {b} : /\ k[c].size = h[c].size
                                    /\ k[c].next = h[c].next
       /\ \A c \in DOMAIN h \ {h[b].next} : k[c].prev = h[c].prev
       /\ h[b].next \in DOMAIN h => k[h[b].next].prev = new
  <2>1. /\ k[new].size = h[b].size - n - HeaderSize
        /\ k[new].next = h[b].next /\ k[new].prev = b
    BY <1>6
  <2>2. k[b].size = n /\ k[b].next = new /\ k[b].prev = h[b].prev
    BY <1>1, <1>7 DEF Header
  <2>3. h[b].next \in DOMAIN h =>
          /\ k[h[b].next].prev = new
          /\ k[h[b].next].size = h[h[b].next].size
          /\ k[h[b].next].next = h[h[b].next].next
    BY <1>1, <1>8 DEF Header
  <2> QED
    BY <1>4, <1>9, <2>1, <2>2, <2>3
<1>11. \A c \in DOMAIN k : k[c] \in Header
  <2>1. h[b].size - n - HeaderSize \in Nat
    BY <1>1
  <2>2. k[new] \in Header
    BY <1>1, <1>6, <2>1 DEF Header
  <2>3. k[b] \in Header
    BY <1>1, <1>2, <1>7 DEF Header
  <2>4. h[b].next \in DOMAIN h => k[h[b].next] \in Header
    BY <1>1, <1>2, <1>8 DEF Header
  <2> QED
    BY <1>1, <1>5, <1>9, <2>2, <2>3, <2>4
<1>12. /\ End(k, new) = End(h, b) /\ End(k, b) = new
       /\ \A c \in DOMAIN h \ {b} : End(k, c) = End(h, c)
  <2>1. End(k, new) = new + HeaderSize + (h[b].size - n - HeaderSize)
    BY <1>10 DEF End
  <2>2. End(k, b) = new
    BY <1>10 DEF End
  <2>3. \A c \in DOMAIN h \ {b} : End(k, c) = End(h, c)
    BY <1>10 DEF End
  <2> QED
    BY <2>1, <2>2, <2>3, <1>1 DEF End
<1>13. ForwardLinks(k, hi)
  <2> SUFFICES ASSUME NEW c \in DOMAIN k
               PROVE  IF k[c].next = NULL
                      THEN End(k, c) = hi
                      ELSE /\ k[c].next \in DOMAIN k
                           /\ k[c].next = End(k, c)
                           /\ k[k[c].next].prev = c
    BY DEF ForwardLinks
  <2>1. CASE c = new
    BY <2>1, <1>1, <1>5, <1>10, <1>12 DEF ForwardLinks
  <2>2. CASE c = b
    BY <2>2, <1>1, <1>2, <1>5, <1>10, <1>12 DEF NULL
  <2>3. CASE c \in DOMAIN h \ {b}
    BY <2>3, <1>1, <1>5, <1>10, <1>12 DEF ForwardLinks
  <2> QED
    BY <2>1, <2>2, <2>3, <1>5
<1>14. BackwardLinks(k, lo)
  <2> SUFFICES ASSUME NEW c \in DOMAIN k
               PROVE  IF c = lo
                      THEN k[c].prev = NULL
                      ELSE k[c].prev \in DOMAIN k /\ k[k[c].prev].next = c
    BY DEF BackwardLinks
  <2>1. CASE c = new
    BY <2>1, <1>1, <1>3, <1>5, <1>10 DEF InOrder
  <2>2. CASE c = h[b].next /\ c \in DOMAIN h
    <3>1. c # lo
      BY <2>2, <1>1, <1>2 DEF InOrder, ForwardLinks, NULL
    <3> QED
      BY <3>1, <2>2, <1>1, <1>5, <1>10
  <2>3. CASE c \in DOMAIN h \ {h[b].next}
    BY <2>3, <1>1, <1>5, <1>10 DEF BackwardLinks
  <2> QED
    BY <2>1, <2>2, <2>3, <1>5
<1>15. InOrder(k, lo, hi)
  <2>1. /\ lo \in DOMAIN k
        /\ \A c \in DOMAIN h : lo <= c /\ End(h, c) <= hi
    BY <1>1, <1>5 DEF InOrder
  <2>2. ASSUME NEW c \in DOMAIN k
        PROVE  lo <= c /\ End(k, c) <= hi
    <3>1. CASE c = new
      BY <3>1, <2>1, <1>1, <1>2, <1>12
    <3>2. CASE c = b
      BY <3>2, <2>1, <1>1, <1>2, <1>12
    <3>3. CASE c \in DOMAIN h \ {b}
      BY <3>3, <2>1, <1>12
    <3> QED
      BY <3>1, <3>2, <3>3, <1>5
  <2>3. ASSUME NEW c \in DOMAIN k, NEW d \in DOMAIN k, c < d
        PROVE  End(k, c) <= d
    BY <2>3, <1>1, <1>2, <1>5, <1>12 DEF InOrder
  <2> QED
    BY <2>1, <2>2, <2>3 DEF InOrder
<1>16. DOMAIN k \subseteq Nat /\ k \in [DOMAIN k -> Header]
  <2>1. k = [c \in DOMAIN k |-> k[c]]
    BY DEF k, Split
  <2> QED
    BY <2>1, <1>1, <1>2, <1>5, <1>11
<1> QED
  BY <1>3, <1>5, <1>10, <1>13, <1>14, <1>15, <1>16 DEF List, Partition, k

(***************************************************************************)
(* Growing the heap: the last block gets d more bytes, or a block of n     *)
(* bytes is linked behind it.                                              *)
(***************************************************************************)
LEMMA ExtendList ==
    ASSUME NEW h, NEW lo \in Nat \ {0}, NEW hi \in Nat, List(h, lo, hi),
           NEW b \in DOMAIN h, NEW d \in Nat, Last(h, b)
    PROVE  /\ List(Extend(h, b, d), lo, hi + d)
           /\ Last(Extend(h, b, d), b)
<1> DEFINE k == Extend(h, b, d)
<1>1. /\ DOMAIN h \subseteq Nat
      /\ \A c \in DOMAIN h : h[c] \in Header
      /\ \A c \in DOMAIN h : /\ h[c].size \in Nat /\ h[c].next \in Nat
                             /\ h[c].prev \in Nat /\ h[c].free \in BOOLEAN
      /\ \A c \in DOMAIN h : End(h, c) \in Nat /\ End(h, c) > c
      /\ ForwardLinks(h, hi) /\ BackwardLinks(h, lo) /\ InOrder(h, lo, hi)
  BY DEF List, Header, Partition, End
<1>2. /\ DOMAIN k = DOMAIN h
      /\ k[b] = [h[b] EXCEPT !.size = h[b].size + d]
      /\ \A c \in DOMAIN h \ {b} : k[c] = h[c]
      /\ k = [c \in DOMAIN h |-> k[c]]
  BY DEF Extend
<1> HIDE DEF k
<1>3. k[b] \in Header /\ k[b].size = h[b].size + d
  BY <1>1, <1>2 DEF Header
<1>4. \A c \in DOMAIN h : k[c].next = h[c].next /\ k[c].prev = h[c].prev
  BY <1>1, <1>2 DEF Header
<1>5. End(k, b) = End(h, b) + d /\ \A c \in DOMAIN h \ {b} : End(k, c) = End(h, c)
  BY <1>1, <1>2, <1>3 DEF End
<1>6. End(h, b) = hi /\ \A c \in DOMAIN h \ {b} : c < b /\ h[c].next # NULL
  <2>1. End(h, b) = hi
    BY <1>1 DEF ForwardLinks, Last
  <2>2. ASSUME NEW c \in DOMAIN h \ {b} PROVE c < b
    BY <2>1, <1>1 DEF InOrder
  <2>3. ASSUME NEW c \in DOMAIN h \ {b} PROVE h[c].next # NULL
    BY <2>1, <2>2, <1>1 DEF InOrder, ForwardLinks
  <2> QED
    BY <2>1, <2>2, <2>3
<1>7. ForwardLinks(k, hi + d)
  BY <1>1, <1>2, <1>4, <1>5, <1>6 DEF ForwardLinks, Last
<1>8. BackwardLinks(k, lo)
  BY <1>1, <1>2, <1>4 DEF BackwardLinks
<1>9. InOrder(k, lo, hi + d)
  BY <1>1, <1>2, <1>5, <1>6 DEF InOrder
<1>10. k \in [DOMAIN k -> Header]
  BY <1>1, <1>2, <1>3
<1> QED
  BY <1>1, <1>2, <1>4, <1>7, <1>8, <1>9, <1>10 DEF List, Partition, Last, k

LEMMA AppendList ==
    ASSUME NEW h, NEW lo \in Nat \ {0}, NEW hi \in Nat, List(h, lo, hi),
           NEW b \in DOMAIN h, NEW n \in Nat, NEW v \in BOOLEAN, Last(h, b)
    PROVE  /\ List(AppendBlock(h, b, n, v), lo, hi + HeaderSize + n)
           /\ DOMAIN AppendBlock(h, b, n, v) = DOMAIN h \cup {End(h, b)}
           /\ End(h, b) = hi
           /\ End(h, b) \notin DOMAIN h
<1> DEFINE k == AppendBlock(h, b, n, v)
<1>1. /\ DOMAIN h \subseteq Nat
      /\ \A c \in DOMAIN h : h[c] \in Header
      /\ \A c \in DOMAIN h : /\ h[c].size \in Nat /\ h[c].next \in Nat
                             /\ h[c].prev \in Nat /\ h[c].free \in BOOLEAN
      /\ \A c \in DOMAIN h : End(h, c) \in Nat /\ End(h, c) > c
      /\ ForwardLinks(h, hi) /\ BackwardLinks(h, lo) /\ InOrder(h, lo, hi)
  BY DEF List, Header, Partition, End
<1>2. End(h, b) = hi /\ hi > 0 /\ hi > b
  BY <1>1 DEF ForwardLinks, Last, InOrder
<1>3. hi \notin DOMAIN h
  BY <1>1, <1>2 DEF InOrder
<1>4. /\ DOMAIN k = DOMAIN h \cup {hi}
      /\ k[hi] = [size |-> n, free |-> v, next |-> NULL, prev |-> b]
      /\ k[b] = [h[b] EXCEPT !.next = hi]
      /\ \A c \in DOMAIN h \ {b} : k[c] = h[c]
      /\ k = [c \in DOMAIN h \cup {hi} |-> k[c]]
  BY <1>2, <1>3 DEF AppendBlock
<1> HIDE DEF k
<1>5. \A c \in DOMAIN h \ {b} : c < b /\ h[c].next # NULL
  BY <1>1, <1>2 DEF InOrder, ForwardLinks
<1>6. /\ k[hi] \in Header /\ k[b] \in Header
      /\ k[hi].size = n /\ k[hi].next = NULL /\ k[hi].prev = b
      /\ k[b].size = h[b].size /\ k[b].next = hi /\ k[b].prev = h[b].prev
  BY <1>1, <1>4 DEF Header, NULL
<1>7. /\ \A c \in DOMAIN h : End(k, c) = End(h, c)
      /\ End(k, hi) = hi + HeaderSize + n
  BY <1>4, <1>6 DEF End
<1>8. ForwardLinks(k, hi + HeaderSize + n)
  <2> SUFFICES ASSUME NEW c \in DOMAIN k
               PROVE  IF k[c].next = NULL
                      THEN End(k, c) = hi + HeaderSize + n
                      ELSE /\ k[c].next \in DOMAIN k
                           /\ k[c].next = End(k, c)
                           /\ k[k[c].next].prev = c
    BY DEF ForwardLinks
  <2>1. CASE c = hi
    BY <2>1, <1>6, <1>7
  <2>2. CASE c = b
    BY <2>2, <1>2, <1>4, <1>6, <1>7 DEF NULL
  <2>3. CASE c \in DOMAIN h \ {b}
    <3>1. /\ k[c].next = h[c].next /\ h[c].next \in DOMAIN h
          /\ h[c].next = End(k, c) /\ h[h[c].next].prev = c
      BY <2>3, <1>1, <1>4, <1>5, <1>7 DEF ForwardLinks
    <3>2. k[h[c].next].prev = h[h[c].next].prev
      BY <3>1, <1>4, <1>6
    <3> QED
      BY <3>1, <3>2, <1>4, <2>3, <1>5
  <2> QED
    BY <2>1, <2>2, <2>3, <1>4
<1>9. BackwardLinks(k, lo)
  <2> SUFFICES ASSUME NEW c \in DOMAIN k
               PROVE  IF c = lo
                      THEN k[c].prev = NULL
                      ELSE k[c].prev \in DOMAIN k /\ k[k[c].prev].next = c
    BY DEF BackwardLinks
  <2>1. CASE c = hi
    BY <2>1, <1>1, <1>3, <1>4, <1>6 DEF InOrder
  <2>2. CASE c \in DOMAIN h
    <3>1. k[c].prev = h[c].prev
      BY <2>2, <1>4, <1>6
    <3>2. c # lo => h[c].prev \in DOMAIN h \ {b} /\ h[h[c].prev].next = c
      BY <2>2, <1>1, <1>5 DEF BackwardLinks, Last, NULL, InOrder
    <3> QED
      BY <2>2, <3>1, <3>2, <1>1, <1>4 DEF BackwardLinks
  <2> QED
    BY <2>1, <2>2, <1>4
<1>10. InOrder(k, lo, hi + HeaderSize + n)
  BY <1>1, <1>2, <1>4, <1>7 DEF InOrder
<1>11. DOMAIN k \subseteq Nat /\ k \in [DOMAIN k -> Header]
  BY <1>1, <1>4, <1>6
<1> QED
  BY <1>2, <1>3, <1>4, <1>6, <1>8, <1>9, <1>10, <1>11 DEF List, Partition, k

(***************************************************************************)
(* Handing a block out.                                                    *)
(***************************************************************************)
InUse(h) == {b \in DOMAIN h : ~ h[b].free}

LEMMA TakeList ==
    ASSUME NEW h, NEW lo \in Nat \ {0}, NEW hi \in Nat, List(h, lo, hi),
           NEW b \in DOMAIN h, NEW n \in Nat, Fits(h, b, n)
    PROVE  /\ List(Take(h, b, n), lo, hi)
           /\ InUse(Take(h, b, n)) = InUse(h) \cup {b}
           /\ Take(h, b, n)[b].size >= n
           /\ \A c \in DOMAIN h \ {b} : Take(h, b, n)[c].size = h[c].size
           /\ NoAdjacentFree(h) => NoAdjacentFree(Take(h, b, n))
<1>1. /\ DOMAIN h \subseteq Nat
      /\ \A c \in DOMAIN h : /\ h[c].size \in Nat /\ h[c].next \in Nat
                             /\ h[c].prev \in Nat /\ h[c].free \in BOOLEAN
                             /\ h[c] \in Header
      /\ \A c \in DOMAIN h : End(h, c) \in Nat /\ End(h, c) > c
      /\ ForwardLinks(h, hi) /\ BackwardLinks(h, lo) /\ InOrder(h, lo, hi)
  BY DEF List, Header, Partition, End
<1>2. CASE h[b].size >= n + HeaderSize + MinSplit
  <2>0. Room(h, b, n)
    BY <1>1, <1>2 DEF Room
  <2>1. /\ List(Split(h, b, n), lo, hi)
        /\ DOMAIN Split(h, b, n) = DOMAIN h \cup {After(b, n)}
        /\ After(b, n) \notin DOMAIN h
    BY <2>0, SplitList
  <2> DEFINE s == Split(h, b, n)
             k == SetFree(s, b, FALSE)
             new == After(b, n)
  <2>2. List(k, lo, hi)
    BY <2>1, SetFreeList
  <2>3. b # h[b].next
    BY <1>1 DEF ForwardLinks, InOrder, End, NULL
  <2>4. /\ DOMAIN k = DOMAIN h \cup {new}
        /\ k[b].free = FALSE /\ k[b].size = n /\ k[b].next = new
        /\ k[new] = [size |-> h[b].size - n - HeaderSize, free |-> TRUE,
                     next |-> h[b].next, prev |-> b]
        /\ h[b].next \in DOMAIN h =>
              k[h[b].next] = [h[h[b].next] EXCEPT !.prev = new]
        /\ \A c \in DOMAIN h \ {b, h[b].next} : k[c] = h[c]
    BY <2>1, <2>3, <1>1 DEF Split, SetFree, Header, After
  <2> HIDE DEF k
  <2>5. /\ k[new].free = TRUE /\ k[new].next = h[b].next
        /\ \A c \in DOMAIN h \ {b} : /\ k[c].size = h[c].size
                                     /\ k[c].free = h[c].free
                                     /\ k[c].next = h[c].next
    BY <2>4, <1>1 DEF Header
  <2>6. InUse(k) = InUse(h) \cup {b}
    BY <2>1, <2>4, <2>5 DEF InUse
  <2>7. NoAdjacentFree(h) => NoAdjacentFree(k)
    <3> SUFFICES ASSUME NoAdjacentFree(h), NEW c \in DOMAIN k,
                        k[c].free, k[c].next # NULL
                 PROVE  ~ k[k[c].next].free
      BY DEF NoAdjacentFree
    <3>1. CASE c = new
      BY <3>1, <2>1, <2>3, <2>4, <2>5, <1>1 DEF NoAdjacentFree, Fits, ForwardLinks
    <3>2. CASE c \in DOMAIN h \ {b}
      BY <3>2, <2>4, <2>5, <1>1 DEF NoAdjacentFree, ForwardLinks
    <3> QED
      BY <3>1, <3>2, <2>4
  <2>8. Take(h, b, n) = k
    BY <1>2 DEF Take, k
  <2> QED
    BY <2>2, <2>4, <2>5, <2>6, <2>7, <2>8
<1>3. CASE ~ (h[b].size >= n + HeaderSize + MinSplit)
  <2> DEFINE k == SetFree(h, b, FALSE)
  <2>1. Take(h, b, n) = k
    BY <1>3 DEF Take
  <2>2. /\ DOMAIN k = DOMAIN h
        /\ k[b].free = FALSE /\ k[b].size = h[b].size
        /\ \A c \in DOMAIN h \ {b} : k[c] = h[c]
        /\ \A c \in DOMAIN h : k[c].next = h[c].next
    BY <1>1 DEF SetFree, Header
  <2>3. List(k, lo, hi)
    BY SetFreeList
  <2> HIDE DEF k
  <2>4. NoAdjacentFree(h) => NoAdjacentFree(k)
    BY <2>2, <1>1 DEF NoAdjacentFree, ForwardLinks
  <2>5. InUse(k) = InUse(h) \cup {b}
    BY <2>2 DEF InUse
  <2> QED
    BY <2>1, <2>2, <2>3, <2>4, <2>5, <1>1 DEF Fits
<1> QED
  BY <1>2, <1>3

(***************************************************************************)
(* Taking over the next block: one header goes, its bytes are kept.        *)
(***************************************************************************)
\* How k, the list after b has taken over the block behind it, differs from h.
Absorbed(h, b, k) ==
    /\ DOMAIN k = DOMAIN h \ {h[b].next}
    /\ b # h[b].next /\ h[b].next \in DOMAIN h
    /\ k[b].next = h[h[b].next].next
    /\ \A c \in DOMAIN h \ {h[b].next} :
         /\ k[c].free = h[c].free
         /\ c # b => k[c].size = h[c].size
         /\ c # b => k[c].next = h[c].next
         /\ c # h[h[b].next].next => k[c].prev = h[c].prev

LEMMA AbsorbList ==
    ASSUME NEW h, NEW lo \in Nat \ {0}, NEW hi \in Nat, List(h, lo, hi),
           NEW b \in DOMAIN h, h[b].next # NULL
    PROVE  /\ List(AbsorbNext(h, b), lo, hi)
           /\ Absorbed(h, b, AbsorbNext(h, b))
<1> PICK n : n = h[b].next
  OBVIOUS
<1> PICK m : m = h[n].next
  OBVIOUS
<1> DEFINE k == AbsorbNext(h, b)
<1>1. /\ DOMAIN h \subseteq Nat
      /\ \A c \in DOMAIN h : h[c] \in Header
      /\ \A c \in DOMAIN h : /\ h[c].size \in Nat /\ h[c].next \in Nat
                             /\ h[c].prev \in Nat /\ h[c].free \in BOOLEAN
      /\ \A c \in DOMAIN h : End(h, c) \in Nat /\ End(h, c) > c
      /\ ForwardLinks(h, hi) /\ BackwardLinks(h, lo) /\ InOrder(h, lo, hi)
  BY DEF List, Header, Partition, End
<1>2. n \in DOMAIN h /\ n = End(h, b) /\ h[n].prev = b /\ n > b /\ n # lo
  BY <1>1 DEF ForwardLinks, InOrder
<1>3. m # b /\ m # n /\ (m # NULL => m \in DOMAIN h /\ m = End(h, n) /\ h[m].prev = n)
  BY <1>1, <1>2 DEF ForwardLinks, InOrder, NULL
<1>4. /\ DOMAIN k = DOMAIN h \ {n}
      /\ k[b] = [h[b] EXCEPT !.size = h[b].size + HeaderSize + h[n].size,
                             !.next = m]
      /\ m \in DOMAIN h => k[m] = [h[m] EXCEPT !.prev = b]
      /\ \A c \in DOMAIN h \ {b, n, m} : k[c] = h[c]
      /\ k = [c \in DOMAIN h \ {n} |-> k[c]]
  BY <1>2, <1>3 DEF AbsorbNext
<1> HIDE DEF k
<1>5. /\ k[b].size = h[b].size + HeaderSize + h[n].size
      /\ k[b].next = m /\ k[b].prev = h[b].prev /\ k[b].free = h[b].free
      /\ k[b] \in Header
  <2>1. k[b].size = h[b].size + HeaderSize + h[n].size
    BY <1>1, <1>4 DEF Header
  <2>2. k[b].next = m /\ k[b].prev = h[b].prev /\ k[b].free = h[b].free
    BY <1>1, <1>4 DEF Header
  <2>3. m \in Nat /\ h[b].size + HeaderSize + h[n].size \in Nat
    BY <1>1, <1>2
  <2>4. k[b] \in Header
    BY <2>3, <1>1, <1>4 DEF Header
  <2> QED
    BY <2>1, <2>2, <2>4
<1>6. m \in DOMAIN h =>
        /\ k[m].size = h[m].size /\ k[m].next = h[m].next
        /\ k[m].prev = b /\ k[m].free = h[m].free
        /\ k[m] \in Header
  BY <1>1, <1>4, ZenonT(40) DEF Header
<1>7. /\ \A c \in DOMAIN h \ {b, n} : /\ k[c].size = h[c].size
                                      /\ k[c].next = h[c].next
      /\ \A c \in DOMAIN h \ {n} : k[c].free = h[c].free
      /\ \A c \in DOMAIN h \ {m, n} : k[c].prev = h[c].prev
      /\ \A c \in DOMAIN k : k[c] \in Header
  BY <1>1, <1>2, <1>4, <1>5, <1>6
<1>8. End(k, b) = End(h, n) /\ \A c \in DOMAIN h \ {b, n} : End(k, c) = End(h, c)
  <2>1. End(k, b) = b + HeaderSize + (h[b].size + HeaderSize + h[n].size)
    BY <1>5 DEF End
  <2>2. End(h, n) = b + HeaderSize + h[b].size + HeaderSize + h[n].size
    BY <1>2 DEF End
  <2>3. \A c \in DOMAIN h \ {b, n} : End(k, c) = End(h, c)
    BY <1>7 DEF End
  <2> QED
    BY <2>1, <2>2, <2>3, <1>1, <1>2
<1>9. ForwardLinks(k, hi)
  <2> SUFFICES ASSUME NEW c \in DOMAIN k
               PROVE  IF k[c].next = NULL
                      THEN End(k, c) = hi
                      ELSE /\ k[c].next \in DOMAIN k
                           /\ k[c].next = End(k, c)
                           /\ k[k[c].next].prev = c
    BY DEF ForwardLinks
  <2>1. CASE c = b
    BY <2>1, <1>1, <1>2, <1>3, <1>4, <1>5, <1>6, <1>8 DEF ForwardLinks
  <2>2. CASE c \in DOMAIN h \ {b, n}
    <3>1. k[c].next = h[c].next /\ End(k, c) = End(h, c)
      BY <2>2, <1>7, <1>8
    <3>2. CASE h[c].next # NULL
      <4>1. /\ h[c].next \in DOMAIN h /\ h[h[c].next].prev = c
            /\ h[c].next = End(h, c)
        BY <2>2, <3>2, <1>1 DEF ForwardLinks
      <4>2. h[c].next # n /\ h[c].next # m
        BY <4>1, <2>2, <3>2, <1>2, <1>3
      <4> QED
        BY <4>1, <4>2, <3>1, <3>2, <1>4, <1>7
    <3> QED
      BY <3>1, <3>2, <2>2, <1>1 DEF ForwardLinks
  <2> QED
    BY <2>1, <2>2, <1>4
<1>10. BackwardLinks(k, lo)
  <2> SUFFICES ASSUME NEW c \in DOMAIN k
               PROVE  IF c = lo
                      THEN k[c].prev = NULL
                      ELSE k[c].prev \in DOMAIN k /\ k[k[c].prev].next = c
    BY DEF BackwardLinks
  <2>1. CASE c = m
    <3>1. m # lo
      BY <2>1, <1>1, <1>2, <1>3, <1>4 DEF InOrder, NULL
    <3> QED
      BY <2>1, <3>1, <1>2, <1>4, <1>5, <1>6, ZenonT(40)
  <2>2. CASE c \in DOMAIN h \ {m, n}
    <3>1. k[c].prev = h[c].prev
      BY <2>2, <1>7
    <3>2. CASE c # lo
      <4>1. h[c].prev \in DOMAIN h /\ h[h[c].prev].next = c
        BY <3>2, <2>2, <1>1 DEF BackwardLinks
      <4>2. h[c].prev # n /\ h[c].prev # b
        BY <4>1, <2>2
      <4> QED
        BY <3>1, <3>2, <4>1, <4>2, <1>4, <1>7
    <3> QED
      BY <3>1, <3>2, <2>2, <1>1 DEF BackwardLinks
  <2> QED
    BY <2>1, <2>2, <1>4
<1>11. InOrder(k, lo, hi)
  <2>1. \A c \in DOMAIN h : b < c => c = n \/ End(h, n) <= c
    BY <1>1, <1>2 DEF InOrder
  <2>2. lo \in DOMAIN k /\ \A c \in DOMAIN k : lo <= c /\ End(k, c) <= hi
    BY <1>1, <1>2, <1>4, <1>8 DEF InOrder
  <2>3. ASSUME NEW c \in DOMAIN k, NEW d \in DOMAIN k, c < d
        PROVE  End(k, c) <= d
    <3>1. CASE c = b
      BY <3>1, <2>1, <2>3, <1>4, <1>8
    <3>2. CASE c # b
      BY <3>2, <2>3, <1>1, <1>4, <1>8 DEF InOrder
    <3> QED
      BY <3>1, <3>2
  <2> QED
    BY <2>2, <2>3 DEF InOrder
<1>12. DOMAIN k \subseteq Nat /\ k \in [DOMAIN k -> Header]
  BY <1>1, <1>4, <1>7
<1>13. List(k, lo, hi)
  BY <1>9, <1>10, <1>11, <1>12 DEF List, Partition
<1>14. Absorbed(h, b, k)
  <2>1. DOMAIN k = DOMAIN h \ {n} /\ b # n /\ n \in DOMAIN h
    BY <1>1, <1>2, <1>4
  <2> QED
    BY <2>1, <1>5, <1>7 DEF Absorbed
<1> QED
  BY <1>13, <1>14 DEF k

(***************************************************************************)
(* Giving a block back.  A merge forwards joins it to the free block after *)
(* it, a merge backwards to the free block before it; afterwards no two    *)
(* neighbours are free if none were before.                                *)
(***************************************************************************)
\* At most the block b has a free neighbour while being free itself.
ApartFrom(h, b) ==
    \A c \in DOMAIN h :
        c # b /\ h[c].free /\ h[c].next # NULL /\ h[c].next # b
            => ~ h[h[c].next].free

LEMMA JoinNextList ==
    ASSUME NEW h, NEW lo \in Nat \ {0}, NEW hi \in Nat, List(h, lo, hi),
           NEW b \in DOMAIN h, h[b].free
    PROVE  /\ List(JoinNext(h, b), lo, hi)
           /\ b \in DOMAIN JoinNext(h, b) /\ JoinNext(h, b)[b].free
           /\ InUse(JoinNext(h, b)) = InUse(h)
           /\ \A c \in InUse(h) : JoinNext(h, b)[c].size = h[c].size
           /\ ApartFrom(h, b) =>
                /\ ApartFrom(JoinNext(h, b), b)
                /\ JoinNext(h, b)[b].next # NULL =>
                     ~ JoinNext(h, b)[JoinNext(h, b)[b].next].free
<1> DEFINE k == JoinNext(h, b)
<1>1. /\ DOMAIN h \subseteq Nat
      /\ \A c \in DOMAIN h : h[c].free \in BOOLEAN
      /\ \A c \in DOMAIN h : End(h, c) \in Nat /\ End(h, c) > c
      /\ ForwardLinks(h, hi) /\ BackwardLinks(h, lo) /\ InOrder(h, lo, hi)
  BY DEF List, Header, Partition, End
<1>2. CASE h[b].next # NULL /\ h[h[b].next].free
  <2>2. k = AbsorbNext(h, b)
    BY <1>2 DEF JoinNext
  <2>0. List(k, lo, hi) /\ Absorbed(h, b, k)
    BY <1>2, <2>2, AbsorbList
  <2> PICK n : n = h[b].next
    OBVIOUS
  <2> HIDE DEF k
  <2>1. /\ DOMAIN k = DOMAIN h \ {n}
        /\ b # n /\ n \in DOMAIN h
        /\ k[b].next = h[n].next
        /\ \A c \in DOMAIN h \ {n} :
             /\ k[c].free = h[c].free
             /\ c # b => k[c].size = h[c].size
             /\ c # b => k[c].next = h[c].next
    BY <2>0 DEF Absorbed
  <2>3. InUse(k) = InUse(h)
    BY <2>1, <1>2 DEF InUse
  <2>4. \A c \in InUse(h) : k[c].size = h[c].size
    BY <2>1, <1>2 DEF InUse
  <2>5. ForwardLinks(k, hi) /\ DOMAIN k = DOMAIN h \ {n}
    BY <2>0, <2>1 DEF List, Partition
  <2>6. ASSUME ApartFrom(h, b)
        PROVE  ApartFrom(k, b) /\ (k[b].next # NULL => ~ k[k[b].next].free)
    <3>1. ASSUME NEW c \in DOMAIN k, c # b, k[c].free, k[c].next # NULL,
                 k[c].next # b
          PROVE  ~ k[k[c].next].free
      <4>1. k[c].next \in DOMAIN k /\ k[c].next = h[c].next
        BY <3>1, <2>1, <2>5 DEF ForwardLinks
      <4> QED
        BY <4>1, <3>1, <2>1, <2>5, <2>6 DEF ApartFrom
    <3>2. ASSUME k[b].next # NULL
          PROVE  ~ k[k[b].next].free
      <4>1. k[b].next \in DOMAIN k /\ k[b].next = h[n].next
        BY <3>2, <2>1, <2>5 DEF ForwardLinks
      <4>2. h[n].next # b
        <5>1. n = End(h, b) /\ (h[n].next = NULL \/ h[n].next = End(h, n))
          BY <1>1, <1>2, <2>1 DEF ForwardLinks
        <5>2. b # NULL
          BY <1>1 DEF InOrder, NULL
        <5> QED
          BY <5>1, <5>2, <1>1, <2>1
      <4> QED
        BY <4>1, <4>2, <3>2, <1>2, <2>1, <2>5, <2>6 DEF ApartFrom
    <3> QED
      BY <3>1, <3>2 DEF ApartFrom
  <2> QED
    BY <2>0, <2>1, <2>3, <2>4, <2>6, <1>2 DEF k
<1>3. CASE ~ (h[b].next # NULL /\ h[h[b].next].free)
  <2>1. JoinNext(h, b) = h
    BY <1>3 DEF JoinNext
  <2> QED
    BY <2>1, <1>3
<1> QED
  BY <1>2, <1>3

LEMMA JoinPrevList ==
    ASSUME NEW h, NEW lo \in Nat \ {0}, NEW hi \in Nat, List(h, lo, hi),
           NEW b \in DOMAIN h, h[b].free, ApartFrom(h, b),
           h[b].next # NULL => ~ h[h[b].next].free
    PROVE  /\ List(JoinPrev(h, b), lo, hi)
           /\ InUse(JoinPrev(h, b)) = InUse(h)
           /\ \A c \in InUse(h) : JoinPrev(h, b)[c].size = h[c].size
           /\ NoAdjacentFree(JoinPrev(h, b))
<1> DEFINE k == JoinPrev(h, b)
<1>1. /\ DOMAIN h \subseteq Nat
      /\ \A c \in DOMAIN h : h[c].free \in BOOLEAN
      /\ ForwardLinks(h, hi) /\ BackwardLinks(h, lo) /\ InOrder(h, lo, hi)
  BY DEF List, Header, Partition
<1>2. \A c \in DOMAIN h : c # NULL
  BY <1>1 DEF InOrder, NULL
<1>3. \A c \in DOMAIN h : h[c].next = b => h[b].prev = c
  BY <1>1, <1>2 DEF ForwardLinks
<1>4. CASE h[b].prev # NULL /\ h[h[b].prev].free
  <2> PICK p : p = h[b].prev
    OBVIOUS
  <2>1. p \in DOMAIN h /\ h[p].next = b
    BY <1>1, <1>4 DEF BackwardLinks
  <2>2. k = AbsorbNext(h, p)
    BY <1>4 DEF JoinPrev
  <2>3. List(k, lo, hi) /\ Absorbed(h, p, k)
    BY <1>2, <2>1, <2>2, AbsorbList
  <2> HIDE DEF k
  <2>4. /\ DOMAIN k = DOMAIN h \ {b}
        /\ p # b
        /\ k[p].next = h[b].next
        /\ \A c \in DOMAIN h \ {b} :
             /\ k[c].free = h[c].free
             /\ c # p => k[c].size = h[c].size
             /\ c # p => k[c].next = h[c].next
    BY <2>1, <2>3 DEF Absorbed
  <2>5. ForwardLinks(k, hi)
    BY <2>3 DEF List, Partition
  <2>6. NoAdjacentFree(k)
    <3> SUFFICES ASSUME NEW c \in DOMAIN k, k[c].free, k[c].next # NULL
                 PROVE  ~ k[k[c].next].free
      BY DEF NoAdjacentFree
    <3>1. k[c].next \in DOMAIN k
      BY <2>5 DEF ForwardLinks
    <3>2. CASE c = p
      BY <3>1, <3>2, <2>4
    <3>3. CASE c # p
      <4>1. k[c].next = h[c].next /\ h[c].next # b /\ c # b /\ c \in DOMAIN h
        BY <3>3, <2>4, <1>3
      <4> QED
        BY <3>1, <4>1, <2>4 DEF ApartFrom
    <3> QED
      BY <3>2, <3>3
  <2>7. InUse(k) = InUse(h)
    BY <2>1, <2>4 DEF InUse
  <2>8. \A c \in InUse(h) : k[c].size = h[c].size
    BY <2>1, <2>4, <1>4 DEF InUse
  <2> QED
    BY <2>3, <2>6, <2>7, <2>8 DEF k
<1>5. CASE ~ (h[b].prev # NULL /\ h[h[b].prev].free)
  <2>1. k = h
    BY <1>5 DEF JoinPrev
  <2>2. NoAdjacentFree(h)
    <3> SUFFICES ASSUME NEW c \in DOMAIN h, h[c].free, h[c].next # NULL
                 PROVE  ~ h[h[c].next].free
      BY DEF NoAdjacentFree
    <3>1. CASE c = b
      BY <3>1
    <3>2. CASE c # b
      BY <3>2, <1>2, <1>3, <1>5 DEF ApartFrom
    <3> QED
      BY <3>1, <3>2
  <2> QED
    BY <2>1, <2>2
<1> QED
  BY <1>4, <1>5

LEMMA ReleaseList ==
    ASSUME NEW h, NEW lo \in Nat \ {0}, NEW hi \in Nat, List(h, lo, hi),
           NEW b \in DOMAIN h, NoAdjacentFree(h)
    PROVE  /\ List(Release(h, b), lo, hi)
           /\ InUse(Release(h, b)) = InUse(h) \ {b}
           /\ \A c \in InUse(h) \ {b} : Release(h, b)[c].size = h[c].size
           /\ NoAdjacentFree(Release(h, b))
<1> DEFINE f == SetFree(h, b, TRUE)
           j == JoinNext(f, b)
           k == JoinPrev(j, b)
<1>1. /\ DOMAIN f = DOMAIN h
      /\ f[b].free
      /\ \A c \in DOMAIN h : /\ f[c].size = h[c].size
                             /\ f[c].next = h[c].next
                             /\ c # b => f[c].free = h[c].free
  BY DEF SetFree, List, Header
<1>2. List(f, lo, hi)
  BY SetFreeList
<1>3. InUse(f) = InUse(h) \ {b}
  BY <1>1 DEF InUse
<1>4. ApartFrom(f, b)
  <2>1. ForwardLinks(h, hi)
    BY DEF List, Partition
  <2> HIDE DEF f
  <2> QED
    BY <1>1, <2>1 DEF ApartFrom, NoAdjacentFree, ForwardLinks
<1> HIDE DEF f
<1>5. /\ List(j, lo, hi)
      /\ b \in DOMAIN j /\ j[b].free
      /\ InUse(j) = InUse(f)
      /\ \A c \in InUse(f) : j[c].size = f[c].size
      /\ ApartFrom(j, b)
      /\ j[b].next # NULL => ~ j[j[b].next].free
  BY <1>1, <1>2, <1>4, JoinNextList
<1> HIDE DEF j
<1>6. /\ List(k, lo, hi)
      /\ InUse(k) = InUse(j)
      /\ \A c \in InUse(j) : k[c].size = j[c].size
      /\ NoAdjacentFree(k)
  BY <1>5, JoinPrevList
<1>7. Release(h, b) = k
  BY DEF Release, k, j, f
<1> HIDE DEF k
<1>8. \A c \in InUse(h) \ {b} : k[c].size = h[c].size
  BY <1>1, <1>3, <1>5, <1>6 DEF InUse
<1> QED
  BY <1>3, <1>5, <1>6, <1>7, <1>8

(***************************************************************************)
(* Headers and sizes are multiples of four if requests are.                *)
(***************************************************************************)
Aligned(h) == \A b \in DOMAIN h : b % 4 = 0 /\ h[b].size % 4 = 0

LEMMA AlignUp ==
    ASSUME NEW n \in Nat
    PROVE  Align(n) \in Nat /\ Align(n) >= n /\ Align(n) % 4 = 0
BY DEF Align

LEMMA AlignedOps ==
    ASSUME NEW h, DOMAIN h \subseteq Nat, h \in [DOMAIN h -> Header],
           Aligned(h), HeaderSize % 4 = 0, NEW b \in DOMAIN h,
           NEW n \in Nat, n % 4 = 0
    PROVE  /\ Aligned(Take(h, b, n))
           /\ Aligned(Extend(h, b, n + HeaderSize))
           /\ Aligned(AppendBlock(h, b, n, TRUE))
           /\ h[b].next \in DOMAIN h => Aligned(AbsorbNext(h, b))
           /\ Aligned(SetFree(h, b, TRUE))
<1>1. \A c \in DOMAIN h : /\ c \in Nat /\ c % 4 = 0
                          /\ h[c].size \in Nat /\ h[c].size % 4 = 0
                          /\ h[c] \in Header
  BY DEF Aligned, Header
<1>2. Aligned(Take(h, b, n))
  <2>1. CASE h[b].size >= n + HeaderSize + MinSplit
    <3> DEFINE k == Take(h, b, n)
               new == b + HeaderSize + n
    <3>1. new \in Nat /\ new % 4 = 0
      BY <1>1
    <3>2. h[b].size - n - HeaderSize \in Nat /\ (h[b].size - n - HeaderSize) % 4 = 0
      BY <1>1, <2>1
    <3>3. DOMAIN k = DOMAIN h \cup {new}
      BY <2>1 DEF Take, Split, SetFree
    <3>4. \A c \in DOMAIN k :
            k[c].size \in {h[b].size - n - HeaderSize, n, h[c].size}
            /\ (c \notin DOMAIN h => k[c].size = h[b].size - n - HeaderSize)
      BY <1>1, <2>1 DEF Take, Split, SetFree, Header
    <3> HIDE DEF k, new
    <3> QED
      BY <3>1, <3>2, <3>3, <3>4, <1>1 DEF Aligned, k, new
  <2>2. CASE ~ (h[b].size >= n + HeaderSize + MinSplit)
    BY <1>1, <2>2 DEF Take, SetFree, Aligned, Header
  <2> QED
    BY <2>1, <2>2
<1>3. Aligned(Extend(h, b, n + HeaderSize))
  <2>1. (h[b].size + (n + HeaderSize)) % 4 = 0
    BY <1>1
  <2> QED
    BY <2>1, <1>1 DEF Aligned, Extend, Header
<1>4. Aligned(AppendBlock(h, b, n, TRUE))
  <2>1. End(h, b) % 4 = 0
    BY <1>1 DEF End
  <2> QED
    BY <2>1, <1>1 DEF Aligned, AppendBlock, Header
<1>5. ASSUME h[b].next \in DOMAIN h
      PROVE  Aligned(AbsorbNext(h, b))
  <2>1. (h[b].size + HeaderSize + h[h[b].next].size) % 4 = 0
    BY <1>1, <1>5
  <2> QED
    BY <2>1, <1>1 DEF Aligned, AbsorbNext, Header
<1>6. Aligned(SetFree(h, b, TRUE))
  BY <1>1 DEF Aligned, SetFree, Header
<1> QED
  BY <1>2, <1>3, <1>4, <1>5, <1>6

LEMMA AlignedRelease ==
    ASSUME NEW h, NEW lo \in Nat \ {0}, NEW hi \in Nat, List(h, lo, hi),
           NEW b \in DOMAIN h, Aligned(h), HeaderSize % 4 = 0
    PROVE  Aligned(Release(h, b))
<1> DEFINE f == SetFree(h, b, TRUE)
           j == JoinNext(f, b)
<1>0. /\ h \in [DOMAIN h -> Header] /\ DOMAIN h \subseteq Nat
      /\ 0 \in Nat /\ 0 % 4 = 0
  BY DEF List
<1>1. Aligned(f)
  BY <1>0, AlignedOps
<1>2. List(f, lo, hi) /\ b \in DOMAIN f /\ f[b].free
  BY <1>0, SetFreeList DEF SetFree, Header
<1> HIDE DEF f
<1>3. List(j, lo, hi) /\ b \in DOMAIN j
  BY <1>2, JoinNextList
<1>4. Aligned(j)
  <2>1. f \in [DOMAIN f -> Header] /\ DOMAIN f \subseteq Nat
    BY <1>2 DEF List
  <2>2. f[b].next # NULL => f[b].next \in DOMAIN f
    BY <1>2 DEF List, Partition, ForwardLinks
  <2>3. f[b].next # NULL => Aligned(AbsorbNext(f, b))
    BY <2>1, <2>2, <1>0, <1>1, <1>2, AlignedOps
  <2> QED
    BY <2>3, <1>1 DEF JoinNext
<1> HIDE DEF j
<1>5. Aligned(JoinPrev(j, b))
  <2>1. j \in [DOMAIN j -> Header] /\ DOMAIN j \subseteq Nat
    BY <1>3 DEF List
  <2>2. j[b].prev # NULL => j[b].prev \in DOMAIN j /\ j[j[b].prev].next = b
    BY <1>3 DEF List, Partition, BackwardLinks
  <2>3. j[b].prev # NULL => Aligned(AbsorbNext(j, j[b].prev))
    BY <2>1, <2>2, <1>0, <1>3, <1>4, AlignedOps
  <2> QED
    BY <2>3, <1>4 DEF JoinPrev
<1> QED
  BY <1>5 DEF Release, j, f
=============================================================================
