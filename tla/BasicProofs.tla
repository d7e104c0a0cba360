---------------------------- MODULE BasicProofs -----------------------------
(***************************************************************************)
(* The program of cyBASIC is a sorted list whose nodes are what is in use  *)
(* on a sound heap, besides the environment, and runs as BasicSpec says of *)
(* a function from numbers to texts: for every set of line numbers and     *)
(* texts, every size of headers and nodes, and any edits and runs.         *)
(***************************************************************************)
EXTENDS Basic, BlockListProofs, SequenceTheorems

USE BlockListAssumption, UserMallocAssumption, BasicAssumption

(***************************************************************************)
(* The heap.  Pointers(h) are those malloc returned and free did not take  *)
(* back.                                                                   *)
(***************************************************************************)
Pointers(h) == {Payload(b) : b \in InUse(h)}

Heap(h, top) ==
    /\ top \in Nat
    /\ \/ h = << >> /\ top = HeapStart
       \/ List(h, HeapStart, top) /\ NoAdjacentFree(h)

LEMMA ListNotEmpty ==
    ASSUME NEW h, NEW top \in Nat, List(h, HeapStart, top)
    PROVE  h # << >>
<1>1. HeapStart \in DOMAIN h
  BY DEF List, Partition, InOrder
<1> QED
  BY <1>1

LEMMA PointersOf ==
    ASSUME NEW h, NEW top, Heap(h, top)
    PROVE  /\ InUse(h) \subseteq DOMAIN h /\ DOMAIN h \subseteq Nat \ {0}
           /\ Pointers(h) \subseteq Nat \ {0}
           /\ \A b \in Nat : HeaderOf(Payload(b)) = b
<1>1. CASE h = << >>
  <2>1. DOMAIN h = {}
    BY <1>1
  <2> QED
    BY <2>1 DEF InUse, Pointers, Payload, HeaderOf
<1>2. CASE List(h, HeapStart, top)
  <2>1. DOMAIN h \subseteq Nat \ {0}
    BY <1>2 DEF List, Partition, InOrder
  <2> QED
    BY <2>1 DEF InUse, Pointers, Payload, HeaderOf
<1> QED
  BY <1>1, <1>2 DEF Heap

\* What malloc may return is not in use, and then it is.
LEMMA MallocHeap ==
    ASSUME Heap(hdr, brk), NEW p, NEW n \in Nat, malloc(p, n)
    PROVE  /\ Heap(hdr', brk')
           /\ p \in Nat \ {0} /\ p \notin Pointers(hdr)
           /\ Pointers(hdr') = Pointers(hdr) \cup {p}
<1> PICK m : m = Align(n)
  OBVIOUS
<1>0. m \in Nat
  BY AlignUp
<1>1. ASSUME NEW b \in Nat \ {0}, p = Payload(b), b \notin InUse(hdr),
             InUse(hdr') = InUse(hdr) \cup {b}
      PROVE  /\ p \in Nat \ {0} /\ p \notin Pointers(hdr)
             /\ Pointers(hdr') = Pointers(hdr) \cup {p}
  <2>1. InUse(hdr) \subseteq Nat
    BY PointersOf
  <2> QED
    BY <1>1, <2>1 DEF Pointers, Payload
<1>2. CASE FirstBlock(p, m)
  <2> PICK k : k = hdr'
    OBVIOUS
  <2> DEFINE b == brk
  <2>1. /\ hdr = << >> /\ b = HeapStart
        /\ brk' = b + (HeaderSize + m)
        /\ k = [c \in {b} |-> [size |-> m, free |-> FALSE, next |-> NULL, prev |-> NULL]]
    BY <1>2, ListNotEmpty DEF FirstBlock, sbrk, Heap
  <2>2. /\ DOMAIN k = {b} /\ k \in [{b} -> Header]
        /\ k[b].size = m /\ k[b].free = FALSE
        /\ k[b].next = NULL /\ k[b].prev = NULL
    BY <1>0, <2>1 DEF Header, NULL
  <2>3. b \in Nat \ {0} /\ brk' \in Nat /\ End(k, b) = brk'
    BY <1>0, <2>1, <2>2 DEF End
  <2>4. Partition(k, HeapStart, brk')
    <3>1. ForwardLinks(k, brk')
      BY <2>2, <2>3 DEF ForwardLinks
    <3>2. BackwardLinks(k, HeapStart)
      BY <2>1, <2>2 DEF BackwardLinks
    <3>3. InOrder(k, HeapStart, brk')
      BY <2>1, <2>2, <2>3 DEF InOrder
    <3> QED
      BY <3>1, <3>2, <3>3 DEF Partition
  <2>5. List(k, HeapStart, brk') /\ NoAdjacentFree(k)
    BY <2>2, <2>3, <2>4 DEF List, NoAdjacentFree
  <2>6. InUse(hdr) = {} /\ InUse(k) = {b}
    <3>1. DOMAIN hdr = {}
      BY <2>1
    <3> QED
      BY <3>1, <2>2 DEF InUse
  <2>7. p = Payload(b)
    BY <1>2 DEF FirstBlock
  <2> QED
    BY <1>1, <2>3, <2>5, <2>6, <2>7 DEF Heap
<1>3. CASE ReuseBlock(p, m)
  <2>1. PICK b \in DOMAIN hdr : /\ FirstFit(hdr, b, m) /\ p = Payload(b)
                                /\ hdr' = Take(hdr, b, m) /\ brk' = brk
    BY <1>3 DEF ReuseBlock
  <2>2. List(hdr, HeapStart, brk) /\ NoAdjacentFree(hdr) /\ brk \in Nat
    BY <2>1 DEF Heap
  <2>3. Fits(hdr, b, m) /\ b \notin InUse(hdr)
    BY <2>1 DEF FirstFit, Fits, InUse
  <2>4. /\ List(hdr', HeapStart, brk) /\ NoAdjacentFree(hdr')
        /\ InUse(hdr') = InUse(hdr) \cup {b}
    BY <1>0, <2>1, <2>2, <2>3, TakeList
  <2>5. b \in Nat \ {0}
    BY PointersOf
  <2> QED
    BY <1>1, <2>1, <2>2, <2>3, <2>4, <2>5 DEF Heap
<1>4. CASE NewBlock(p, m)
  <2>1. PICK b \in DOMAIN hdr : /\ Last(hdr, b) /\ p = Payload(End(hdr, b))
                                /\ brk' = brk + (HeaderSize + m)
                                /\ hdr' = AppendBlock(hdr, b, m, FALSE)
    BY <1>4 DEF NewBlock, sbrk
  <2> PICK k, new : k = hdr' /\ new = End(hdr, b)
    OBVIOUS
  <2>2. List(hdr, HeapStart, brk) /\ NoAdjacentFree(hdr) /\ brk \in Nat
    BY <2>1 DEF Heap
  <2>3. brk + HeaderSize + m \in Nat /\ brk' = brk + HeaderSize + m
    BY <1>0, <2>1, <2>2
  <2>4. /\ List(k, HeapStart, brk') /\ DOMAIN k = DOMAIN hdr \cup {new}
        /\ new = brk /\ new \notin DOMAIN hdr
    <3> PICK t : t = brk
      OBVIOUS
    <3>1. List(hdr, HeapStart, t) /\ t \in Nat /\ Last(hdr, b)
      BY <2>1, <2>2
    <3>2. /\ List(k, HeapStart, t + HeaderSize + m)
          /\ DOMAIN k = DOMAIN hdr \cup {new} /\ new = t /\ new \notin DOMAIN hdr
      BY <1>0, <2>1, <3>1, AppendList
    <3> QED
      BY <2>3, <3>2
  <2>5. /\ k[new].free = FALSE
        /\ k[b].free = hdr[b].free /\ k[b].next = new
        /\ \A c \in DOMAIN hdr \ {b} : k[c] = hdr[c]
    <3>1. hdr[b] \in Header
      BY <2>2 DEF List
    <3> QED
      BY <2>1, <2>4, <3>1 DEF AppendBlock, Header
  <2>6. NoAdjacentFree(k)
    <3>1. ForwardLinks(hdr, brk)
      BY <2>2 DEF List, Partition
    <3>2. ASSUME NEW c \in DOMAIN k, k[c].free, k[c].next # NULL
          PROVE  ~ k[k[c].next].free
      <4>1. c \in DOMAIN hdr
        BY <3>2, <2>4, <2>5
      <4>2. CASE c = b
        BY <4>2, <2>5
      <4>3. CASE c # b
        <5>1. /\ hdr[c].free /\ hdr[c].next = k[c].next
              /\ hdr[c].next \in DOMAIN hdr /\ ~ hdr[hdr[c].next].free
          BY <4>1, <4>3, <3>1, <3>2, <2>2, <2>5 DEF ForwardLinks, NoAdjacentFree
        <5> QED
          BY <5>1, <2>5
      <4> QED
        BY <4>2, <4>3
    <3> QED
      BY <3>2 DEF NoAdjacentFree
  <2>7. InUse(k) = InUse(hdr) \cup {new} /\ new \notin InUse(hdr)
    BY <2>4, <2>5 DEF InUse
  <2>8. new \in Nat \ {0}
    BY <2>2, <2>4, ListNotEmpty DEF List, Partition, InOrder
  <2> QED
    BY <1>1, <2>1, <2>3, <2>4, <2>6, <2>7, <2>8 DEF Heap
<1> QED
  BY <1>2, <1>3, <1>4 DEF malloc

\* free of a pointer in use takes it back and no other.
LEMMA FreeHeap ==
    ASSUME Heap(hdr, brk), NEW p \in Pointers(hdr), free(p)
    PROVE  /\ Heap(hdr', brk')
           /\ Pointers(hdr') = Pointers(hdr) \ {p}
<1>1. PICK b \in InUse(hdr) : p = Payload(b)
  BY DEF Pointers
<1>2. b \in DOMAIN hdr /\ b \in Nat /\ HeaderOf(p) = b /\ InUse(hdr) \subseteq Nat
  BY <1>1, PointersOf
<1>3. List(hdr, HeapStart, brk) /\ NoAdjacentFree(hdr) /\ brk \in Nat
  BY <1>2 DEF Heap
<1>4. hdr' = Release(hdr, b) /\ brk' = brk
  BY <1>2 DEF free
<1>5. /\ List(hdr', HeapStart, brk) /\ NoAdjacentFree(hdr')
      /\ InUse(hdr') = InUse(hdr) \ {b}
  BY <1>2, <1>3, <1>4, ReleaseList
<1> QED
  BY <1>1, <1>2, <1>3, <1>4, <1>5 DEF Heap, Pointers, Payload

(***************************************************************************)
(* The list.  Each node but the first hangs on another one, and between a  *)
(* node and its next there is no number: it is sorted, and no node is on   *)
(* it twice or outside it.                                                 *)
(***************************************************************************)
Node == [num : Numbers, text : Texts, next : Nat]

Nodes(list) == DOMAIN list \subseteq Nat \ {0} /\ list \in [DOMAIN list -> Node]

Begins(head, list) ==
    IF head = NULL THEN DOMAIN list = {}
    ELSE /\ head \in DOMAIN list
         /\ \A a \in DOMAIN list : list[head].num <= list[a].num

Follows(list) ==
    \A a \in DOMAIN list :
        IF list[a].next = NULL
        THEN \A c \in DOMAIN list : list[c].num <= list[a].num
        ELSE /\ list[a].next \in DOMAIN list
             /\ list[a].num < list[list[a].next].num
             /\ \A c \in DOMAIN list : \/ list[c].num <= list[a].num
                                       \/ list[list[a].next].num <= list[c].num

Reached(head, list) ==
    \A a \in DOMAIN list : a = head \/ \E b \in DOMAIN list : list[b].next = a

Distinct(list) ==
    \A a, b \in DOMAIN list : list[a].num = list[b].num => a = b

Chain(head, list) ==
    /\ Nodes(list)
    /\ Begins(head, list)
    /\ Follows(list)
    /\ Reached(head, list)
    /\ Distinct(list)

\* What link l of the list names, and where it is relinked to a.
NextOf(head, list, l) == IF l = NULL THEN head ELSE list[l].next

LEMMA ChainNumbers ==
    ASSUME NEW list, Nodes(list)
    PROVE  /\ NULL \notin DOMAIN list
           /\ \A a \in DOMAIN list : /\ a \in Nat \ {0}
                                     /\ list[a].num \in Nat \ {0}
                                     /\ list[a].next \in Nat
BY DEF Nodes, Node, NULL

\* No node hangs on two others, and none before the head.
LEMMA OneBefore ==
    ASSUME NEW head, NEW list, Chain(head, list)
    PROVE  /\ \A a, b \in DOMAIN list :
                 list[a].next = list[b].next /\ list[a].next # NULL => a = b
           /\ \A a \in DOMAIN list : list[a].next # NULL => list[a].next # head
           /\ \A a \in DOMAIN list : list[a].next # a
<1>1. \A a \in DOMAIN list : a # NULL /\ list[a].num \in Nat
  BY ChainNumbers DEF Chain
<1>2. ASSUME NEW a \in DOMAIN list, NEW b \in DOMAIN list,
             list[a].next = list[b].next, list[a].next # NULL
      PROVE  a = b
  <2> PICK n : n = list[a].next
    OBVIOUS
  <2>1. n \in DOMAIN list /\ list[a].num < list[n].num /\ list[b].num < list[n].num
    BY <1>2 DEF Chain, Follows
  <2>2. list[b].num <= list[a].num \/ list[n].num <= list[b].num
    BY <1>2 DEF Chain, Follows
  <2>3. list[a].num <= list[b].num \/ list[n].num <= list[a].num
    BY <1>2 DEF Chain, Follows
  <2>4. list[a].num = list[b].num
    BY <1>1, <2>1, <2>2, <2>3
  <2> QED
    BY <2>4 DEF Chain, Distinct
<1>3. ASSUME NEW a \in DOMAIN list, list[a].next # NULL
      PROVE  list[a].next # head
  <2> PICK n : n = list[a].next
    OBVIOUS
  <2>1. n \in DOMAIN list /\ list[a].num < list[n].num
    BY <1>3 DEF Chain, Follows
  <2>2. head = n => list[n].num <= list[a].num
    BY <1>1, <2>1 DEF Chain, Begins
  <2> QED
    BY <1>1, <2>1, <2>2
<1>4. ASSUME NEW a \in DOMAIN list
      PROVE  list[a].next # a
  BY <1>1 DEF Chain, Follows
<1> QED
  BY <1>2, <1>3, <1>4

LEMMA LinkNames ==
    ASSUME NEW head, NEW list, Chain(head, list),
           NEW l \in {NULL} \cup DOMAIN list, NEW t, t = NextOf(head, list, l), t # NULL
    PROVE  t \in DOMAIN list /\ l # t
<1>1. CASE l = NULL
  BY <1>1 DEF NextOf, Chain, Begins
<1>2. CASE l # NULL
  <2>1. l \in DOMAIN list /\ t = list[l].next
    BY <1>2 DEF NextOf
  <2>2. t # l
    BY <2>1, OneBefore
  <2> QED
    BY <2>1, <2>2 DEF Chain, Follows
<1> QED
  BY <1>1, <1>2

\* A node is linked in behind link l, where its number belongs.
LEMMA InsertChain ==
    ASSUME NEW head, NEW list, Chain(head, list),
           NEW l \in {NULL} \cup DOMAIN list, NEW n, n = NextOf(head, list, l),
           NEW num \in Numbers,
           l # NULL => list[l].num < num,
           n # NULL => num < list[n].num,
           NEW p \in Nat \ {0}, p \notin DOMAIN list,
           NEW new, DOMAIN new = DOMAIN list \cup {p}, Nodes(new),
           new[p].num = num, new[p].next = n,
           \A a \in DOMAIN list :
               /\ new[a].num = list[a].num
               /\ new[a].next = IF a = l THEN p ELSE list[a].next
    PROVE  Chain(IF l = NULL THEN p ELSE head, new)
<1> DEFINE first == IF l = NULL THEN p ELSE head
<1>1. /\ NULL \notin DOMAIN list /\ p # NULL
      /\ \A a \in DOMAIN list : list[a].num \in Nat /\ list[a].next \in Nat
      /\ num \in Nat
  BY ChainNumbers DEF Chain, NULL
<1>2. n = NULL \/ n \in DOMAIN list
  BY <1>1 DEF NextOf, Chain, Begins, Follows
<1>3. \A c \in DOMAIN list : \/ l # NULL /\ list[c].num <= list[l].num
                             \/ n # NULL /\ list[n].num <= list[c].num
  <2>1. CASE l = NULL
    BY <2>1 DEF NextOf, Chain, Begins
  <2>2. CASE l # NULL
    <3>1. l \in DOMAIN list /\ n = list[l].next /\ Follows(list)
      BY <2>2 DEF NextOf, Chain
    <3>2. CASE n = NULL
      BY <2>2, <3>1, <3>2 DEF Follows
    <3>3. CASE n # NULL
      BY <2>2, <3>1, <3>3 DEF Follows
    <3> QED
      BY <3>2, <3>3
  <2> QED
    BY <2>1, <2>2
<1>4. \A c \in DOMAIN list : \/ list[c].num < num
                             \/ num < list[c].num /\ n # NULL /\ list[n].num <= list[c].num
  <2>1. ASSUME NEW c \in DOMAIN list, l # NULL, list[c].num <= list[l].num
        PROVE  list[c].num < num
    BY <2>1, <1>1
  <2>2. ASSUME NEW c \in DOMAIN list, n # NULL, list[n].num <= list[c].num
        PROVE  num < list[c].num
    BY <2>2, <1>1, <1>2
  <2> QED
    BY <2>1, <2>2, <1>3
<1>6. Begins(first, new)
  <2>1. CASE l = NULL
    <3>1. \A c \in DOMAIN list : num <= list[c].num
      BY <2>1, <1>1, <1>2, <1>3
    <3> QED
      BY <2>1, <3>1, <1>1 DEF Begins
  <2>2. CASE l # NULL
    <3>1. head \in DOMAIN list /\ \A a \in DOMAIN list : list[head].num <= list[a].num
      BY <2>2 DEF Chain, Begins
    <3>2. list[head].num <= num
      BY <2>2, <3>1, <1>1
    <3> QED
      BY <2>2, <3>1, <3>2, <1>1 DEF Begins
  <2> QED
    BY <2>1, <2>2
<1>7. Follows(new)
  <2>1. ASSUME NEW a \in DOMAIN list, a # l
        PROVE  IF new[a].next = NULL
               THEN \A c \in DOMAIN new : new[c].num <= new[a].num
               ELSE /\ new[a].next \in DOMAIN new
                    /\ new[a].num < new[new[a].next].num
                    /\ \A c \in DOMAIN new : \/ new[c].num <= new[a].num
                                             \/ new[new[a].next].num <= new[c].num
    <3> PICK m : m = list[a].next
      OBVIOUS
    <3>1. new[a].next = m /\ new[a].num = list[a].num
      BY <2>1
    <3>2. CASE m = NULL
      <4>1. \A c \in DOMAIN list : list[c].num <= list[a].num
        BY <3>2 DEF Chain, Follows
      <4>2. num <= list[a].num
        <5>1. CASE n # NULL
          BY <5>1, <4>1, <1>1, <1>2
        <5>2. CASE n = NULL
          \* then a would be the last before num, that is l
          <6>1. l # NULL /\ list[a].num <= list[l].num
            BY <5>2, <1>3
          <6>2. list[l].num = list[a].num
            BY <6>1, <4>1, <1>1
          <6> QED
            BY <6>1, <6>2, <2>1 DEF Chain, Distinct
        <5> QED
          BY <5>1, <5>2
      <4> QED
        BY <3>1, <3>2, <4>1, <4>2
    <3>3. CASE m # NULL
      <4>1. /\ m \in DOMAIN list /\ list[a].num < list[m].num
            /\ \A c \in DOMAIN list : \/ list[c].num <= list[a].num
                                      \/ list[m].num <= list[c].num
        BY <3>3 DEF Chain, Follows
      <4>2. num <= list[a].num \/ list[m].num <= num
        <5>1. SUFFICES ASSUME list[a].num < num PROVE list[m].num <= num
          BY <1>1
        <5>2. l # NULL /\ list[a].num <= list[l].num
          BY <5>1, <1>1, <1>2, <1>3
        <5>3. list[a].num # list[l].num
          BY <5>2, <2>1 DEF Chain, Distinct
        <5> QED
          BY <5>2, <5>3, <4>1, <1>1
      <4> QED
        BY <3>1, <3>3, <4>1, <4>2
    <3> QED
      BY <3>2, <3>3
  <2>2. ASSUME l # NULL
        PROVE  /\ new[l].next = p /\ new[l].num < num
               /\ \A c \in DOMAIN new : new[c].num <= new[l].num \/ num <= new[c].num
    <3>1. new[l].next = p /\ new[l].num = list[l].num /\ list[l].num < num
      BY <2>2
    <3>2. \A c \in DOMAIN list : list[c].num <= list[l].num \/ num <= list[c].num
      BY <1>1, <1>2, <1>3
    <3> QED
      BY <3>1, <3>2, <1>1
  <2>3. IF n = NULL
        THEN \A c \in DOMAIN new : new[c].num <= num
        ELSE /\ n \in DOMAIN new /\ num < new[n].num
             /\ \A c \in DOMAIN new : new[c].num <= num \/ new[n].num <= new[c].num
    <3>1. CASE n = NULL
      BY <3>1, <1>1, <1>4
    <3>2. CASE n # NULL
      BY <3>2, <1>1, <1>2, <1>4
    <3> QED
      BY <3>1, <3>2
  <2>4. ASSUME NEW a \in DOMAIN new
        PROVE  IF new[a].next = NULL
               THEN \A c \in DOMAIN new : new[c].num <= new[a].num
               ELSE /\ new[a].next \in DOMAIN new
                    /\ new[a].num < new[new[a].next].num
                    /\ \A c \in DOMAIN new : \/ new[c].num <= new[a].num
                                             \/ new[new[a].next].num <= new[c].num
    <3>1. a = p \/ (a \in DOMAIN list /\ a # p)
      OBVIOUS
    <3>2. CASE a = p
      BY <2>3, <3>2
    <3>3. CASE a \in DOMAIN list /\ a = l
      <4>1. l # NULL
        BY <1>1, <3>3
      <4>2. new[a].next = p /\ p # NULL /\ p \in DOMAIN new /\ new[p].num = num
        BY <1>1, <2>2, <3>3, <4>1
      <4> QED
        BY <2>2, <3>3, <4>1, <4>2
    <3>4. CASE a \in DOMAIN list /\ a # l
      BY <2>1, <3>4
    <3> QED
      BY <3>1, <3>2, <3>3, <3>4
  <2> QED
    BY ONLY <2>4 DEF Follows
<1>8. Reached(first, new)
  <2> SUFFICES ASSUME NEW a \in DOMAIN new, a # first
               PROVE  \E b \in DOMAIN new : new[b].next = a
    BY DEF Reached
  <2>1. CASE a = p
    <3>1. l \in DOMAIN list /\ new[l].next = p
      BY <2>1
    <3> QED
      BY <3>1, <2>1
  <2>2. CASE a = n /\ a \in DOMAIN list
    BY <2>2
  <2>3. CASE a # n /\ a \in DOMAIN list
    <3>1. a # head
      BY <2>3 DEF NextOf
    <3>2. PICK b \in DOMAIN list : list[b].next = a
      BY <2>3, <3>1 DEF Chain, Reached
    <3>3. b # l
      BY <2>3, <3>2, <1>1 DEF NextOf
    <3> QED
      BY <3>2, <3>3
  <2> QED
    BY <2>1, <2>2, <2>3
<1>9. Distinct(new)
  <2>1. \A c \in DOMAIN list : new[c].num # num
    BY <1>1, <1>4
  <2> QED
    BY <2>1 DEF Chain, Distinct
<1> QED
  BY <1>6, <1>7, <1>8, <1>9 DEF Chain

\* The node t is unlinked from link l.
LEMMA RemoveChain ==
    ASSUME NEW head, NEW list, Chain(head, list),
           NEW l \in {NULL} \cup DOMAIN list,
           NEW t, t = NextOf(head, list, l), t # NULL, NEW n, n = list[t].next,
           NEW new, DOMAIN new = DOMAIN list \ {t}, Nodes(new),
           \A a \in DOMAIN new :
               /\ new[a].num = list[a].num
               /\ new[a].next = IF a = l THEN n ELSE list[a].next
    PROVE  Chain(IF l = NULL THEN n ELSE head, new)
<1> PICK first : first = IF l = NULL THEN n ELSE head
  OBVIOUS
<1>1. /\ NULL \notin DOMAIN list
      /\ \A a \in DOMAIN list : list[a].num \in Nat /\ list[a].next \in Nat
  BY ChainNumbers DEF Chain
<1>2. t \in DOMAIN list
  BY LinkNames
<1>3. l # t
  BY LinkNames
<1>4. IF n = NULL
      THEN \A c \in DOMAIN list : list[c].num <= list[t].num
      ELSE /\ n \in DOMAIN list /\ list[t].num < list[n].num
           /\ \A c \in DOMAIN list : \/ list[c].num <= list[t].num
                                     \/ list[n].num <= list[c].num
  BY <1>2 DEF Chain, Follows
<1>5. n # t /\ (n # NULL => n \in DOMAIN new)
  BY <1>1, <1>2, <1>4
<1>6. \A c \in DOMAIN new : list[c].num # list[t].num
  BY <1>2 DEF Chain, Distinct
<1>8. Begins(first, new)
  <2>1. CASE l = NULL
    <3>1. \A c \in DOMAIN new : list[t].num < list[c].num
      <4>1. \A c \in DOMAIN list : list[t].num <= list[c].num
        BY <2>1, <1>2 DEF NextOf, Chain, Begins
      <4> QED
        BY <4>1, <1>1, <1>2, <1>6
    <3>2. CASE n = NULL
      <4>1. \A c \in DOMAIN new : list[c].num <= list[t].num
        BY <3>2, <1>4
      <4>2. DOMAIN new = {}
        BY <3>1, <4>1, <1>1, <1>2
      <4> QED
        BY <2>1, <3>2, <4>2 DEF Begins
    <3>3. CASE n # NULL
      <4>1. \A c \in DOMAIN new : list[n].num <= list[c].num
        BY <3>1, <3>3, <1>1, <1>2, <1>4
      <4> QED
        BY <2>1, <3>3, <4>1, <1>5 DEF Begins
    <3> QED
      BY <3>2, <3>3
  <2>2. CASE l # NULL
    <3>1. head # NULL /\ head \in DOMAIN list
          /\ \A a \in DOMAIN list : list[head].num <= list[a].num
      BY <2>2 DEF Chain, Begins
    <3>2. head # t
      BY <2>2, <1>1, OneBefore DEF NextOf
    <3> QED
      BY <2>2, <3>1, <3>2 DEF Begins
  <2> QED
    BY <2>1, <2>2
<1>9. Follows(new)
  <2> SUFFICES ASSUME NEW a \in DOMAIN new
               PROVE  IF new[a].next = NULL
                      THEN \A c \in DOMAIN new : new[c].num <= new[a].num
                      ELSE /\ new[a].next \in DOMAIN new
                           /\ new[a].num < new[new[a].next].num
                           /\ \A c \in DOMAIN new : \/ new[c].num <= new[a].num
                                                    \/ new[new[a].next].num <= new[c].num
    BY DEF Follows
  <2> PICK m : m = list[a].next
    OBVIOUS
  <2>1. a \in DOMAIN list /\ new[a].num = list[a].num
    BY <1>2
  <2>2. IF m = NULL
        THEN \A c \in DOMAIN list : list[c].num <= list[a].num
        ELSE /\ m \in DOMAIN list /\ list[a].num < list[m].num
             /\ \A c \in DOMAIN list : \/ list[c].num <= list[a].num
                                       \/ list[m].num <= list[c].num
    BY <2>1 DEF Chain, Follows
  <2>3. CASE a = l
    <3>1. new[a].next = n /\ m = t
      BY <2>1, <2>3, <1>1 DEF NextOf
    <3>2. CASE n = NULL
      BY <2>1, <2>2, <3>1, <3>2, <1>1, <1>2, <1>4, <1>6
    <3>3. CASE n # NULL
      <4>1. list[a].num < list[n].num
        BY <2>1, <2>2, <3>1, <3>3, <1>1, <1>2, <1>4
      <4>2. \A c \in DOMAIN new : \/ list[c].num <= list[a].num
                                  \/ list[n].num <= list[c].num
        BY <2>1, <2>2, <3>1, <3>3, <1>1, <1>2, <1>4, <1>6
      <4> QED
        BY <2>1, <3>1, <3>3, <4>1, <4>2, <1>5
    <3> QED
      BY <3>2, <3>3
  <2>4. CASE a # l
    <3>1. new[a].next = m
      BY <2>4
    <3>2. m # t
      <4>1. CASE l = NULL
        BY <4>1, <2>1, <1>2, <1>1, OneBefore DEF NextOf
      <4>2. CASE l # NULL
        BY <4>2, <2>1, <2>4, OneBefore DEF NextOf
      <4> QED
        BY <4>1, <4>2
    <3>3. CASE m = NULL
      BY <2>1, <2>2, <3>1, <3>3
    <3>4. CASE m # NULL
      BY <2>1, <2>2, <3>1, <3>2, <3>4
    <3> QED
      BY <3>3, <3>4
  <2> QED
    BY <2>3, <2>4
<1>10. Reached(first, new)
  <2> SUFFICES ASSUME NEW a \in DOMAIN new, a # first
               PROVE  \E b \in DOMAIN new : new[b].next = a
    BY DEF Reached
  <2>1. CASE a = n
    <3>1. l \in DOMAIN list /\ l \in DOMAIN new
      BY <2>1, <1>3
    <3> QED
      BY <2>1, <3>1
  <2>2. CASE a # n
    <3>1. a # head
      BY <2>2, <1>2 DEF NextOf
    <3>2. PICK b \in DOMAIN list : list[b].next = a
      BY <3>1 DEF Chain, Reached
    <3>3. b # t
      BY <2>2, <3>2
    <3>4. b # l
      BY <3>2, <1>1, <1>2 DEF NextOf
    <3> QED
      BY <3>2, <3>3, <3>4
  <2> QED
    BY <2>1, <2>2
<1>11. Distinct(new)
  BY DEF Chain, Distinct
<1> QED
  BY <1>8, <1>9, <1>10, <1>11 DEF Chain

\* A node gets another text.
LEMMA ReplaceChain ==
    ASSUME NEW head, NEW list, Chain(head, list),
           NEW new, DOMAIN new = DOMAIN list, Nodes(new),
           \A a \in DOMAIN list :
               new[a].num = list[a].num /\ new[a].next = list[a].next
    PROVE  Chain(head, new)
<1>1. Begins(head, new)
  BY DEF Chain, Begins
<1>2. Follows(new)
  BY DEF Chain, Follows
<1>3. Reached(head, new)
  BY DEF Chain, Reached
<1>4. Distinct(new)
  BY DEF Chain, Distinct
<1> QED
  BY <1>1, <1>2, <1>3, <1>4 DEF Chain

(***************************************************************************)
(* The inductive invariant.  HeapIsProgram alone is not inductive: that    *)
(* unlinking one node leaves the others on the list needs that no two hang *)
(* on the same, and what a run or NEW goes on with has to be on it.        *)
(***************************************************************************)
Elements(s) == {s[i] : i \in DOMAIN s}

Environment == Elements(environ)

Iterators ==
    /\ IF mode = "run" THEN line \in DOMAIN node /\ r \in DOMAIN node ELSE line = NULL
    /\ mode \notin {"run", "clear"} => r = NULL

Owned == /\ DOMAIN node \cap Environment = {}
         /\ DOMAIN node \cup Environment = Pointers(hdr)

Inv ==
    /\ Heap(hdr, brk)
    /\ environ \in Seq(Nat)
    /\ Owned
    /\ Chain(ListHead, node)
    /\ Iterators

LEMMA InvSafety == Inv => HeapIsProgram
<1> SUFFICES ASSUME Inv PROVE HeapIsProgram
  OBVIOUS
<1>1. HeapSound
  <2>1. CASE hdr = << >>
    BY <2>1, ListNotEmpty DEF Inv, Heap, HeapSound
  <2>2. CASE hdr # << >>
    BY <2>2 DEF Inv, Heap, HeapSound, List
  <2> QED
    BY <2>1, <2>2
<1>2. ListHead \in {NULL} \cup DOMAIN node
  BY DEF Inv, Chain, Begins
<1>3. ASSUME NEW a \in DOMAIN node
      PROVE  /\ node[a].next # NULL =>
                  node[a].next \in DOMAIN node /\ node[a].num < node[node[a].next].num
             /\ a = ListHead \/ \E b \in DOMAIN node : node[b].next = a
  BY DEF Inv, Chain, Follows, Reached
<1> QED
  BY <1>1, <1>2, <1>3 DEF Inv, Owned, Environment, Elements, Pointers, InUse, HeapIsProgram

LEMMA InitInv == Init => Inv
<1> SUFFICES ASSUME Init PROVE Inv
  OBVIOUS
<1>1. DOMAIN hdr = {} /\ DOMAIN node = {} /\ DOMAIN environ = {}
  BY DEF Init, HeapInit
<1>2. Heap(hdr, brk)
  BY DEF Init, HeapInit, Heap
<1>3. environ \in Seq(Nat)
  BY DEF Init
<1>4. Owned
  BY <1>1 DEF Owned, Environment, Elements, Pointers, InUse
<1>5. Chain(ListHead, node)
  <2>1. Nodes(node)
    BY <1>1 DEF Nodes, Init
  <2> QED
    BY <2>1, <1>1 DEF Chain, Begins, Follows, Reached, Distinct, ListHead, Init
<1>6. Iterators
  BY DEF Iterators, Init
<1> QED
  BY <1>2, <1>3, <1>4, <1>5, <1>6 DEF Inv

LEMMA AppendRange ==
    ASSUME NEW s \in Seq(Nat), NEW p \in Nat, NEW t, t = Append(s, p)
    PROVE  /\ t \in Seq(Nat)
           /\ Elements(t) = Elements(s) \cup {p}
<1>1. /\ t \in Seq(Nat) /\ DOMAIN t = 1 .. Len(s) + 1 /\ DOMAIN s = 1 .. Len(s)
      /\ \A i \in 1 .. Len(s) : t[i] = s[i]
      /\ t[Len(s) + 1] = p /\ Len(s) \in Nat
  OBVIOUS
<1>2. ASSUME NEW x \in Elements(t) PROVE x \in Elements(s) \cup {p}
  BY <1>1, <1>2 DEF Elements
<1>3. ASSUME NEW x \in Elements(s) PROVE x \in Elements(t)
  BY <1>1, <1>3 DEF Elements
<1>4. p \in Elements(t)
  BY <1>1 DEF Elements
<1> QED
  BY <1>1, <1>2, <1>3, <1>4

LEMMA libcInitInv == Inv /\ libcInit => Inv'
<1> SUFFICES ASSUME Inv, libcInit PROVE Inv'
  OBVIOUS
<1>1. ListHead' = ListHead /\ node' = node /\ Iterators'
  BY DEF libcInit, Inv, Iterators, ListHead
<1>2. CASE Len(environ) < Len(EnvSizes)
  <2>1. PICK p \in HeapPointers : /\ malloc(p, EnvSizes[Len(environ) + 1])
                                  /\ environ' = Append(environ, p)
    BY <1>2 DEF libcInit
  <2> PICK n : n = EnvSizes[Len(environ) + 1]
    OBVIOUS
  <2>2. n \in Nat
    BY <1>2 DEF Inv
  <2>3. /\ Heap(hdr', brk')
        /\ p \in Nat \ {0} /\ p \notin Pointers(hdr)
        /\ Pointers(hdr') = Pointers(hdr) \cup {p}
    BY <2>1, <2>2, MallocHeap DEF Inv
  <2>4. environ' \in Seq(Nat) /\ Environment' = Environment \cup {p}
    <3> PICK s, t : s = environ /\ t = environ'
      OBVIOUS
    <3>1. s \in Seq(Nat) /\ t = Append(s, p)
      BY <2>1 DEF Inv
    <3>2. t \in Seq(Nat) /\ Elements(t) = Elements(s) \cup {p}
      BY <2>3, <3>1, AppendRange
    <3> QED
      BY <3>2 DEF Environment
  <2>5. Owned'
    BY <1>1, <2>3, <2>4 DEF Inv, Owned
  <2> QED
    BY <1>1, <2>3, <2>4, <2>5 DEF Inv
<1>3. CASE ~ (Len(environ) < Len(EnvSizes))
  <2>1. hdr' = hdr /\ brk' = brk /\ environ' = environ
    BY <1>3 DEF libcInit, heapVars
  <2> QED
    BY <1>1, <2>1 DEF Inv, Owned, Environment
<1> QED
  BY <1>2, <1>3

(***************************************************************************)
(* The edits.                                                              *)
(***************************************************************************)
LEMMA InvNodes ==
    ASSUME Inv
    PROVE  /\ DOMAIN node \subseteq Pointers(hdr) /\ DOMAIN node \subseteq Nat \ {0}
           /\ node \in [DOMAIN node -> Node] /\ NULL \notin DOMAIN node
           /\ \A a \in DOMAIN node : /\ node[a] \in Node
                                     /\ node[a].num \in Nat \ {0} /\ node[a].next \in Nat
BY ChainNumbers DEF Inv, Owned, Chain, Nodes, Node

\* How a list of nodes differs from another one, addresses and links aside.
Kept(list, new) ==
    \A a \in DOMAIN list \cap DOMAIN new :
        new[a].num = list[a].num /\ new[a].text = list[a].text

Inserted(list, new, num, text) ==
    \E p : /\ p \notin DOMAIN list /\ DOMAIN new = DOMAIN list \cup {p}
           /\ new[p].num = num /\ new[p].text = text
           /\ Kept(list, new)

Removed(list, new, num) ==
    \E t \in DOMAIN list : /\ DOMAIN new = DOMAIN list \ {t}
                           /\ list[t].num = num
                           /\ Kept(list, new)

Replaced(list, new, num, text) ==
    \E t \in DOMAIN list :
        /\ DOMAIN new = DOMAIN list
        /\ list[t].num = num /\ new[t].text = text
        /\ \A a \in DOMAIN list : /\ new[a].num = list[a].num
                                  /\ a # t => new[a].text = list[a].text

LEMMA InsertInv ==
    ASSUME Inv, mode # "clear",
           NEW num \in Numbers, NEW text \in Texts, NEW l \in Links,
           WalkEnds(l, num), ~ IsAt(l, num), Insert(l, num, text)
    PROVE  /\ Heap(hdr', brk')
           /\ Pointers(hdr') = Pointers(hdr) \cup (DOMAIN node' \ DOMAIN node)
           /\ DOMAIN node \subseteq DOMAIN node'
           /\ (DOMAIN node' \ DOMAIN node) \cap Pointers(hdr) = {}
           /\ Chain(programHead', node')
           /\ Inserted(node, node', num, text)
<1> PICK n : n = Link(l)
  OBVIOUS
<1> DEFINE nodes(p) == [a \in DOMAIN node \cup {p} |->
                            IF a = p THEN [num |-> num, text |-> text, next |-> n]
                            ELSE node[a]]
<1>1. PICK p : malloc(p, LineSize) /\ Relink(nodes(p), l, p)
  BY DEF Insert
<1>2. /\ Heap(hdr', brk') /\ p \in Nat \ {0} /\ p \notin Pointers(hdr)
      /\ Pointers(hdr') = Pointers(hdr) \cup {p}
  BY <1>1, MallocHeap DEF Inv
<1>3. p \notin DOMAIN node /\ l # p
  BY <1>2, InvNodes DEF Links, NULL
<1>4. Chain(programHead, node) /\ n = NextOf(programHead, node, l)
  BY DEF Inv, ListHead, Link, NextOf
<1>5. l \in {NULL} \cup DOMAIN node
  BY DEF Links
<1>6. n = NULL \/ n \in DOMAIN node
  BY <1>4, <1>5 DEF NextOf, Chain, Begins, Follows
<1>7. (l # NULL => node[l].num < num) /\ (n # NULL => num < node[n].num)
  BY <1>6, InvNodes DEF WalkEnds, IsAt
<1> PICK new : new = node'
  OBVIOUS
<1> PICK list : list = nodes(p)
  OBVIOUS
<1>8. DOMAIN list = DOMAIN node \cup {p} /\ list[p] = [num |-> num, text |-> text, next |-> n]
      /\ \A a \in DOMAIN node : list[a] = node[a]
  BY <1>3
<1>9. list \in [DOMAIN list -> Node]
  <2>1. n \in Nat
    BY <1>6, InvNodes DEF NULL
  <2>2. list[p] \in Node
    BY <1>8, <2>1 DEF Node
  <2>3. \A a \in DOMAIN list : list[a] \in Node
    BY <1>8, <2>2, InvNodes
  <2>4. list = [a \in DOMAIN list |-> list[a]]
    OBVIOUS
  <2> QED
    BY <2>3, <2>4
<1>10. new = IF l = NULL THEN list ELSE [list EXCEPT ![l].next = p]
  BY <1>1 DEF Relink
<1>11. /\ DOMAIN new = DOMAIN node \cup {p} /\ new \in [DOMAIN new -> Node]
       /\ new[p].num = num /\ new[p].next = n /\ new[p].text = text
       /\ \A a \in DOMAIN node : /\ new[a].num = node[a].num
                                 /\ new[a].text = node[a].text
                                 /\ new[a].next = IF a = l THEN p ELSE node[a].next
  <2>1. CASE l = NULL
    BY <2>1, <1>3, <1>8, <1>9, <1>10, InvNodes
  <2>2. CASE l # NULL
    <3>1. l \in DOMAIN node /\ l # p
      BY <2>2, <1>3, <1>5
    <3>2. /\ DOMAIN new = DOMAIN list
          /\ new[l] = [node[l] EXCEPT !.next = p]
          /\ \A a \in DOMAIN list \ {l} : new[a] = list[a]
          /\ new = [a \in DOMAIN list |-> new[a]]
      BY <2>2, <3>1, <1>8, <1>10
    <3>3. /\ new[l] \in Node /\ new[l].num = node[l].num /\ new[l].next = p
          /\ new[l].text = node[l].text
      <4>1. node[l] \in Node /\ p \in Nat
        BY <3>1, <1>2, InvNodes
      <4> QED
        BY ONLY <3>2, <4>1 DEF Node
    <3>4. \A a \in DOMAIN list : new[a] \in Node
      BY ONLY <3>2, <3>3, <1>9
    <3>5. new[p] = list[p]
      BY <3>1, <3>2, <1>8
    <3>6. new[p].num = num /\ new[p].next = n /\ new[p].text = text
      BY <3>5, <1>8
    <3>7. ASSUME NEW a \in DOMAIN node
          PROVE  /\ new[a].num = node[a].num
                 /\ new[a].text = node[a].text
                 /\ new[a].next = IF a = l THEN p ELSE node[a].next
      <4>1. a \in DOMAIN list /\ list[a] = node[a]
        BY <1>8
      <4> QED
        BY ONLY <3>2, <3>3, <4>1
    <3>8. DOMAIN new = DOMAIN node \cup {p} /\ new \in [DOMAIN new -> Node]
      BY ONLY <3>2, <3>4, <1>8
    <3> QED
      BY ONLY <3>6, <3>7, <3>8
  <2> QED
    BY <2>1, <2>2
<1>12. Nodes(new)
  BY <1>2, <1>11, InvNodes DEF Nodes
<1>13. Chain(IF l = NULL THEN p ELSE programHead, new)
  BY ONLY <1>2, <1>3, <1>4, <1>5, <1>7, <1>11, <1>12, InsertChain, num \in Numbers
<1>14. programHead' = IF l = NULL THEN p ELSE programHead
  BY <1>1 DEF Relink
<1>15. Inserted(node, new, num, text)
  <2>1. Kept(node, new)
    BY <1>11 DEF Kept
  <2>2. /\ p \notin DOMAIN node /\ DOMAIN new = DOMAIN node \cup {p}
        /\ new[p].num = num /\ new[p].text = text
    BY <1>3, <1>11
  <2> QED
    BY ONLY <2>1, <2>2 DEF Inserted
<1> QED
  BY <1>2, <1>3, <1>11, <1>13, <1>14, <1>15, InvNodes

\* A node of the list given back is unlinked as well.
LEMMA FreeNode ==
    ASSUME Inv, NEW t \in DOMAIN node, free(t), DOMAIN node' = DOMAIN node \ {t},
           environ' = environ
    PROVE  Heap(hdr', brk') /\ Owned'
<1>1. Heap(hdr', brk') /\ Pointers(hdr') = Pointers(hdr) \ {t}
  BY InvNodes, FreeHeap DEF Inv
<1>2. Environment' = Environment
  BY DEF Environment
<1> QED
  BY <1>1, <1>2 DEF Inv, Owned

LEMMA RemoveInv ==
    ASSUME Inv, mode # "clear", environ' = environ,
           NEW num \in Numbers, NEW l \in Links, IsAt(l, num), Remove(l)
    PROVE  /\ Heap(hdr', brk') /\ Owned'
           /\ Chain(programHead', node')
           /\ Removed(node, node', num)
<1> PICK t : t = Link(l)
  OBVIOUS
<1> DEFINE list == [a \in DOMAIN node \ {t} |-> node[a]]
<1>1. Relink(list, l, node[t].next) /\ free(t) /\ t # NULL
  BY DEF Remove, Dropped, IsAt
<1>2. Chain(programHead, node) /\ t = NextOf(programHead, node, l)
  BY DEF Inv, ListHead, Link, NextOf
<1>3. l \in {NULL} \cup DOMAIN node
  BY DEF Links
<1>4. t \in DOMAIN node /\ l # t
  BY <1>1, <1>2, <1>3, LinkNames
<1> PICK n : n = node[t].next
  OBVIOUS
<1> PICK new : new = node'
  OBVIOUS
<1>5. new = IF l = NULL THEN list ELSE [list EXCEPT ![l].next = n]
  BY <1>1 DEF Relink
<1>6. n \in Nat
  BY <1>4, InvNodes
<1>7. /\ DOMAIN new = DOMAIN node \ {t} /\ new \in [DOMAIN new -> Node]
      /\ \A a \in DOMAIN new : /\ new[a].num = node[a].num
                               /\ new[a].text = node[a].text
                               /\ new[a].next = IF a = l THEN n ELSE node[a].next
  <2>1. CASE l = NULL
    BY <2>1, <1>5, InvNodes
  <2>2. CASE l # NULL
    <3>1. l \in DOMAIN node \ {t}
      BY <2>2, <1>3, <1>4
    <3>2. /\ DOMAIN new = DOMAIN node \ {t}
          /\ new[l] = [node[l] EXCEPT !.next = n]
          /\ \A a \in DOMAIN new \ {l} : new[a] = node[a]
          /\ new = [a \in DOMAIN node \ {t} |-> new[a]]
      BY <2>2, <3>1, <1>5
    <3>3. /\ new[l] \in Node /\ new[l].num = node[l].num /\ new[l].next = n
          /\ new[l].text = node[l].text
      BY <3>1, <3>2, <1>6, InvNodes DEF Node
    <3>4. \A a \in DOMAIN new : new[a] \in Node
      BY <3>2, <3>3, InvNodes
    <3>5. ASSUME NEW a \in DOMAIN new
          PROVE  /\ new[a].num = node[a].num
                 /\ new[a].text = node[a].text
                 /\ new[a].next = IF a = l THEN n ELSE node[a].next
      BY <3>2, <3>3
    <3> QED
      BY <3>2, <3>4, <3>5
  <2> QED
    BY <2>1, <2>2
<1>8. Nodes(new)
  BY <1>7, InvNodes DEF Nodes
<1>9. Chain(IF l = NULL THEN n ELSE programHead, new)
  <2>1. DOMAIN new = DOMAIN node \ {t}
    BY <1>7
  <2>2. \A a \in DOMAIN new : /\ new[a].num = node[a].num
                              /\ new[a].next = IF a = l THEN n ELSE node[a].next
    BY <1>7
  <2> PICK head, list0 : head = programHead /\ list0 = node
    OBVIOUS
  <2>3. /\ Chain(head, list0) /\ t = NextOf(head, list0, l) /\ t # NULL
        /\ l \in {NULL} \cup DOMAIN list0 /\ n = list0[t].next
    BY <1>1, <1>2, <1>3
  <2>4. /\ DOMAIN new = DOMAIN list0 \ {t}
        /\ \A a \in DOMAIN new : /\ new[a].num = list0[a].num
                                /\ new[a].next = IF a = l THEN n ELSE list0[a].next
    BY <2>1, <2>2
  <2>5. Chain(IF l = NULL THEN n ELSE head, new)
    BY ONLY <1>8, <2>3, <2>4, RemoveChain
  <2> QED
    BY <2>5
<1>10. programHead' = IF l = NULL THEN n ELSE programHead
  BY <1>1 DEF Relink
<1>11. Heap(hdr', brk') /\ Owned'
  BY <1>1, <1>4, <1>7, FreeNode
<1>12. node[t].num = num
  BY DEF IsAt
<1>13. Removed(node, new, num)
  <2>1. Kept(node, new)
    BY <1>7 DEF Kept
  <2>2. t \in DOMAIN node /\ DOMAIN new = DOMAIN node \ {t}
    BY <1>4, <1>7
  <2> QED
    BY ONLY <2>1, <2>2, <1>12 DEF Removed
<1> QED
  BY <1>9, <1>10, <1>11, <1>13

LEMMA ReplaceInv ==
    ASSUME Inv, mode # "clear", NEW num \in Numbers, NEW l \in Links,
           NEW text \in Texts, IsAt(l, num), Replace(l, text)
    PROVE  /\ Chain(programHead', node') /\ DOMAIN node' = DOMAIN node
           /\ Replaced(node, node', num, text)
<1> PICK t : t = Link(l)
  OBVIOUS
<1>1. t # NULL /\ Chain(programHead, node) /\ t = NextOf(programHead, node, l)
  BY DEF IsAt, Inv, ListHead, Link, NextOf
<1>2. t \in DOMAIN node
  BY <1>1 DEF Links, NextOf, Chain, Begins, Follows
<1> PICK new : new = node'
  OBVIOUS
<1>3. new = [node EXCEPT ![t].text = text] /\ programHead' = programHead
  BY DEF Replace
<1>4. /\ DOMAIN new = DOMAIN node /\ new = [a \in DOMAIN node |-> new[a]]
      /\ new[t] = [node[t] EXCEPT !.text = text]
      /\ \A a \in DOMAIN node \ {t} : new[a] = node[a]
  BY <1>2, <1>3
<1>5. /\ new[t] \in Node /\ new[t].num = node[t].num /\ new[t].next = node[t].next
      /\ new[t].text = text
  BY <1>2, <1>4, InvNodes DEF Node
<1>6. \A a \in DOMAIN node : /\ new[a] \in Node
                             /\ new[a].num = node[a].num /\ new[a].next = node[a].next
  BY <1>4, <1>5, InvNodes
<1>7. Nodes(new)
  BY <1>4, <1>6, InvNodes DEF Nodes
<1>8. node[t].num = num
  BY DEF IsAt
<1>9. Replaced(node, new, num, text)
  BY ONLY <1>2, <1>4, <1>5, <1>6, <1>8 DEF Replaced
<1>10. Chain(programHead, new)
  <2>1. \A a \in DOMAIN new : new[a].num = node[a].num /\ new[a].next = node[a].next
    BY <1>4, <1>6
  <2> QED
    BY ONLY <1>1, <1>4, <1>7, <2>1, ReplaceChain
<1> QED
  BY <1>3, <1>4, <1>9, <1>10

LEMMA ProcessLineInv ==
    ASSUME Inv, NEW num \in Numbers, ProcessLine(num)
    PROVE  Inv'
<1>1. /\ mode = "prompt" /\ UNCHANGED <<environ, mode, line, r>>
      /\ ListHead' = programHead' /\ Environment' = Environment
  BY DEF ProcessLine, ListHead, Environment
<1>2. Iterators' /\ environ' \in Seq(Nat)
  BY <1>1 DEF Inv, Iterators
<1>3. PICK l \in Links :
        /\ WalkEnds(l, num)
        /\ \/ IsAt(l, num) /\ Remove(l)
           \/ IsAt(l, num) /\ \E text \in Texts : Replace(l, text)
           \/ ~IsAt(l, num) /\ \E text \in Texts : Insert(l, num, text)
  BY DEF ProcessLine
<1>4. CASE IsAt(l, num) /\ Remove(l)
  BY <1>1, <1>2, <1>4, RemoveInv DEF Inv
<1>5. ASSUME IsAt(l, num), NEW text \in Texts, Replace(l, text)
      PROVE  Inv'
  <2>1. Chain(programHead', node') /\ DOMAIN node' = DOMAIN node
    BY <1>1, <1>5, ReplaceInv
  <2>2. hdr' = hdr /\ brk' = brk
    BY <1>5 DEF Replace, heapVars
  <2> QED
    BY <1>1, <1>2, <2>1, <2>2 DEF Inv, Owned
<1>6. ASSUME ~ IsAt(l, num), NEW text \in Texts, Insert(l, num, text)
      PROVE  Inv'
  <2>1. /\ Heap(hdr', brk')
        /\ Pointers(hdr') = Pointers(hdr) \cup (DOMAIN node' \ DOMAIN node)
        /\ DOMAIN node \subseteq DOMAIN node'
        /\ (DOMAIN node' \ DOMAIN node) \cap Pointers(hdr) = {}
        /\ Chain(programHead', node')
    BY <1>1, <1>3, <1>6, InsertInv
  <2>2. Owned'
    BY <1>1, <2>1 DEF Inv, Owned
  <2> QED
    BY <1>1, <1>2, <2>1, <2>2 DEF Inv
<1> QED
  BY <1>3, <1>4, <1>5, <1>6

LEMMA ClearNodeInv ==
    ASSUME Inv, ClearNode
    PROVE  Inv'
<1>1. /\ mode = "clear" /\ r # NULL /\ UNCHANGED <<environ, mode, line>>
      /\ free(r) /\ r' = node[r].next
      /\ node' = [a \in DOMAIN node \ {r} |-> node[a]]
  BY DEF ClearNode
<1> PICK t, n, new : t = r /\ n = node[r].next /\ new = node'
  OBVIOUS
<1>2. Chain(t, node) /\ ListHead' = n
  BY <1>1 DEF Inv, ListHead
<1>3. t \in DOMAIN node
  BY <1>1, <1>2 DEF Chain, Begins
<1>4. /\ DOMAIN new = DOMAIN node \ {t} /\ new \in [DOMAIN new -> Node]
      /\ \A a \in DOMAIN new : new[a] = node[a]
  BY <1>1, InvNodes
<1>5. Nodes(new)
  BY <1>4, InvNodes DEF Nodes
<1>6. NULL \notin DOMAIN new
  BY <1>4, InvNodes
<1>7. Chain(n, new)
  <2>1. t = NextOf(t, node, NULL) /\ t # NULL
    BY <1>1 DEF NextOf
  <2> HIDE DEF NULL
  <2>2. \A a \in DOMAIN new :
          new[a].num = node[a].num /\ new[a].next = IF a = NULL THEN n ELSE node[a].next
    BY <1>4, <1>6
  <2>3. Chain(IF NULL = NULL THEN n ELSE t, new)
    BY ONLY <1>2, <1>4, <1>5, <2>1, <2>2, RemoveChain, t = r, n = node[r].next
  <2> QED
    BY <2>3
<1>8. Heap(hdr', brk') /\ Owned'
  BY <1>1, <1>3, FreeNode
<1>9. Iterators' /\ environ' \in Seq(Nat)
  BY <1>1 DEF Inv, Iterators
<1> QED
  BY <1>2, <1>7, <1>8, <1>9 DEF Inv

(***************************************************************************)
(* The other actions leave the heap and the list as they are.              *)
(***************************************************************************)
LEMMA ListKept ==
    ASSUME Inv, UNCHANGED <<heapVars, environ, node>>, ListHead' = ListHead, Iterators'
    PROVE  Inv'
BY DEF Inv, Owned, Environment, heapVars

LEMMA RunFromInv ==
    ASSUME Inv, mode # "clear", NEW a \in {NULL} \cup DOMAIN node, RunFrom(a),
           UNCHANGED listVars
    PROVE  Inv'
<1>1. UNCHANGED <<heapVars, environ, node, programHead>>
  BY DEF listVars
<1>2. ListHead' = ListHead
  BY <1>1 DEF RunFrom, StopRun, ListHead
<1>3. Iterators'
  BY <1>1 DEF RunFrom, StopRun, Iterators
<1> QED
  BY <1>1, <1>2, <1>3, ListKept

LEMMA RunLineInv ==
    ASSUME Inv, RunLine
    PROVE  Inv'
<1>1. mode = "run" /\ UNCHANGED <<heapVars, environ, node, programHead>>
  BY DEF RunLine, PrintStatement, GotoStatement, LetStatement, Refuse, PassOver,
         EndOfLine, listVars
<1>2. line \in DOMAIN node /\ r \in DOMAIN node
  BY <1>1 DEF Inv, Iterators
<1>3. CASE EndOfLine
  <2>1. Advanced \in {NULL} \cup DOMAIN node
    BY <1>2 DEF Inv, Chain, Follows, Advanced
  <2> QED
    BY <1>1, <1>3, <2>1, RunFromInv DEF EndOfLine
<1>4. CASE ~ EndOfLine
  <2>1. StopRun \/ (mode' = mode /\ line' = line /\ r' \in DOMAIN node)
    BY <1>2, <1>4 DEF RunLine, PrintStatement, GotoStatement, LetStatement,
                      Refuse, PassOver
  <2>2. ListHead' = ListHead /\ Iterators'
    BY <1>1, <1>2, <2>1 DEF StopRun, ListHead, Iterators
  <2> QED
    BY <1>1, <2>2, ListKept
<1> QED
  BY <1>3, <1>4

LEMMA NextInv == Inv /\ [Next]_vars => Inv'
<1> SUFFICES ASSUME Inv, [Next]_vars PROVE Inv'
  OBVIOUS
<1>1. CASE libcInit
  BY <1>1, libcInitInv
<1>2. ASSUME NEW num \in Numbers, ProcessLine(num) PROVE Inv'
  BY <1>2, ProcessLineInv
<1>3. CASE ClearProgram
  BY <1>3, ListKept DEF ClearProgram, ListHead, Iterators, Inv
<1>4. CASE ClearNode
  BY <1>4, ClearNodeInv
<1>5. CASE Cleared
  BY <1>5, ListKept DEF Cleared, ListHead, Iterators, Inv
<1>6. CASE RUN
  <2>1. programHead \in {NULL} \cup DOMAIN node /\ mode = "prompt"
    BY <1>6 DEF RUN, Inv, ListHead, Chain, Begins
  <2> QED
    BY <1>6, <2>1, RunFromInv DEF RUN
<1>7. CASE RunLine
  BY <1>7, RunLineInv
<1>8. CASE BlankLine \/ Exit
  BY <1>8, ListKept DEF BlankLine, Exit, ListHead, Iterators, Inv
<1>9. CASE UNCHANGED vars
  BY <1>9, ListKept DEF vars, ListHead, Iterators, Inv
<1> QED
  BY <1>1, <1>2, <1>3, <1>4, <1>5, <1>6, <1>7, <1>8, <1>9 DEF Next

\* The nodes are a list in ascending order, and with the environment they are
\* what is in use on a sound heap (usr/src/basic.c:29-62, usr/lib/stdlib.c:105-161).
THEOREM Safety == Spec => []HeapIsProgram
BY InitInv, NextInv, InvSafety, PTL DEF Spec

(***************************************************************************)
(* The tokens of a line.                                                   *)
(***************************************************************************)
LEMMA RestIs ==
    ASSUME NEW s \in Seq(Tokens), NEW n \in 0 .. Len(s), NEW t, t = Rest(s, n)
    PROVE  /\ t \in Seq(Tokens) /\ Len(t) = Len(s) - n
           /\ \A i \in 1 .. Len(t) : t[i] = s[n + i]
<1>1. Len(s) \in Nat /\ n \in Nat
  BY LenProperties
<1>2. \A i \in n + 1 .. Len(s) : s[i] \in Tokens
  BY <1>1, ElementOfSeq
<1>3. /\ t \in Seq(Tokens)
      /\ Len(t) = IF n + 1 <= Len(s) THEN Len(s) - (n + 1) + 1 ELSE 0
      /\ \A i \in 1 .. Len(s) - (n + 1) + 1 : t[i] = s[n + 1 + i - 1]
  <2>1. n + 1 \in Int /\ Len(s) \in Int /\ t = SubSeq(s, n + 1, Len(s))
    BY <1>1 DEF Rest
  <2> QED
    BY ONLY <2>1, <1>2, SubSeqProperties
<1>4. Len(t) = Len(s) - n
  BY <1>1, <1>3
<1>5. ASSUME NEW i \in 1 .. Len(t) PROVE t[i] = s[n + i]
  <2>1. i \in 1 .. Len(s) - (n + 1) + 1 /\ n + 1 + i - 1 = n + i
    BY <1>1, <1>4
  <2> QED
    BY <2>1, <1>3
<1> QED
  BY <1>3, <1>4, <1>5

LEMMA RestOfNothing ==
    ASSUME NEW s \in Seq(Tokens)
    PROVE  Rest(s, 0) = s
<1> PICK t : t = Rest(s, 0)
  OBVIOUS
<1>1. Len(s) \in Nat
  BY LenProperties
<1>2. t \in Seq(Tokens) /\ Len(t) = Len(s) /\ \A i \in 1 .. Len(t) : t[i] = s[0 + i]
  <2>1. 0 \in 0 .. Len(s)
    BY <1>1
  <2> QED
    BY <1>1, <2>1, RestIs
<1>3. t = s
  <2>1. \A i \in 1 .. Len(t) : t[i] = s[i]
    BY <1>1, <1>2
  <2> QED
    BY <1>2, <2>1, SeqEqual
<1> QED
  BY <1>3

LEMMA RestOfRest ==
    ASSUME NEW s \in Seq(Tokens), NEW k \in 0 .. Len(s), NEW t, t = Rest(s, k),
           NEW n \in 0 .. Len(t)
    PROVE  k + n \in 0 .. Len(s) /\ Rest(t, n) = Rest(s, k + n)
<1>1. Len(s) \in Nat
  BY LenProperties
<1>2. t \in Seq(Tokens) /\ Len(t) = Len(s) - k /\ \A i \in 1 .. Len(t) : t[i] = s[k + i]
  BY RestIs
<1>3. k + n \in 0 .. Len(s)
  BY <1>1, <1>2
<1> PICK a, b : a = Rest(t, n) /\ b = Rest(s, k + n)
  OBVIOUS
<1>4. a \in Seq(Tokens) /\ Len(a) = Len(t) - n /\ \A i \in 1 .. Len(a) : a[i] = t[n + i]
  <2>1. t \in Seq(Tokens)
    BY <1>2
  <2> QED
    BY ONLY <2>1, RestIs, n \in 0 .. Len(t), a = Rest(t, n)
<1>5. b \in Seq(Tokens) /\ Len(b) = Len(s) - (k + n) /\ \A i \in 1 .. Len(b) : b[i] = s[k + n + i]
  BY ONLY <1>3, RestIs, s \in Seq(Tokens), b = Rest(s, k + n)
<1>6. Len(a) = Len(b)
  BY ONLY <1>1, <1>2, <1>4, <1>5, k \in 0 .. Len(s), n \in 0 .. Len(t)
<1>7. ASSUME NEW i \in 1 .. Len(a) PROVE a[i] = b[i]
  <2>1. /\ n \in Nat /\ k \in Nat /\ i \in Nat /\ Len(t) \in Nat
        /\ 1 <= i /\ i <= Len(t) - n
    BY <1>1, <1>2, <1>4
  <2>2. n + i \in 1 .. Len(t) /\ k + (n + i) = k + n + i
    BY ONLY <2>1
  <2>3. a[i] = t[n + i] /\ t[n + i] = s[k + (n + i)]
    BY ONLY <1>2, <1>4, <2>2, i \in 1 .. Len(a)
  <2> QED
    BY ONLY <2>2, <2>3, <1>5, <1>6, i \in 1 .. Len(a)
<1>8. a = b
  BY <1>4, <1>5, <1>6, <1>7, SeqEqual
<1> QED
  BY <1>3, <1>8

\* Where the statements begin is closed, and the least such set.
LEMMA StartsBegin ==
    ASSUME NEW text \in Seq(Tokens)
    PROVE  0 \in Starts(text)
<1>1. 0 \in 0 .. Len(text)
  BY LenProperties
<1> QED
  BY <1>1 DEF Starts, Closed

LEMMA StartsGoOn ==
    ASSUME NEW text \in Seq(Tokens), NEW k \in Starts(text), NEW s, s = Rest(text, k),
           NEW n \in 1 .. Len(s), Reads(s, n)
    PROVE  k + n \in Starts(text) /\ Rest(s, n) = Rest(text, k + n)
<1>1. Len(text) \in Nat /\ k \in 0 .. Len(text)
  BY LenProperties DEF Starts
<1>2. Len(s) = Len(text) - k
  BY <1>1, RestIs
<1>3. n \in 1 .. Len(text) - k /\ n \in 0 .. Len(s)
  BY <1>1, <1>2
<1>4. k + n \in 0 .. Len(text) /\ Rest(s, n) = Rest(text, k + n)
  BY <1>1, <1>3, RestOfRest
<1>5. ASSUME NEW S \in SUBSET (0 .. Len(text)), Closed(text, S) PROVE k + n \in S
  <2>1. k \in S
    BY <1>5 DEF Starts
  <2> QED
    BY <2>1, <1>3, <1>5 DEF Closed
<1> QED
  BY <1>4, <1>5 DEF Starts

\* A jump to a number, or to what a variable holds, is among the targets of the text.
LEMMA TargetIsKnown ==
    ASSUME NEW text \in Seq(Tokens), NEW k \in Starts(text), NEW s, s = Rest(text, k),
           Keyword(s, "GOTO"), Operand(s, 2)
    PROVE  IF Is(s, 2, "num") THEN Token(s, 2)[2] \in JumpTargets(text)
           ELSE {0} \cup Numbers \subseteq JumpTargets(text)
<1>1. Len(text) \in Nat /\ k \in 0 .. Len(text)
  BY LenProperties DEF Starts
<1>2. /\ s \in Seq(Tokens) /\ Len(s) = Len(text) - k
      /\ \A i \in 1 .. Len(s) : s[i] = text[k + i]
  BY ONLY <1>1, RestIs, text \in Seq(Tokens), s = Rest(text, k)
<1>3. 2 <= Len(s)
  <2>1. CASE ~ 2 <= Len(s)
    BY <2>1 DEF Operand, Is, Token
  <2> QED
    BY <2>1
<1>4. /\ k + 1 \in 1 .. Len(text) - 1 /\ k + 1 + 1 = k + 2
      /\ s[1] = text[k + 1] /\ s[2] = text[k + 2]
  BY <1>1, <1>2, <1>3
<1>5. Token(s, 1) = s[1] /\ Token(s, 2) = s[2]
  BY <1>1, <1>2, <1>3 DEF Token
<1>6. k + 1 \in {j \in 1 .. Len(text) - 1 : text[j] = <<"id", "GOTO">>}
  BY <1>4, <1>5 DEF Keyword
<1> DEFINE target == IF text[k + 1 + 1][1] = "num" THEN {text[k + 1 + 1][2]} ELSE {0} \cup Numbers
<1>7. target \subseteq JumpTargets(text)
  BY <1>6 DEF JumpTargets
<1> QED
  BY <1>4, <1>5, <1>7 DEF Is

(***************************************************************************)
(* The program a list of nodes stands for.                                 *)
(***************************************************************************)
ProgramOf(list, S) ==
    [n \in {list[a].num : a \in S} |-> list[CHOOSE a \in S : list[a].num = n].text]

Numbered(list) == {list[a].num : a \in DOMAIN list}

LEMMA ProgramIs ==
    ASSUME NEW list, Distinct(list), NEW P, P = ProgramOf(list, DOMAIN list)
    PROVE  /\ P = [m \in DOMAIN P |-> P[m]]
           /\ DOMAIN P = Numbered(list)
           /\ \A a \in DOMAIN list : P[list[a].num] = list[a].text
<1>1. /\ P = [m \in DOMAIN P |-> P[m]]
      /\ DOMAIN P = Numbered(list)
  BY DEF ProgramOf, Numbered
<1>2. ASSUME NEW a \in DOMAIN list PROVE P[list[a].num] = list[a].text
  <2> PICK n : n = list[a].num
    OBVIOUS
  <2>1. P[n] = list[CHOOSE b \in DOMAIN list : list[b].num = n].text
    BY DEF ProgramOf
  <2>2. (CHOOSE b \in DOMAIN list : list[b].num = n) = a
    BY DEF Distinct
  <2> QED
    BY <2>1, <2>2
<1> QED
  BY <1>1, <1>2

\* The program with a line written, and without one.
Written(P, n, text) == [m \in DOMAIN P \cup {n} |-> IF m = n THEN text ELSE P[m]]
Erased(P, n) == [m \in DOMAIN P \ {n} |-> P[m]]

\* A line is added or given another text at one node.
LEMMA EditProgram ==
    ASSUME NEW list, Distinct(list), NEW P, P = ProgramOf(list, DOMAIN list),
           NEW new, Distinct(new), NEW Q, Q = ProgramOf(new, DOMAIN new),
           NEW num, NEW text, Inserted(list, new, num, text) \/ Replaced(list, new, num, text)
    PROVE  Q = Written(P, num, text)
<1>1. PICK t \in DOMAIN new :
          /\ new[t].num = num /\ new[t].text = text
          /\ t \in DOMAIN list => list[t].num = num
          /\ DOMAIN new = DOMAIN list \cup {t}
          /\ \A a \in DOMAIN new \ {t} :
                 new[a].num = list[a].num /\ new[a].text = list[a].text
  <2>1. CASE Inserted(list, new, num, text)
    BY <2>1 DEF Inserted, Kept
  <2>2. CASE Replaced(list, new, num, text)
    BY <2>2 DEF Replaced
  <2> QED
    BY <2>1, <2>2
<1>2. /\ DOMAIN P = Numbered(list)
      /\ \A a \in DOMAIN list : P[list[a].num] = list[a].text
  BY ONLY ProgramIs, Distinct(list), P = ProgramOf(list, DOMAIN list)
<1>3. /\ Q = [m \in DOMAIN Q |-> Q[m]]
      /\ DOMAIN Q = Numbered(new)
      /\ \A a \in DOMAIN new : Q[new[a].num] = new[a].text
  BY ONLY ProgramIs, Distinct(new), Q = ProgramOf(new, DOMAIN new)
<1>4. DOMAIN Q = DOMAIN P \cup {num}
  <2>1. ASSUME NEW m \in DOMAIN Q PROVE m \in DOMAIN P \cup {num}
    <3>1. PICK a \in DOMAIN new : new[a].num = m
      BY <1>3 DEF Numbered
    <3>2. CASE a = t
      BY <3>1, <3>2, <1>1
    <3>3. CASE a # t
      BY <3>1, <3>3, <1>1, <1>2 DEF Numbered
    <3> QED
      BY <3>2, <3>3
  <2>2. ASSUME NEW m \in DOMAIN P PROVE m \in DOMAIN Q
    <3>1. PICK a \in DOMAIN list : list[a].num = m
      BY <1>2 DEF Numbered
    <3>2. a \in DOMAIN new /\ new[a].num = m
      BY <3>1, <1>1
    <3> QED
      BY <3>2, <1>3 DEF Numbered
  <2>3. num \in DOMAIN Q
    BY <1>1, <1>3 DEF Numbered
  <2> QED
    BY <2>1, <2>2, <2>3
<1>5. ASSUME NEW m \in DOMAIN Q PROVE Q[m] = IF m = num THEN text ELSE P[m]
  <2>1. PICK a \in DOMAIN new : new[a].num = m
    BY <1>3 DEF Numbered
  <2>2. CASE a = t
    BY <2>1, <2>2, <1>1, <1>3
  <2>3. CASE a # t
    <3>1. m # num
      BY <2>1, <2>3, <1>1 DEF Distinct
    <3>2. a \in DOMAIN list /\ list[a].num = m /\ list[a].text = new[a].text
      BY <2>1, <2>3, <1>1
    <3> QED
      BY <2>1, <3>1, <3>2, <1>2, <1>3
  <2> QED
    BY <2>2, <2>3
<1> QED
  BY <1>3, <1>4, <1>5 DEF Written

LEMMA RemoveFromProgram ==
    ASSUME NEW list, Distinct(list), NEW P, P = ProgramOf(list, DOMAIN list),
           NEW new, Distinct(new), NEW Q, Q = ProgramOf(new, DOMAIN new),
           NEW num, Removed(list, new, num)
    PROVE  num \in DOMAIN P /\ Q = Erased(P, num)
<1>1. PICK t \in DOMAIN list :
          /\ DOMAIN new = DOMAIN list \ {t} /\ list[t].num = num
          /\ \A a \in DOMAIN new : new[a].num = list[a].num /\ new[a].text = list[a].text
  BY DEF Removed, Kept
<1>2. /\ DOMAIN P = Numbered(list)
      /\ \A a \in DOMAIN list : P[list[a].num] = list[a].text
  BY ONLY ProgramIs, Distinct(list), P = ProgramOf(list, DOMAIN list)
<1>3. /\ Q = [m \in DOMAIN Q |-> Q[m]]
      /\ DOMAIN Q = Numbered(new)
      /\ \A a \in DOMAIN new : Q[new[a].num] = new[a].text
  BY ONLY ProgramIs, Distinct(new), Q = ProgramOf(new, DOMAIN new)
<1>4. ASSUME NEW m \in DOMAIN Q PROVE m \in DOMAIN P \ {num} /\ Q[m] = P[m]
  <2>1. PICK a \in DOMAIN new : new[a].num = m
    BY <1>3 DEF Numbered
  <2>2. a \in DOMAIN list /\ a # t /\ list[a].num = m /\ list[a].text = new[a].text
    BY <2>1, <1>1
  <2>3. m # num
    BY <2>2, <1>1 DEF Distinct
  <2> QED
    BY <2>1, <2>2, <2>3, <1>2, <1>3 DEF Numbered
<1>5. ASSUME NEW m \in DOMAIN P \ {num} PROVE m \in DOMAIN Q
  <2>1. PICK a \in DOMAIN list : list[a].num = m
    BY <1>2 DEF Numbered
  <2>2. a \in DOMAIN new /\ new[a].num = m
    BY <2>1, <1>1
  <2> QED
    BY <2>2, <1>3 DEF Numbered
<1>6. DOMAIN Q = DOMAIN P \ {num}
  BY <1>4, <1>5
<1> QED
  <2>1. \A m \in DOMAIN P \ {num} : Q[m] = P[m]
    BY <1>4, <1>6
  <2>2. Q = [m \in DOMAIN P \ {num} |-> P[m]]
    BY ONLY <1>3, <1>6, <2>1
  <2> QED
    BY <1>1, <1>2, <2>2 DEF Numbered, Erased

\* What follows a node on the list has the least of the greater numbers.
LEMMA LeastIs ==
    ASSUME NEW S \in SUBSET Nat, NEW n \in S, \A m \in S : n <= m
    PROVE  Abstract!Least(S) = n
<1>1. \A k \in S : (\A m \in S : k <= m) => k = n
  OBVIOUS
<1> QED
  BY <1>1 DEF Abstract!Least

LEMMA FollowingIs ==
    ASSUME NEW head, NEW list, Chain(head, list),
           Program = ProgramOf(list, DOMAIN list)
    PROVE  /\ Abstract!Following(0) = IF head = NULL THEN 0 ELSE list[head].num
           /\ \A a \in DOMAIN list :
                  Abstract!Following(list[a].num) =
                      IF list[a].next = NULL THEN 0 ELSE list[list[a].next].num
<1> PICK P : P = Program
  OBVIOUS
<1>1. DOMAIN P = Numbered(list)
  <2>1. Distinct(list) /\ P = ProgramOf(list, DOMAIN list)
    BY DEF Chain
  <2> QED
    BY ONLY <2>1, ProgramIs
<1>2. \A a \in DOMAIN list : list[a].num \in Nat \ {0}
  BY ChainNumbers DEF Chain
<1>3. \A n : Abstract!Following(n) = LET later == {m \in DOMAIN P : m > n}
                                     IN  IF later = {} THEN 0 ELSE Abstract!Least(later)
  BY DEF Abstract!Following
<1>4. ASSUME NEW n \in Nat, \A a \in DOMAIN list : list[a].num <= n
      PROVE  Abstract!Following(n) = 0
  <2>1. {m \in DOMAIN P : m > n} = {}
    BY <1>1, <1>2, <1>4 DEF Numbered
  <2> QED
    BY <2>1, <1>3
<1>5. ASSUME NEW n \in Nat, NEW b \in DOMAIN list, list[b].num > n,
             \A c \in DOMAIN list : list[c].num <= n \/ list[b].num <= list[c].num
      PROVE  Abstract!Following(n) = list[b].num
  <2> PICK later : later = {m \in DOMAIN P : m > n}
    OBVIOUS
  <2>1. later \in SUBSET Nat /\ list[b].num \in later
    BY <1>1, <1>2, <1>5 DEF Numbered
  <2>2. \A m \in later : list[b].num <= m
    BY <1>1, <1>2, <1>5 DEF Numbered
  <2>3. Abstract!Least(later) = list[b].num
    BY <2>1, <2>2, LeastIs
  <2> QED
    BY <2>1, <2>3, <1>3
<1>6. Abstract!Following(0) = IF head = NULL THEN 0 ELSE list[head].num
  <2>1. CASE head = NULL
    BY <2>1, <1>4 DEF Chain, Begins
  <2>2. CASE head # NULL
    <3>1. head \in DOMAIN list /\ \A c \in DOMAIN list : list[head].num <= list[c].num
      BY <2>2 DEF Chain, Begins
    <3>2. list[head].num > 0
      BY <3>1, <1>2
    <3> QED
      BY <2>2, <3>1, <3>2, <1>5
  <2> QED
    BY <2>1, <2>2
<1>7. ASSUME NEW a \in DOMAIN list
      PROVE  Abstract!Following(list[a].num) =
                 IF list[a].next = NULL THEN 0 ELSE list[list[a].next].num
  <2> PICK n, b : n = list[a].num /\ b = list[a].next
    OBVIOUS
  <2>1. n \in Nat
    BY <1>2
  <2>2. CASE b = NULL
    <3>1. \A c \in DOMAIN list : list[c].num <= n
      BY <2>2 DEF Chain, Follows
    <3> QED
      BY <2>1, <2>2, <3>1, <1>4
  <2>3. CASE b # NULL
    <3>1. /\ b \in DOMAIN list /\ n < list[b].num
          /\ \A c \in DOMAIN list : list[c].num <= n \/ list[b].num <= list[c].num
      BY <2>3 DEF Chain, Follows
    <3>2. list[b].num > n
      BY <3>1, <2>1, <1>2
    <3> QED
      BY <2>1, <2>3, <3>1, <3>2, <1>5
  <2> QED
    BY <2>2, <2>3
<1> QED
  BY <1>6, <1>7

(***************************************************************************)
(* Refinement of BasicSpec.  What a run still has to read is the rest of   *)
(* the line from where one of its statements begins.                       *)
(***************************************************************************)
Reading ==
    mode = "run" =>
        \E k \in Starts(node[line].text) : linePtr = Rest(node[line].text, k)

RunInv == Inv /\ Reading

LEMMA TextsOfNodes ==
    ASSUME Inv
    PROVE  \A a \in DOMAIN node : node[a].num \in Numbers /\ node[a].text \in Texts
                                  /\ node[a].text \in Seq(Tokens)
BY InvNodes DEF Node

LEMMA StatementRead ==
    ASSUME RunInv, mode = "run", NEW n \in 1 .. Len(linePtr), Reads(linePtr, n),
           linePtr' = Rest(linePtr, n), UNCHANGED <<node, line>>
    PROVE  Reading'
<1>1. line \in DOMAIN node
  BY DEF RunInv, Inv, Iterators
<1> PICK text : text = node[line].text
  OBVIOUS
<1>2. text \in Seq(Tokens)
  BY <1>1, TextsOfNodes DEF RunInv
<1>3. PICK k \in Starts(text) : linePtr = Rest(text, k)
  BY DEF RunInv, Reading
<1> PICK s : s = linePtr
  OBVIOUS
<1>4. k + n \in Starts(text) /\ Rest(s, n) = Rest(text, k + n)
  BY <1>2, <1>3, StartsGoOn
<1> QED
  BY <1>4 DEF Reading

LEMMA ReadingFrom ==
    ASSUME Inv, NEW a \in {NULL} \cup DOMAIN node, RunFrom(a), UNCHANGED node
    PROVE  Reading'
<1>1. CASE a = NULL
  BY <1>1 DEF RunFrom, StopRun, Reading
<1>2. CASE a # NULL
  <2> PICK text : text = node[a].text
    OBVIOUS
  <2>1. text \in Seq(Tokens)
    BY <1>2, TextsOfNodes
  <2>2. 0 \in Starts(text) /\ Rest(text, 0) = text
    BY <2>1, StartsBegin, RestOfNothing
  <2>3. linePtr' = text /\ line' = a
    BY <1>2 DEF RunFrom
  <2> QED
    BY <2>2, <2>3 DEF Reading
<1> QED
  BY <1>1, <1>2

LEMMA ReadingInv == RunInv /\ [Next]_vars => Reading'
<1> SUFFICES ASSUME RunInv, [Next]_vars PROVE Reading'
  OBVIOUS
<1>1. CASE libcInit \/ ClearProgram \/ ClearNode \/ Cleared \/ BlankLine \/ Exit
  BY <1>1 DEF libcInit, ClearProgram, ClearNode, Cleared, BlankLine, Exit, Reading
<1>2. ASSUME NEW num \in Numbers, ProcessLine(num) PROVE Reading'
  BY <1>2 DEF ProcessLine, Reading
<1>3. CASE RUN
  <2>1. programHead \in {NULL} \cup DOMAIN node
    BY <1>3 DEF RUN, RunInv, Inv, ListHead, Chain, Begins
  <2> QED
    BY <1>3, <2>1, ReadingFrom DEF RUN, RunInv, listVars
<1>4. CASE PrintStatement \/ LetStatement \/ PassOver
  <2>1. mode = "run" /\ ReadOn /\ UNCHANGED <<node, line>>
    BY <1>4 DEF PrintStatement, LetStatement, PassOver, listVars
  <2> QED
    BY <2>1, StatementRead DEF ReadOn
<1>5. CASE GotoStatement
  <2>1. StopRun \/ (mode = "run" /\ ReadOn /\ UNCHANGED <<node, line>>)
    BY <1>5 DEF GotoStatement, listVars
  <2>2. CASE StopRun
    BY <2>2 DEF StopRun, Reading
  <2>3. CASE mode = "run" /\ ReadOn /\ UNCHANGED <<node, line>>
    BY <2>3, StatementRead DEF ReadOn
  <2> QED
    BY <2>1, <2>2, <2>3
<1>6. CASE Refuse
  BY <1>6 DEF Refuse, StopRun, Reading
<1>7. CASE EndOfLine
  <2>1. Advanced \in {NULL} \cup DOMAIN node
    BY <1>7 DEF EndOfLine, RunInv, Inv, Iterators, Chain, Follows, Advanced
  <2> QED
    BY <1>7, <2>1, ReadingFrom DEF EndOfLine, RunInv, listVars
<1>8. CASE UNCHANGED vars
  BY <1>8 DEF vars, RunInv, Reading
<1> QED
  BY <1>1, <1>2, <1>3, <1>4, <1>5, <1>6, <1>7, <1>8 DEF Next, RunLine

LEMMA EmptyProgram ==
    ASSUME NEW list
    PROVE  ProgramOf(list, {}) = << >>
BY DEF ProgramOf

\* What the state of the interpreter stands for.
Stands ==
    /\ Program = IF mode = "clear" THEN << >> ELSE ProgramOf(node, DOMAIN node)
    /\ mode # "run" => Line = 0 /\ Iterator = 0
    /\ mode = "run" => /\ line \in DOMAIN node /\ r \in DOMAIN node
                       /\ Line = node[line].num /\ Iterator = node[r].num
                       /\ Line # 0

LEMMA Standing == Inv => Stands
<1> SUFFICES ASSUME Inv PROVE Stands
  OBVIOUS
<1>1. Program = IF mode = "clear" THEN << >> ELSE ProgramOf(node, DOMAIN node)
  <2>1. Program = ProgramOf(node, Shown)
    BY DEF Program, ProgramOf
  <2> QED
    BY <2>1, EmptyProgram DEF Shown
<1>2. mode # "run" => Line = 0 /\ Iterator = 0
  BY DEF Inv, Iterators, Line, Iterator
<1>3. ASSUME mode = "run"
      PROVE  /\ line \in DOMAIN node /\ r \in DOMAIN node
             /\ Line = node[line].num /\ Iterator = node[r].num
             /\ Line # 0
  <2>1. line \in DOMAIN node /\ r \in DOMAIN node
    BY <1>3 DEF Inv, Iterators
  <2> QED
    BY <1>3, <2>1, InvNodes DEF Line, Iterator
<1> QED
  BY <1>1, <1>2, <1>3 DEF Stands

LEMMA StandingNext == Inv' => Stands'
BY Standing, PTL

LEMMA InvDistinct == Inv => Distinct(node)
BY DEF Inv, Chain

LEMMA NextDistinct == Inv' => Distinct(node')
<1>1. Inv' => Distinct(node)'
  BY InvDistinct, PTL
<1> QED
  BY <1>1 DEF Distinct

LEMMA ProcessLineAbstract ==
    ASSUME Inv, Inv', NEW num \in Numbers, ProcessLine(num)
    PROVE  Abstract!Edit
<1>1. mode = "prompt" /\ mode' = "prompt"
  BY DEF ProcessLine
<1> PICK P, Q, list, new : P = Program /\ Q = Program' /\ list = node /\ new = node'
  OBVIOUS
<1>2. /\ P = ProgramOf(list, DOMAIN list) /\ Q = ProgramOf(new, DOMAIN new)
      /\ Line = 0 /\ Line' = 0 /\ Iterator = 0 /\ Iterator' = 0
  BY <1>1, Standing, StandingNext DEF Stands
<1>3. Distinct(list) /\ Distinct(new)
  BY InvDistinct, NextDistinct
<1>4. PICK l \in Links :
        /\ WalkEnds(l, num)
        /\ \/ IsAt(l, num) /\ Remove(l)
           \/ IsAt(l, num) /\ \E text \in Texts : Replace(l, text)
           \/ ~IsAt(l, num) /\ \E text \in Texts : Insert(l, num, text)
  BY DEF ProcessLine
<1>5. CASE IsAt(l, num) /\ Remove(l)
  <2>1. Removed(list, new, num)
    BY <1>1, <1>5, RemoveInv DEF ProcessLine
  <2>2. num \in DOMAIN P /\ Q = Erased(P, num)
    <3>1. P = ProgramOf(list, DOMAIN list) /\ Q = ProgramOf(new, DOMAIN new)
      BY <1>2
    <3> QED
      BY ONLY <3>1, <1>3, <2>1, RemoveFromProgram
  <2>3. num \in DOMAIN Program /\ Program' = [m \in DOMAIN Program \ {num} |-> Program[m]]
    BY <2>2 DEF Erased
  <2> QED
    BY <1>2, <2>3 DEF Abstract!Edit
<1>6. ASSUME NEW text \in Texts, Inserted(list, new, num, text) \/ Replaced(list, new, num, text)
      PROVE  Abstract!Edit
  <2>1. Q = Written(P, num, text)
    <3>1. P = ProgramOf(list, DOMAIN list) /\ Q = ProgramOf(new, DOMAIN new)
      BY <1>2
    <3> QED
      BY ONLY <3>1, <1>3, <1>6, EditProgram
  <2>2. Program' = [m \in DOMAIN Program \cup {num} |-> IF m = num THEN text ELSE Program[m]]
    BY <2>1 DEF Written
  <2> QED
    BY <1>2, <2>2 DEF Abstract!Edit
<1>7. ASSUME IsAt(l, num), NEW text \in Texts, Replace(l, text) PROVE Abstract!Edit
  BY <1>1, <1>6, <1>7, ReplaceInv
<1>8. ASSUME ~ IsAt(l, num), NEW text \in Texts, Insert(l, num, text) PROVE Abstract!Edit
  BY <1>1, <1>4, <1>6, <1>8, InsertInv
<1> QED
  BY <1>4, <1>5, <1>7, <1>8

LEMMA RunFromAbstract ==
    ASSUME Inv, Inv', mode # "clear", NEW a \in {NULL} \cup DOMAIN node, RunFrom(a),
           UNCHANGED listVars
    PROVE  /\ Line' = (IF a = NULL THEN 0 ELSE node[a].num) /\ Iterator' = Line'
           /\ UNCHANGED Program
<1>1. node' = node
  BY DEF listVars
<1>2. mode' # "clear"
  BY DEF RunFrom, StopRun
<1>3. UNCHANGED Program
  BY <1>1, <1>2, Standing, StandingNext DEF Stands
<1>4. CASE a = NULL
  <2>1. mode' # "run"
    BY <1>4 DEF RunFrom, StopRun
  <2>2. Line' = 0 /\ Iterator' = 0
    BY <2>1, StandingNext DEF Stands
  <2> QED
    BY <1>3, <1>4, <2>2
<1>5. CASE a # NULL
  <2>1. mode' = "run" /\ line' = a /\ r' = a
    BY <1>5 DEF RunFrom
  <2>2. Line' = node'[line'].num /\ Iterator' = node'[r'].num
    BY <2>1, StandingNext DEF Stands
  <2> QED
    BY <1>1, <1>3, <1>5, <2>1, <2>2
<1> QED
  BY <1>3, <1>4, <1>5

LEMMA GotoAbstract ==
    ASSUME RunInv, Inv', GotoStatement
    PROVE  Abstract!Jump \/ Abstract!Stop
<1>1. mode = "run" /\ Keyword(linePtr, "GOTO") /\ Operand(linePtr, 2) /\ node' = node
  BY DEF GotoStatement, listVars
<1> PICK P, list, text : P = Program /\ list = node /\ text = node[line].text
  OBVIOUS
<1>2. /\ P = ProgramOf(list, DOMAIN list) /\ line \in DOMAIN list
      /\ Line = list[line].num /\ Line # 0
  BY <1>1, Standing DEF RunInv, Stands
<1>3. Distinct(list)
  BY InvDistinct DEF RunInv
<1>4. P[Line] = text /\ DOMAIN P = Numbered(list)
  <2>1. DOMAIN P = Numbered(list) /\ \A a \in DOMAIN list : P[list[a].num] = list[a].text
    BY ONLY <1>2, <1>3, ProgramIs
  <2> QED
    BY <2>1, <1>2
<1>5. text \in Seq(Tokens)
  BY <1>2, TextsOfNodes DEF RunInv
<1>6. PICK k \in Starts(text) : linePtr = Rest(text, k)
  BY <1>1 DEF RunInv, Reading
<1> PICK s, n : s = linePtr /\ n = Value(2)
  OBVIOUS
<1>7. IF Is(s, 2, "num") THEN n \in JumpTargets(text)
      ELSE {0} \cup Numbers \subseteq JumpTargets(text)
  <2>1. IF Is(s, 2, "num") THEN Token(s, 2)[2] \in JumpTargets(text)
        ELSE {0} \cup Numbers \subseteq JumpTargets(text)
    BY <1>1, <1>5, <1>6, TargetIsKnown
  <2>2. Is(s, 2, "num") => n = Token(s, 2)[2]
    BY DEF Value
  <2> QED
    BY <2>1, <2>2
<1>8. \A a \in DOMAIN list : list[a].num \in Numbers /\ list[a].num # 0
  BY TextsOfNodes DEF RunInv
<1>9. CASE \E a \in DOMAIN node : node[a].num = n
  <2>1. r' \in DOMAIN list /\ list[r'].num = n /\ mode' = mode /\ line' = line
    BY <1>9 DEF GotoStatement
  <2>2. Program' = P /\ Line' = Line /\ Iterator' = n
    BY <1>1, <1>2, <2>1, StandingNext DEF Stands
  <2>3. n \in JumpTargets(text) /\ n \in DOMAIN P
    BY <1>4, <1>7, <1>8, <2>1 DEF Numbered
  <2> QED
    BY <1>2, <1>4, <2>2, <2>3 DEF Abstract!Jump
<1>10. CASE ~ \E a \in DOMAIN node : node[a].num = n
  <2>1. StopRun
    BY <1>10 DEF GotoStatement
  <2>2. Program' = P /\ Line' = 0 /\ Iterator' = 0
    BY <1>1, <1>2, <2>1, StandingNext DEF Stands, StopRun
  <2>3. n \notin DOMAIN P /\ 0 \notin DOMAIN P
    BY <1>4, <1>8, <1>10 DEF Numbered
  <2>4. ~ JumpTargets(text) \subseteq DOMAIN P
    BY <1>7, <2>3
  <2> QED
    BY <1>2, <1>4, <2>2, <2>4 DEF Abstract!Stop
<1> QED
  BY <1>9, <1>10

LEMMA RefuseAbstract ==
    ASSUME RunInv, Inv', Refuse
    PROVE  Abstract!Stop
<1>1. mode = "run" /\ Refused(linePtr) /\ StopRun /\ node' = node
  BY DEF Refuse, listVars
<1> PICK P, list, text : P = Program /\ list = node /\ text = node[line].text
  OBVIOUS
<1>2. /\ P = ProgramOf(list, DOMAIN list) /\ line \in DOMAIN list
      /\ Line = list[line].num /\ Line # 0
  BY <1>1, Standing DEF RunInv, Stands
<1>3. Distinct(list)
  BY InvDistinct DEF RunInv
<1>4. P[Line] = text
  <2>1. \A a \in DOMAIN list : P[list[a].num] = list[a].text
    BY ONLY <1>2, <1>3, ProgramIs
  <2> QED
    BY <2>1, <1>2
<1>5. text \in Faulty
  <2>1. text \in Texts
    BY <1>2, TextsOfNodes DEF RunInv
  <2> QED
    BY <1>1, <2>1 DEF RunInv, Reading, Faulty
<1>6. Program' = P /\ Line' = 0 /\ Iterator' = 0
  BY <1>1, <1>2, StandingNext DEF Stands, StopRun
<1> QED
  BY <1>2, <1>4, <1>5, <1>6 DEF Abstract!Stop

LEMMA NextAbstract ==
    RunInv /\ Inv' /\ [Next]_vars => [Abstract!Next]_<<Program, Line, Iterator>>
<1> SUFFICES ASSUME RunInv, Inv', [Next]_vars
             PROVE  Abstract!Next \/ UNCHANGED <<Program, Line, Iterator>>
  OBVIOUS
<1> USE DEF RunInv
<1>1. CASE libcInit \/ BlankLine \/ Exit
  <2>1. mode \notin {"run", "clear"} /\ mode' \notin {"run", "clear"} /\ node' = node
    BY <1>1 DEF libcInit, BlankLine, Exit
  <2> QED
    BY <2>1, Standing, StandingNext DEF Stands
<1>2. ASSUME NEW num \in Numbers, ProcessLine(num) PROVE Abstract!Next
  BY <1>2, ProcessLineAbstract DEF Abstract!Next
<1>3. CASE ClearProgram
  <2>1. mode # "run" /\ mode' = "clear"
    BY <1>3 DEF ClearProgram
  <2>2. Line = 0 /\ Iterator = 0 /\ Program' = << >> /\ Line' = 0 /\ Iterator' = 0
    BY <2>1, Standing, StandingNext DEF Stands
  <2> QED
    BY <2>2 DEF Abstract!Next, Abstract!Edit
<1>4. CASE ClearNode
  <2>1. mode = "clear" /\ mode' = "clear"
    BY <1>4 DEF ClearNode
  <2> QED
    BY <2>1, Standing, StandingNext DEF Stands
<1>5. CASE Cleared
  <2>1. mode = "clear" /\ mode' = "prompt" /\ node' = node /\ ListHead = NULL
    BY <1>5 DEF Cleared, ListHead
  <2>2. DOMAIN node = {}
    BY <2>1 DEF Inv, Chain, Begins
  <2>3. Program = << >> /\ Program' = << >>
    BY <2>1, <2>2, Standing, StandingNext, EmptyProgram DEF Stands
  <2> QED
    BY <2>1, <2>3, Standing, StandingNext DEF Stands
<1>6. CASE RUN
  <2>1. mode = "prompt" /\ RunFrom(programHead) /\ UNCHANGED listVars
        /\ Chain(programHead, node)
    BY <1>6 DEF RUN, Inv, ListHead
  <2>2. programHead \in {NULL} \cup DOMAIN node
    BY <2>1 DEF Chain, Begins
  <2>3. Program = ProgramOf(node, DOMAIN node) /\ Line = 0
    BY <2>1, Standing DEF Stands
  <2>4. Line' = Abstract!Following(0) /\ Iterator' = Abstract!Following(0) /\ UNCHANGED Program
    BY <2>1, <2>2, <2>3, RunFromAbstract, FollowingIs
  <2> QED
    BY <2>3, <2>4 DEF Abstract!Next, Abstract!Run, Abstract!GoOn
<1>7. CASE PrintStatement \/ LetStatement \/ PassOver
  <2>1. mode = "run" /\ mode' = "run" /\ UNCHANGED <<node, line, r>>
    BY <1>7 DEF PrintStatement, LetStatement, PassOver, listVars
  <2> QED
    BY <2>1, Standing, StandingNext DEF Stands
<1>8. CASE GotoStatement
  BY <1>8, GotoAbstract DEF Abstract!Next
<1>9. CASE Refuse
  BY <1>9, RefuseAbstract DEF Abstract!Next
<1>10. CASE EndOfLine
  <2>1. mode = "run" /\ RunFrom(Advanced) /\ UNCHANGED listVars /\ Chain(programHead, node)
    BY <1>10 DEF EndOfLine, Inv, ListHead
  <2>2. /\ Program = ProgramOf(node, DOMAIN node) /\ Line # 0
        /\ r \in DOMAIN node /\ Iterator = node[r].num
    BY <2>1, Standing DEF Stands
  <2>3. Advanced = node[r].next /\ Advanced \in {NULL} \cup DOMAIN node
    BY <2>1, <2>2 DEF Chain, Follows, Advanced
  <2>4. Abstract!Following(Iterator) = IF Advanced = NULL THEN 0 ELSE node[Advanced].num
    BY <2>1, <2>2, <2>3, FollowingIs
  <2>5. Line' = Abstract!Following(Iterator) /\ Iterator' = Line' /\ UNCHANGED Program
    BY <2>1, <2>3, <2>4, RunFromAbstract
  <2> QED
    BY <2>2, <2>5 DEF Abstract!Next, Abstract!Continue, Abstract!GoOn
<1>11. CASE UNCHANGED vars
  <2>1. UNCHANGED <<node, line, r, mode>>
    BY <1>11 DEF vars
  <2> QED
    BY <2>1 DEF Program, Shown, Line, Iterator
<1> QED
  BY <1>1, <1>2, <1>3, <1>4, <1>5, <1>6, <1>7, <1>8, <1>9, <1>10, <1>11 DEF Next, RunLine

\* Editing and running the list of nodes does what the abstract interpreter does
\* with its program: RUN takes the lines in the order of their numbers, GOTO goes
\* on behind the line it names, and only a faulty line or a jump to no line ends
\* a run early (usr/src/basic.c:39-88, 143-256).
THEOREM Refinement == Spec => Implements
<1>1. Init => RunInv /\ Abstract!Init
  <2> SUFFICES ASSUME Init PROVE RunInv /\ Abstract!Init
    OBVIOUS
  <2>1. Inv /\ mode = "start" /\ DOMAIN node = {}
    BY InitInv DEF Init
  <2>2. Program = << >> /\ Line = 0 /\ Iterator = 0
    BY <2>1, Standing, EmptyProgram DEF Stands
  <2> QED
    BY <2>1, <2>2 DEF RunInv, Reading, Abstract!Init
<1>2. RunInv /\ [Next]_vars => RunInv'
  BY NextInv, ReadingInv DEF RunInv
<1>3. RunInv => Inv
  BY DEF RunInv
<1> QED
  BY <1>1, <1>2, <1>3, NextAbstract, PTL DEF Spec, Implements, Abstract!Spec, Abstract!vars
=============================================================================
