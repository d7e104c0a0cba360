--------------------------- MODULE ProcessesProofs ---------------------------
(***************************************************************************)
(* For every machine, any number of nested processes and whatever they     *)
(* load and map: frames have one use, the CPU is set up for the process    *)
(* that runs, breaks are mapped, and neither frames nor heap objects are   *)
(* lost.                                                                   *)
(***************************************************************************)
EXTENDS Processes, FiniteSetTheorems, SequenceTheorems, TLAPS

-----------------------------------------------------------------------------
(* The invariant, part by part.                                            *)

\* Above every address a process has.
Room == UserPages * PageUnits
Job == [dir : ManagedFrames \cup {KernelDir}, record : Records \cup {Nobody},
        segments : Seq(Headers), page : Nat, end : Nat, brk : Nat, argc : Nat]
Process == [dir : ManagedFrames, parent : Records \cup {Nobody}, base : Nat, brk : Nat,
            env : SUBSET machine.keys]

Loads == {"segment", "short", "map", "stack", "args", "execute"}
Places == Loads \cup {"boot", "user", "sbrk", "returned", "prompt", "wrecked"}

TypeOK ==
    /\ machine \in Machines
    /\ pc \in Places
    /\ job \in Job
    /\ DOMAIN procs \subseteq Records
    /\ \A p \in Live : procs[p] \in Process
    /\ current \in Live \cup {Nobody}

\* Every frame in use has one kind, and every page table one directory.
KindsApart ==
    /\ used \subseteq ManagedFrames
    /\ kernel \subseteq used
    /\ DOMAIN dirs \subseteq used \ kernel
    /\ DOMAIN tables \subseteq used \ kernel
    /\ DOMAIN dirs \cap DOMAIN tables = {}

TablesPlaced ==
    /\ \A d \in DOMAIN dirs : \A i \in DOMAIN dirs[d] : dirs[d][i] \in DOMAIN tables
    /\ \A t \in DOMAIN tables : \E d \in DOMAIN dirs : \E i \in DOMAIN dirs[d] : dirs[d][i] = t
    /\ \A d, e \in DOMAIN dirs : \A i \in DOMAIN dirs[d], j \in DOMAIN dirs[e] :
           dirs[d][i] = dirs[e][j] => d = e /\ i = j

PageFrames == used \ (kernel \cup DOMAIN dirs \cup DOMAIN tables)

PagesPlaced ==
    /\ \A t \in DOMAIN tables : \A s \in DOMAIN tables[t] :
           tables[t][s].frame \in PageFrames \cup {NoFrame}
    /\ \A t, u \in DOMAIN tables : \A i \in DOMAIN tables[t], j \in DOMAIN tables[u] :
           tables[t][i].frame = tables[u][j].frame /\ tables[t][i].frame # NoFrame
           => t = u /\ i = j

MemoryOK == KindsApart /\ TablesPlaced /\ PagesPlaced

\* The live processes in the order of their calls.
CallOrder(n, order) ==
    /\ order \in [1 .. n -> Live]
    /\ \A p \in Live : \E i \in 1 .. n : order[i] = p
    /\ \A i, j \in 1 .. n : order[i] = order[j] => i = j
    /\ \A i \in 1 .. n : procs[order[i]].parent = IF i = 1 THEN Nobody ELSE order[i - 1]
    /\ current = IF n = 0 THEN Nobody ELSE order[n]

CallChain == \E n \in Nat : \E order \in [1 .. n -> Live] : CallOrder(n, order)

\* What every process has, whatever the kernel is doing.
Standing ==
    /\ \A p \in Live : /\ procs[p].dir \in DOMAIN dirs
                       /\ StackBase .. StackTop - 1 \subseteq Mapped(procs[p].dir)
                       /\ <<"kstack", p>> \in heap /\ <<"proc", p>> \in heap
                       /\ \E b \in Nat : procs[p].base = b * PageUnits
                       /\ procs[p].base <= Room
    /\ \A p, q \in Live : procs[p].dir = procs[q].dir => p = q
    /\ CallChain
    /\ current = Nobody => cr3 = KernelDir
    /\ current # Nobody => cr3 = procs[current].dir /\ tss = current

\* What a load in progress has.
LoadOK ==
    /\ job.dir \in DOMAIN dirs /\ \A p \in Live : procs[p].dir # job.dir
    /\ window = job.dir
    /\ job.brk <= Room
    /\ pc \in {"stack", "args", "execute"} => \E b \in Nat : job.brk = b * PageUnits
    /\ pc \in {"map", "short"} => job.segments # << >> /\ Head(job.segments).size # 0
    /\ pc = "stack" => /\ job.page \in StackBase .. StackTop /\ job.end = StackTop
                       /\ StackBase .. job.page - 1 \subseteq Mapped(job.dir)
    /\ pc \in {"args", "execute"} =>
           /\ StackBase .. StackTop - 1 \subseteq Mapped(job.dir)
           /\ job.record \in Records \ Live /\ <<"proc", job.record>> \in heap

\* What SysSbrk has.
SbrkOK ==
    /\ job.dir = procs[current].dir
    /\ BreakAllowed(job.brk)
    /\ job.end = PageAbove(job.brk)
    /\ job.page >= PageAbove(procs[current].brk)
    /\ PageAbove(procs[current].brk) .. job.page - 1 \subseteq Mapped(job.dir)

JobOK ==
    /\ pc \in {"boot", "prompt"} => current = Nobody
    /\ pc \in {"user", "sbrk"} => current # Nobody
    /\ pc \in {"boot", "user", "prompt"} => job = NoJob
    /\ pc = "returned" => job.dir = KernelDir
    /\ pc \in Loads => LoadOK
    /\ pc = "sbrk" => SbrkOK

Inv == TypeOK /\ MemoryOK /\ Standing /\ JobOK /\ WindowApart /\ BreakMapped /\ HeapExact

-----------------------------------------------------------------------------
(* Addresses, pages and entries.                                           *)

LEMMA Sizes ==
    /\ MemoryStart \in Nat \ {0}
    /\ PageUnits \in Nat \ {0} /\ TableSize \in Nat \ {0} /\ DirSize \in Nat
    /\ StackBase \in Nat \ {0} /\ StackTop \in Nat
    /\ StackBase <= StackTop /\ StackTop <= UserPages
    /\ UserPages \in Nat /\ Pages \in Nat /\ UserPages < Pages
    /\ Room \in Nat /\ StackBase * PageUnits <= Room
    /\ AddressSize \in Nat \ {0} /\ Room + PageUnits <= AddressSize
<1>1. /\ PageUnits \in Nat \ {0} /\ TableSize \in Nat \ {0} /\ DirSize \in Nat
      /\ StackBase \in Nat \ {0} /\ StackTop \in StackBase .. UserPages
      /\ Pages \in Nat /\ UserPages < Pages /\ MemoryStart \in Nat \ {0}
  BY ProcessesAssumption
<1>2. UserPages \in Nat /\ StackTop \in Nat /\ StackBase <= StackTop /\ StackTop <= UserPages
  BY <1>1 DEF UserPages
<1>3. Room \in Nat /\ StackBase * PageUnits <= Room
  BY <1>1, <1>2, SMT DEF Room
<1>4. (UserPages + 1) * PageUnits <= Pages * PageUnits
  BY <1>1, <1>2, SMT
<1>5. AddressSize \in Nat \ {0} /\ Room + PageUnits <= AddressSize
  BY <1>1, <1>2, <1>4, SMT DEF Room, AddressSize
<1> QED
  BY <1>1, <1>2, <1>3, <1>5

LEMMA Division ==
    ASSUME NEW a \in Int, NEW n \in Nat \ {0}
    PROVE  /\ a \div n \in Int /\ (a % n) \in 0 .. n - 1
           /\ a = n * (a \div n) + (a % n)
           /\ (a \div n) * n <= a
  BY SMT

\* A quotient is known by its bounds.
LEMMA Quotient ==
    ASSUME NEW a \in Int, NEW n \in Nat \ {0}, NEW q \in Int
    PROVE  /\ q * n <= a => q <= a \div n
           /\ a < (q + 1) * n => a \div n <= q
  BY Division, SMT

LEMMA WordType ==
    ASSUME NEW a \in Int
    PROVE  Word(a) \in Nat /\ Word(a) < AddressSize
  BY Sizes, Division DEF Word

LEMMA WordSmall ==
    ASSUME NEW a \in Nat, a < AddressSize
    PROVE  Word(a) = a
<1>1. PICK n, q : n = AddressSize /\ q = a \div n
  OBVIOUS
<1>2. n \in Nat \ {0} /\ a < n
  BY <1>1, Sizes
<1>3. q \in Int /\ a = n * q + (a % n)
  BY <1>1, <1>2, Division
<1>4. q = 0
  <2>1. 0 <= q /\ q <= 0
    <3>1. 0 * n <= a /\ a < (0 + 1) * n
      BY <1>2
    <3> QED
      BY <1>1, <1>2, <3>1, Quotient
  <2> QED
    BY <1>3, <2>1
<1>5. n * q = 0 /\ a % n \in Int
  BY <1>2, <1>4, Division
<1> QED
  BY <1>1, <1>3, <1>5 DEF Word

LEMMA PageType ==
    ASSUME NEW a \in Nat
    PROVE  PageAbove(a) \in Nat /\ a \div PageUnits \in Nat
<1>1. Word(a + PageUnits - 1) \in Nat
  BY Sizes, WordType
<1>2. ASSUME NEW n \in Nat PROVE n \div PageUnits \in Nat
  BY Sizes, Quotient, Division, SMT
<1> QED
  BY <1>1, <1>2 DEF PageAbove

\* Nothing wraps in the part of the address space a process has.
LEMMA PageExact ==
    ASSUME NEW x \in Nat, x <= Room
    PROVE  PageAbove(x) = (x + PageUnits - 1) \div PageUnits
<1>1. x + PageUnits - 1 \in Nat /\ x + PageUnits - 1 < AddressSize
  BY Sizes
<1> QED
  BY <1>1, WordSmall DEF PageAbove

LEMMA PageBelow ==
    ASSUME NEW a \in Nat, NEW x \in Nat, a < x, x <= Room
    PROVE  a \div PageUnits < PageAbove(x)
<1>1. PICK m, b : m = a \div PageUnits /\ b = x + PageUnits - 1
  OBVIOUS
<1>2. m * PageUnits <= a /\ m \in Int /\ b \in Int
  BY <1>1, Sizes, Division
<1>3. (m + 1) * PageUnits <= b
  <2>1. (m + 1) * PageUnits = m * PageUnits + PageUnits
    BY <1>2, Sizes
  <2> QED
    BY <1>1, <1>2, <2>1, Sizes
<1>4. m + 1 <= b \div PageUnits /\ b \div PageUnits \in Int
  <2>1. PICK k : k = m + 1
    OBVIOUS
  <2>2. k \in Int /\ k * PageUnits <= b
    BY <1>2, <1>3, <2>1
  <2>3. k <= b \div PageUnits
    BY <1>2, <2>2, Sizes, Quotient
  <2>4. b \div PageUnits \in Int
    BY <1>2, Sizes, Division
  <2> QED
    BY <2>1, <2>3, <2>4
<1> QED
  BY <1>1, <1>2, <1>4, PageExact

LEMMA PageOrder ==
    ASSUME NEW a \in Nat, NEW x \in Nat, a <= x, x <= Room
    PROVE  a \div PageUnits <= PageAbove(x)
<1>1. (a \div PageUnits) * PageUnits <= a /\ a \div PageUnits \in Int
  BY Sizes, Division
<1>2. (a \div PageUnits) * PageUnits <= x + PageUnits - 1
  BY <1>1, Sizes
<1>3. a \div PageUnits <= (x + PageUnits - 1) \div PageUnits
  BY <1>1, <1>2, Sizes, Quotient
<1> QED
  BY <1>3, PageExact

\* Up to the first address of page k there are k pages.
LEMMA PageBound ==
    ASSUME NEW x \in Nat, NEW k \in Nat, x <= k * PageUnits, x <= Room
    PROVE  PageAbove(x) <= k
<1>1. PICK b : b = x + PageUnits - 1
  OBVIOUS
<1>2. b \in Int /\ b < (k + 1) * PageUnits
  <2>1. (k + 1) * PageUnits = k * PageUnits + PageUnits
    BY Sizes
  <2> QED
    BY <1>1, <2>1, Sizes
<1>3. b \div PageUnits <= k
  BY <1>2, Sizes, Quotient
<1> QED
  BY <1>1, <1>3, PageExact

LEMMA PageReached ==
    ASSUME NEW x \in Nat, NEW page \in Nat, page < PageAbove(x), x <= Room
    PROVE  page * PageUnits < x
<1>1. PICK b, k : b = x + PageUnits - 1 /\ k = b \div PageUnits
  OBVIOUS
<1>2. b \in Int /\ k \in Int /\ k * PageUnits <= b /\ page + 1 <= k
  <2>1. b \in Int /\ k = PageAbove(x)
    BY <1>1, Sizes, PageExact
  <2>2. k \in Int /\ k * PageUnits <= b
    BY <1>1, <2>1, Sizes, Division
  <2> QED
    BY <2>1, <2>2
<1>3. (page + 1) * PageUnits <= k * PageUnits
  BY <1>2, Sizes, SMT
<1>4. (page + 1) * PageUnits = page * PageUnits + PageUnits
  BY Sizes
<1> QED
  BY <1>1, <1>2, <1>3, <1>4, Sizes

\* A page is the slot it has in its entry.
LEMMA PageOf ==
    ASSUME NEW p \in Nat, NEW q \in Nat, EntryOf(p) = EntryOf(q), SlotOf(p) = SlotOf(q)
    PROVE  p = q
<1>1. p = TableSize * (p \div TableSize) + (p % TableSize)
  BY Sizes, Division
<1>2. q = TableSize * (q \div TableSize) + (q % TableSize)
  BY Sizes, Division
<1> QED
  BY ONLY <1>1, <1>2, EntryOf(p) = EntryOf(q), SlotOf(p) = SlotOf(q) DEF EntryOf, SlotOf

LEMMA HeaderType ==
    ASSUME NEW s \in Headers
    PROVE  /\ s.at \in Nat /\ s.size \in Nat /\ s.file \in Nat
           /\ s.at \div PageUnits \in Nat /\ PageAbove(s.at + s.size) \in Nat
<1>1. s.at \in Nat /\ s.size \in Nat /\ s.file \in Nat
  BY Sizes DEF Headers, Addresses
<1> QED
  BY <1>1, PageType

-----------------------------------------------------------------------------
(* Frames.                                                                 *)

LEMMA ManagedIsMemory == TypeOK => ManagedFrames \subseteq Nat \ {0}
<1> SUFFICES ASSUME TypeOK PROVE ManagedFrames \subseteq Nat \ {0}
  OBVIOUS
<1>1. FirstByte(MemoryStart) \in Nat /\ FirstByte(MemoryStart) * 8 >= MemoryStart
  BY Sizes DEF FirstByte
<1>2. machine.memoryEnd \in Nat
  BY ProcessesAssumption DEF TypeOK, MachineType
<1>3. EndByte(machine.memoryEnd) \in Int
  BY <1>2 DEF EndByte
<1> QED
  BY <1>1, <1>3, Sizes DEF Managed, ManagedFrames

\* The scan finds a frame without a mark, or none.
LEMMA Found ==
    ASSUME NEW u, NEW f, TypeOK, NextFrame(ManagedFrames, u, f)
    PROVE  f = NoFrame \/ (f \in ManagedFrames \ u /\ f # NoFrame)
  BY ManagedIsMemory DEF NextFrame, NoFrame

\* What a call of kmalloc changes in memory.
LEMMA Growth ==
    ASSUME NEW next, TypeOK, MemoryOK, HeapGrowth(next)
    PROVE  /\ used \subseteq used' /\ kernel \subseteq kernel' /\ used' = used \cup kernel'
           /\ used' \subseteq ManagedFrames /\ kernel' \cap used = kernel
           /\ pc' = next \/ pc' = "wrecked"
<1>1. PICK n \in 0 .. machine.growth, taken \in SUBSET (ManagedFrames \ used) :
          /\ used' = used \cup taken /\ kernel' = kernel \cup taken
          /\ pc' = next \/ pc' = "wrecked"
  BY DEF HeapGrowth, Wreck
<1> QED
  BY <1>1 DEF MemoryOK, KindsApart

\* Frames that become the kernel's disturb nothing.
LEMMA KernelGains ==
    ASSUME TypeOK, MemoryOK, UNCHANGED <<machine, dirs, tables>>,
           used \subseteq used', kernel \subseteq kernel', used' = used \cup kernel',
           used' \subseteq ManagedFrames, kernel' \cap used = kernel
    PROVE  MemoryOK'
<1>1. ManagedFrames' = ManagedFrames
  BY DEF ManagedFrames
<1>2. KindsApart'
  BY <1>1 DEF MemoryOK, KindsApart
<1>3. TablesPlaced'
  BY DEF MemoryOK, TablesPlaced
<1>4. PageFrames \subseteq PageFrames'
  BY DEF MemoryOK, KindsApart, PageFrames
<1>5. PagesPlaced'
  BY <1>4 DEF MemoryOK, PagesPlaced
<1> QED
  BY <1>2, <1>3, <1>5 DEF MemoryOK

\* What the beginning of a load changes in memory.
LEMMA Loaded ==
    ASSUME NEW image, TypeOK, MemoryOK, ELFLoad(image)
    PROVE  /\ used \subseteq used' /\ kernel \subseteq kernel' /\ kernel' \subseteq used'
           /\ used' \subseteq ManagedFrames /\ kernel' \cap used = kernel
           /\ window' \notin used
           /\ \/ pc' = "wrecked" /\ UNCHANGED <<dirs, job>>
              \/ /\ pc' = "segment"
                 /\ \E d \in ManagedFrames :
                        /\ window' = d
                        /\ d \notin used /\ d \in used' \ kernel'
                        /\ used' = used \cup {d} \cup kernel'
                        /\ dirs' = With(dirs, d, << >>)
                        /\ job' = [NoJob EXCEPT !.dir = d, !.segments = image]
<1>1. PICK d \in Answers : \E t \in Answers :
          /\ NextFrame(ManagedFrames, used, d)
          /\ IF window = NoFrame THEN NextFrame(ManagedFrames, Marked(used, d), t) ELSE t = d
          /\ used' = Marked(Marked(used, d), t) /\ window' = d
          /\ kernel' = IF window = NoFrame THEN Marked(kernel, t) ELSE kernel
          /\ IF NoFrame \in {d, t}
             THEN pc' = "wrecked" /\ UNCHANGED <<dirs, job>>
             ELSE /\ pc' = "segment"
                  /\ dirs' = With(dirs, d, << >>)
                  /\ job' = [NoJob EXCEPT !.dir = d, !.segments = image]
  BY DEF ELFLoad, Wreck
<1>2. PICK t \in Answers :
          /\ NextFrame(ManagedFrames, used, d)
          /\ IF window = NoFrame THEN NextFrame(ManagedFrames, Marked(used, d), t) ELSE t = d
          /\ used' = Marked(Marked(used, d), t) /\ window' = d
          /\ kernel' = IF window = NoFrame THEN Marked(kernel, t) ELSE kernel
          /\ IF NoFrame \in {d, t}
             THEN pc' = "wrecked" /\ UNCHANGED <<dirs, job>>
             ELSE /\ pc' = "segment"
                  /\ dirs' = With(dirs, d, << >>)
                  /\ job' = [NoJob EXCEPT !.dir = d, !.segments = image]
  BY <1>1
<1>3. d = NoFrame \/ (d \in ManagedFrames \ used /\ d # NoFrame)
  BY <1>2, Found
<1>4. \/ window # NoFrame /\ t = d
      \/ window = NoFrame /\ (t = NoFrame \/ (t \in ManagedFrames \ Marked(used, d) /\ t # NoFrame))
  BY <1>2, Found
<1>5. /\ used \subseteq used' /\ kernel \subseteq kernel' /\ kernel' \subseteq used'
      /\ used' \subseteq ManagedFrames /\ kernel' \cap used = kernel
  BY <1>2, <1>3, <1>4 DEF MemoryOK, KindsApart, Marked
<1>6. window' \notin used
  BY <1>2, <1>3, ManagedIsMemory DEF MemoryOK, KindsApart, NoFrame
<1>7. NoFrame \notin {d, t} =>
          /\ d \notin used /\ d \in used' \ kernel'
          /\ used' = used \cup {d} \cup kernel'
  BY <1>2, <1>3, <1>4 DEF MemoryOK, KindsApart, Marked
<1> QED
  BY <1>2, <1>3, <1>5, <1>6, <1>7

LEMMA LoadMemory ==
    ASSUME NEW image, TypeOK, MemoryOK, UNCHANGED machine, ELFLoad(image)
    PROVE  MemoryOK'
<1>1. ManagedFrames' = ManagedFrames /\ tables' = tables
  BY DEF ManagedFrames, ELFLoad
<1>2. /\ used \subseteq used' /\ kernel \subseteq kernel' /\ kernel' \subseteq used'
      /\ used' \subseteq ManagedFrames /\ kernel' \cap used = kernel
  BY Loaded
<1>3. \/ dirs' = dirs
      \/ \E d : /\ d \in used' \ (used \cup kernel')
                /\ DOMAIN dirs' = DOMAIN dirs \cup {d}
                /\ DOMAIN dirs'[d] = {}
                /\ \A e \in DOMAIN dirs : dirs'[e] = dirs[e]
  <2>1. ASSUME NEW d, d \notin used, d \in used' \ kernel', dirs' = With(dirs, d, << >>)
        PROVE  /\ d \in used' \ (used \cup kernel')
               /\ DOMAIN dirs' = DOMAIN dirs \cup {d}
               /\ DOMAIN dirs'[d] = {}
               /\ \A e \in DOMAIN dirs : dirs'[e] = dirs[e]
    BY <2>1 DEF MemoryOK, KindsApart, With
  <2> QED
    BY <2>1, Loaded
<1>4. CASE dirs' = dirs
  BY <1>1, <1>2, <1>4 DEF MemoryOK, KindsApart, TablesPlaced, PagesPlaced, PageFrames
<1>5. ASSUME NEW d, d \in used' \ (used \cup kernel'),
             DOMAIN dirs' = DOMAIN dirs \cup {d}, DOMAIN dirs'[d] = {},
             \A e \in DOMAIN dirs : dirs'[e] = dirs[e]
      PROVE  MemoryOK'
  <2>1. KindsApart'
    BY <1>1, <1>2, <1>5 DEF MemoryOK, KindsApart
  <2>2. TablesPlaced'
    BY <1>1, <1>5 DEF MemoryOK, TablesPlaced
  <2>3. PageFrames \subseteq PageFrames'
    BY <1>1, <1>2, <1>5 DEF PageFrames, MemoryOK, KindsApart
  <2>4. PagesPlaced'
    BY <1>1, <2>3 DEF MemoryOK, PagesPlaced
  <2> QED
    BY <2>1, <2>2, <2>4 DEF MemoryOK
<1> QED
  BY <1>3, <1>4, <1>5

LEMMA ExitMemory ==
    ASSUME NEW dir \in DOMAIN dirs, TypeOK, MemoryOK, UNCHANGED <<machine, kernel>>,
           used' = used \ Released(dir), dirs' = Without(dirs, {dir}),
           tables' = Without(tables, TablesOf(dir))
    PROVE  MemoryOK'
<1>1. ManagedFrames' = ManagedFrames
  BY DEF ManagedFrames
<1>2. PICK T : T = TablesOf(dir)
  OBVIOUS
<1>3. T = {dirs[dir][e] : e \in DOMAIN dirs[dir]}
  BY <1>2 DEF TablesOf
<1>4. T \subseteq DOMAIN tables /\ \A d \in DOMAIN dirs : \A i \in DOMAIN dirs[d] : dirs[d][i] \in T => d = dir
  BY <1>3 DEF MemoryOK, TablesPlaced
<1>5. PICK R : R = Released(dir)
  OBVIOUS
<1>6. /\ dir \in R /\ T \subseteq R
      /\ \A x \in R : \/ x = dir \/ x \in T
                      \/ \E t \in T : \E s \in DOMAIN tables[t] : x = tables[t][s].frame
  BY <1>2, <1>5 DEF Released, OwnedBy, Leaves
<1>7. NoFrame \notin used
  BY ManagedIsMemory DEF NoFrame, MemoryOK, KindsApart
<1>8. R \cap kernel = {} /\ R \cap (DOMAIN dirs \ {dir}) = {} /\ R \cap (DOMAIN tables \ T) = {}
  BY <1>4, <1>6, <1>7 DEF MemoryOK, KindsApart, PagesPlaced, PageFrames
<1>9. /\ DOMAIN dirs' = DOMAIN dirs \ {dir} /\ \A d \in DOMAIN dirs' : dirs'[d] = dirs[d]
      /\ DOMAIN tables' = DOMAIN tables \ T /\ \A t \in DOMAIN tables' : tables'[t] = tables[t]
  BY <1>2 DEF Without
<1>10. used' = used \ R
  BY <1>5
<1>11. KindsApart'
  BY <1>1, <1>4, <1>6, <1>8, <1>9, <1>10 DEF MemoryOK, KindsApart
<1>12. TablesPlaced'
  <2>1. \A e \in DOMAIN dirs' : \A i \in DOMAIN dirs'[e] :
            e \in DOMAIN dirs /\ e # dir /\ i \in DOMAIN dirs[e] /\ dirs'[e][i] = dirs[e][i]
    BY ONLY <1>9
  <2>2. \A e \in DOMAIN dirs' : \A i \in DOMAIN dirs'[e] : dirs'[e][i] \in DOMAIN tables'
    BY <1>4, <1>9, <2>1 DEF MemoryOK, TablesPlaced
  <2>3. ASSUME NEW u \in DOMAIN tables'
        PROVE  \E e \in DOMAIN dirs' : \E i \in DOMAIN dirs'[e] : dirs'[e][i] = u
    <3>1. u \in DOMAIN tables /\ u \notin T
      BY <1>9
    <3>2. PICK e \in DOMAIN dirs : \E i \in DOMAIN dirs[e] : dirs[e][i] = u
      BY <3>1 DEF MemoryOK, TablesPlaced
    <3>3. PICK i \in DOMAIN dirs[e] : dirs[e][i] = u
      BY <3>2
    <3>4. e # dir
      BY <1>3, <3>1, <3>3
    <3> QED
      BY <1>9, <3>3, <3>4
  <2>4. ASSUME NEW e \in DOMAIN dirs', NEW g \in DOMAIN dirs',
               NEW i \in DOMAIN dirs'[e], NEW j \in DOMAIN dirs'[g], dirs'[e][i] = dirs'[g][j]
        PROVE  e = g /\ i = j
    <3>1. /\ e \in DOMAIN dirs /\ i \in DOMAIN dirs[e] /\ dirs'[e][i] = dirs[e][i]
          /\ g \in DOMAIN dirs /\ j \in DOMAIN dirs[g] /\ dirs'[g][j] = dirs[g][j]
      BY <2>1
    <3>2. dirs[e][i] = dirs[g][j]
      BY <2>4, <3>1
    <3>3. \A a, b \in DOMAIN dirs : \A k \in DOMAIN dirs[a], l \in DOMAIN dirs[b] :
              dirs[a][k] = dirs[b][l] => a = b /\ k = l
      BY DEF MemoryOK, TablesPlaced
    <3> QED
      BY ONLY <3>1, <3>2, <3>3
  <2> QED
    BY ONLY <2>2, <2>3, <2>4 DEF TablesPlaced
<1>13. ASSUME NEW t \in DOMAIN tables', NEW s \in DOMAIN tables[t]
       PROVE  tables[t][s].frame \in PageFrames' \cup {NoFrame}
  <2>1. t \in DOMAIN tables /\ t \notin T
    BY <1>9
  <2>2. CASE tables[t][s].frame # NoFrame
    <3>1. tables[t][s].frame \in PageFrames
      BY <2>1, <2>2 DEF MemoryOK, PagesPlaced
    <3>2. tables[t][s].frame \notin R
      BY <1>4, <1>6, <2>1, <2>2, <3>1 DEF MemoryOK, PagesPlaced, PageFrames
    <3> QED
      BY <1>9, <1>10, <3>1, <3>2 DEF PageFrames
  <2> QED
    BY <2>2
<1>14. PagesPlaced'
  BY <1>9, <1>13 DEF MemoryOK, PagesPlaced
<1> QED
  BY <1>11, <1>12, <1>14 DEF MemoryOK

\* What mapping a page changes: directory d has table t under entry, t has
\* leaf in slot.
Gains(d, entry, slot, t, leaf) ==
    /\ d \in DOMAIN dirs
    /\ DOMAIN dirs' = DOMAIN dirs
    /\ \A e \in DOMAIN dirs : e # d => dirs'[e] = dirs[e]
    /\ DOMAIN dirs'[d] = DOMAIN dirs[d] \cup {entry}
    /\ dirs'[d][entry] = t
    /\ \A i \in DOMAIN dirs[d] : dirs'[d][i] = dirs[d][i]
    /\ DOMAIN tables' = DOMAIN tables \cup {t}
    /\ \A u \in DOMAIN tables : u # t => tables'[u] = tables[u]
    /\ slot \in DOMAIN tables'[t] /\ tables'[t][slot] = leaf
    /\ entry \in DOMAIN dirs[d] =>
           /\ t \in DOMAIN tables
           /\ DOMAIN tables'[t] = DOMAIN tables[t] \cup {slot}
           /\ \A s \in DOMAIN tables[t] : s # slot => tables'[t][s] = tables[t][s]
    /\ entry \notin DOMAIN dirs[d] => t \notin used /\ DOMAIN tables'[t] = {slot}
    /\ t \in ManagedFrames
    /\ leaf.frame = NoFrame \/ (leaf.frame \in ManagedFrames \ used /\ leaf.frame # t)
    /\ used' = used \cup ({leaf.frame} \ {NoFrame}) \cup {t}

LEMMA MapGains ==
    ASSUME NEW d \in DOMAIN dirs, NEW entry, NEW slot, NEW f, NEW t, NEW own,
           TypeOK, MemoryOK,
           NextFrame(ManagedFrames, used, f),
           IF entry \in DOMAIN dirs[d] THEN t = dirs[d][entry]
                                       ELSE NextFrame(ManagedFrames, Marked(used, f), t),
           used' = Marked(Marked(used, f), t),
           t # NoFrame,
           dirs' = [dirs EXCEPT ![d] = With(@, entry, t)],
           tables' = With(tables, t, With(IF entry \in DOMAIN dirs[d] THEN tables[t] ELSE << >>,
                                          slot, [frame |-> f, owner |-> own]))
    PROVE  Gains(d, entry, slot, t, [frame |-> f, owner |-> own])
<1>1. f = NoFrame \/ (f \in ManagedFrames \ used /\ f # NoFrame)
  BY Found
<1>2. entry \notin DOMAIN dirs[d] => t \in ManagedFrames \ Marked(used, f)
  BY Found
<1>3. entry \in DOMAIN dirs[d] => t = dirs[d][entry] /\ t \in DOMAIN tables
  BY DEF MemoryOK, TablesPlaced
<1>4. DOMAIN tables \subseteq used /\ used \subseteq ManagedFrames
  BY DEF MemoryOK, KindsApart
<1>5. /\ DOMAIN dirs' = DOMAIN dirs
      /\ \A e \in DOMAIN dirs : e # d => dirs'[e] = dirs[e]
      /\ dirs'[d] = With(dirs[d], entry, t)
  OBVIOUS
<1>6. /\ DOMAIN dirs'[d] = DOMAIN dirs[d] \cup {entry}
      /\ dirs'[d][entry] = t
      /\ \A i \in DOMAIN dirs[d] : dirs'[d][i] = dirs[d][i]
  BY <1>3, <1>5 DEF With
<1>7. PICK old : old = IF entry \in DOMAIN dirs[d] THEN tables[t] ELSE << >>
  OBVIOUS
<1>8. PICK leaf : leaf = [frame |-> f, owner |-> own]
  OBVIOUS
<1>9. tables' = With(tables, t, With(old, slot, leaf))
  BY <1>7, <1>8
<1>10. /\ DOMAIN tables' = DOMAIN tables \cup {t}
       /\ \A u \in DOMAIN tables : u # t => tables'[u] = tables[u]
       /\ tables'[t] = With(old, slot, leaf)
  BY ONLY <1>9 DEF With
<1>11. /\ DOMAIN tables'[t] = DOMAIN old \cup {slot}
       /\ tables'[t][slot] = leaf
       /\ \A s \in DOMAIN old : s # slot => tables'[t][s] = old[s]
  BY ONLY <1>10 DEF With
<1>12. entry \in DOMAIN dirs[d] =>
           /\ t \in DOMAIN tables
           /\ DOMAIN tables'[t] = DOMAIN tables[t] \cup {slot}
           /\ \A s \in DOMAIN tables[t] : s # slot => tables'[t][s] = tables[t][s]
  BY ONLY <1>3, <1>7, <1>11
<1>13. entry \notin DOMAIN dirs[d] => t \notin used /\ DOMAIN tables'[t] = {slot}
  <2>1. entry \notin DOMAIN dirs[d] => DOMAIN old = {}
    BY ONLY <1>7
  <2> QED
    BY ONLY <1>2, <1>11, <2>1 DEF Marked
<1>14. t \in ManagedFrames
  BY <1>2, <1>3, <1>4
<1>15. f = NoFrame \/ (f \in ManagedFrames \ used /\ f # t)
  BY <1>1, <1>2, <1>3, <1>4 DEF Marked
<1>16. used' = used \cup ({f} \ {NoFrame}) \cup {t}
  BY DEF Marked
<1>17. leaf.frame = f
  BY <1>8
<1>18. Gains(d, entry, slot, t, leaf)
  BY ONLY d \in DOMAIN dirs, <1>5, <1>6, <1>10, <1>11, <1>12, <1>13, <1>14, <1>15, <1>16, <1>17 DEF Gains
<1> QED
  BY <1>8, <1>18

LEMMA MapMemory ==
    ASSUME NEW d, NEW entry, NEW slot, NEW t, NEW leaf,
           TypeOK, MemoryOK, UNCHANGED <<machine, kernel>>, Gains(d, entry, slot, t, leaf)
    PROVE  MemoryOK'
<1>1. ManagedFrames' = ManagedFrames
  BY DEF ManagedFrames
<1>2. PICK f : f = leaf.frame
  OBVIOUS
<1>3. NoFrame \notin used
  BY ManagedIsMemory DEF NoFrame, MemoryOK, KindsApart
<1>4. f = NoFrame \/ (f \in ManagedFrames \ used /\ f # t)
  BY <1>2 DEF Gains
<1>5. used' = used \cup ({f} \ {NoFrame}) \cup {t}
  BY <1>2 DEF Gains
<1>6. t \in ManagedFrames /\ (t \in DOMAIN tables \/ t \notin used)
  BY DEF Gains
<1>7. DOMAIN dirs' = DOMAIN dirs /\ DOMAIN tables' = DOMAIN tables \cup {t}
  BY DEF Gains
<1>8. KindsApart'
  BY <1>1, <1>4, <1>5, <1>6, <1>7 DEF MemoryOK, KindsApart
<1>9. \A e \in DOMAIN dirs : \A i \in DOMAIN dirs'[e] :
          (i \in DOMAIN dirs[e] /\ dirs'[e][i] = dirs[e][i])
          \/ (e = d /\ i = entry /\ dirs'[e][i] = t /\ t \notin used)
  BY DEF Gains
<1>10. \A e \in DOMAIN dirs : \A i \in DOMAIN dirs[e] :
          i \in DOMAIN dirs'[e] /\ dirs'[e][i] = dirs[e][i]
  BY DEF Gains
<1>11. d \in DOMAIN dirs' /\ entry \in DOMAIN dirs'[d] /\ dirs'[d][entry] = t
  BY DEF Gains
<1>12. DOMAIN tables \subseteq used
  BY DEF MemoryOK, KindsApart
<1>13. TablesPlaced'
  <2>1. \A e \in DOMAIN dirs' : \A i \in DOMAIN dirs'[e] : dirs'[e][i] \in DOMAIN tables'
    BY <1>7, <1>9 DEF MemoryOK, TablesPlaced
  <2>2. \A u \in DOMAIN tables' : \E e \in DOMAIN dirs' : \E i \in DOMAIN dirs'[e] : dirs'[e][i] = u
    BY <1>7, <1>10, <1>11 DEF MemoryOK, TablesPlaced
  <2>3. \A e, g \in DOMAIN dirs' : \A i \in DOMAIN dirs'[e], j \in DOMAIN dirs'[g] :
            dirs'[e][i] = dirs'[g][j] => e = g /\ i = j
    BY <1>7, <1>9, <1>12 DEF MemoryOK, TablesPlaced
  <2> QED
    BY <2>1, <2>2, <2>3 DEF TablesPlaced
<1>14. \A u \in DOMAIN tables' : \A s \in DOMAIN tables'[u] :
          \/ u \in DOMAIN tables /\ s \in DOMAIN tables[u] /\ tables'[u][s] = tables[u][s]
          \/ u = t /\ s = slot /\ tables'[u][s].frame = f
  BY <1>2 DEF Gains
<1>15. PageFrames' = PageFrames \cup ({f} \ {NoFrame})
  BY <1>4, <1>5, <1>6, <1>7 DEF PageFrames, MemoryOK, KindsApart
<1>16. f # NoFrame => f \notin PageFrames
  BY <1>4 DEF PageFrames
<1>17. PagesPlaced'
  BY <1>14, <1>15, <1>16 DEF MemoryOK, PagesPlaced
<1> QED
  BY <1>8, <1>13, <1>17 DEF MemoryOK

\* What the invariant says of memory.
LEMMA MemoryIsolated == TypeOK /\ MemoryOK => OneUse
<1> SUFFICES ASSUME TypeOK, MemoryOK PROVE OneUse
  OBVIOUS
<1>1. AllTables = DOMAIN tables
  <2>1. \A t : t \in AllTables <=> \E d \in DOMAIN dirs : \E i \in DOMAIN dirs[d] : t = dirs[d][i]
    BY DEF AllTables, TablesOf
  <2>2. \A d \in DOMAIN dirs : \A i \in DOMAIN dirs[d] : dirs[d][i] \in DOMAIN tables
    BY DEF MemoryOK, TablesPlaced
  <2>3. \A t \in DOMAIN tables : \E d \in DOMAIN dirs : \E i \in DOMAIN dirs[d] : dirs[d][i] = t
    BY DEF MemoryOK, TablesPlaced
  <2>4. AllTables \subseteq DOMAIN tables
    BY ONLY <2>1, <2>2
  <2>5. ASSUME NEW t \in DOMAIN tables PROVE t \in AllTables
    BY ONLY <2>1, <2>3, t \in DOMAIN tables
  <2> QED
    BY ONLY <2>4, <2>5
<1>2. AllPages \subseteq PageFrames
  BY DEF AllPages, FramesAsPages, Leaves, TablesOf, MemoryOK, TablesPlaced, PagesPlaced
<1>3. DOMAIN dirs \cup DOMAIN tables \cup AllPages \cup kernel \subseteq used
  BY <1>2 DEF MemoryOK, KindsApart, PageFrames
<1>4. /\ DOMAIN dirs \cap (AllTables \cup AllPages \cup kernel) = {}
      /\ AllTables \cap (AllPages \cup kernel) = {}
      /\ AllPages \cap kernel = {}
  BY <1>1, <1>2 DEF MemoryOK, KindsApart, PageFrames
<1> QED
  BY ONLY <1>1, <1>3, <1>4, MemoryOK DEF MemoryOK, TablesPlaced, PagesPlaced, OneUse

\* The frames of an address space are marked, and other directories are not
\* among them.
LEMMA FramesKnown ==
    ASSUME MemoryOK, NEW e \in DOMAIN dirs
    PROVE  FramesIn(e) \subseteq used /\ \A d \in DOMAIN dirs : d # e => d \notin FramesIn(e)
<1>1. TablesOf(e) \subseteq DOMAIN tables
  BY DEF MemoryOK, TablesPlaced, TablesOf
<1>2. FramesAsPages(e) \subseteq PageFrames
  BY <1>1 DEF FramesAsPages, Leaves, MemoryOK, PagesPlaced
<1> QED
  BY <1>1, <1>2 DEF FramesIn, PageFrames, MemoryOK, KindsApart

LEMMA SameFrames ==
    ASSUME NEW d, dirs'[d] = dirs[d],
           \A i \in DOMAIN dirs[d] : tables'[dirs[d][i]] = tables[dirs[d][i]]
    PROVE  FramesIn(d)' = FramesIn(d)
<1>1. TablesOf(d)' = TablesOf(d)
  BY DEF TablesOf
<1>2. \A t \in TablesOf(d) : tables'[t] = tables[t]
  BY DEF TablesOf
<1>3. Leaves(d)' = Leaves(d)
  BY <1>1, <1>2 DEF Leaves
<1>4. FramesAsPages(d)' = FramesAsPages(d)
  BY <1>3 DEF FramesAsPages
<1> QED
  BY <1>1, <1>4 DEF FramesIn

\* The window shows what it did, and those who wait have what they had.
LEMMA WindowStands ==
    ASSUME WindowApart, UNCHANGED window, Live' \ {current'} \subseteq Live \ {current},
           \A p \in Live' \ {current'} : procs'[p].dir = procs[p].dir,
           \A p \in Live' \ {current'} : \E d : d = procs[p].dir /\ FramesIn(d)' = FramesIn(d)
    PROVE  WindowApart'
<1> SUFFICES ASSUME NEW p \in Live' \ {current'}
             PROVE  window' \notin FramesIn(procs[p].dir)'
  BY DEF WindowApart
<1>1. PICK d : d = procs[p].dir /\ FramesIn(d)' = FramesIn(d)
  OBVIOUS
<1>2. window \notin FramesIn(d)
  BY <1>1 DEF WindowApart
<1>3. procs'[p].dir = d
  BY <1>1
<1> QED
  BY <1>1, <1>2, <1>3

LEMMA WindowStill ==
    ASSUME WindowApart, UNCHANGED <<window, dirs, tables, current>>, Live' = Live,
           \A p \in Live : procs'[p].dir = procs[p].dir
    PROVE  WindowApart'
<1>1. \A d : FramesIn(d)' = FramesIn(d)
  BY DEF FramesIn, FramesAsPages, Leaves, TablesOf
<1> QED
  BY <1>1, WindowStands

-----------------------------------------------------------------------------
(* The pages of an address space.                                          *)

LEMMA SameSpace ==
    ASSUME NEW d, dirs'[d] = dirs[d],
           \A i \in DOMAIN dirs[d] : tables'[dirs[d][i]] = tables[dirs[d][i]]
    PROVE  Mapped(d)' = Mapped(d) /\ Space(d)' = Space(d)
<1>1. Mapped(d)' = Mapped(d)
  BY DEF Mapped
<1>2. \A page \in Mapped(d) : EntryOf(page) \in DOMAIN dirs[d]
  BY DEF Mapped
<1> QED
  BY <1>1, <1>2 DEF Space

LEMMA MapSpace ==
    ASSUME NEW d, NEW page \in 0 .. UserPages - 1, NEW t, NEW leaf, MemoryOK,
           Gains(d, EntryOf(page), SlotOf(page), t, leaf)
    PROVE  /\ Mapped(d)' = Mapped(d) \cup {page}
           /\ Space(d)' = [x \in Mapped(d) \cup {page} |->
                               IF x = page THEN leaf.frame ELSE Space(d)[x]]
           /\ \A e \in DOMAIN dirs : e # d => Mapped(e)' = Mapped(e) /\ Space(e)' = Space(e)
<1>1. PICK entry, slot : entry = EntryOf(page) /\ slot = SlotOf(page)
  OBVIOUS
<1>2. Gains(d, entry, slot, t, leaf)
  BY <1>1
<1>3. DOMAIN tables \subseteq used
  BY DEF MemoryOK, KindsApart
<1>4. ASSUME NEW e \in DOMAIN dirs, e # d
      PROVE  Mapped(e)' = Mapped(e) /\ Space(e)' = Space(e)
  <2>1. dirs'[e] = dirs[e]
    BY <1>2, <1>4 DEF Gains
  <2>2. \A i \in DOMAIN dirs[e] : dirs[e][i] # t
    BY <1>2, <1>3, <1>4 DEF Gains, MemoryOK, TablesPlaced
  <2>3. \A i \in DOMAIN dirs[e] : tables'[dirs[e][i]] = tables[dirs[e][i]]
    BY <1>2, <2>2 DEF Gains, MemoryOK, TablesPlaced
  <2> QED
    BY <2>1, <2>3, SameSpace
<1>5. ASSUME NEW i \in DOMAIN dirs[d], i # entry
      PROVE  dirs'[d][i] = dirs[d][i] /\ tables'[dirs[d][i]] = tables[dirs[d][i]]
  <2>1. dirs[d][i] \in DOMAIN tables /\ dirs[d][i] # t
    BY <1>2, <1>3, <1>5 DEF Gains, MemoryOK, TablesPlaced
  <2> QED
    BY <1>2, <2>1 DEF Gains
<1>6. ASSUME NEW x \in 0 .. UserPages - 1, x # page
      PROVE  /\ x \in Mapped(d)' <=> x \in Mapped(d)
             /\ x \in Mapped(d) => tables'[dirs'[d][EntryOf(x)]][SlotOf(x)].frame
                                      = tables[dirs[d][EntryOf(x)]][SlotOf(x)].frame
  <2>1. CASE EntryOf(x) # entry
    <3>1. EntryOf(x) \in DOMAIN dirs'[d] <=> EntryOf(x) \in DOMAIN dirs[d]
      BY <1>2, <2>1 DEF Gains
    <3> QED
      BY <1>5, <2>1, <3>1 DEF Mapped
  <2>2. CASE EntryOf(x) = entry
    <3>1. SlotOf(x) # slot
      BY <1>1, <1>6, <2>2, PageOf
    <3>2. EntryOf(x) \in DOMAIN dirs'[d] /\ dirs'[d][EntryOf(x)] = t
      BY <1>2, <2>2 DEF Gains
    <3>3. EntryOf(x) \in DOMAIN dirs[d] => dirs[d][EntryOf(x)] = t
      BY <1>2, <2>2 DEF Gains
    <3>4. EntryOf(x) \in DOMAIN dirs[d] /\ SlotOf(x) \in DOMAIN tables[t] <=> SlotOf(x) \in DOMAIN tables'[t]
      BY <1>2, <2>2, <3>1 DEF Gains
    <3>5. EntryOf(x) \in DOMAIN dirs[d] /\ SlotOf(x) \in DOMAIN tables[t] =>
              tables'[t][SlotOf(x)] = tables[t][SlotOf(x)]
      BY <1>2, <2>2, <3>1 DEF Gains
    <3> QED
      BY <3>2, <3>3, <3>4, <3>5 DEF Mapped
  <2> QED
    BY <2>1, <2>2
<1>7. page \in Mapped(d)' /\ tables'[dirs'[d][EntryOf(page)]][SlotOf(page)] = leaf
  BY <1>1, <1>2 DEF Gains, Mapped
<1>8. Mapped(d) \subseteq 0 .. UserPages - 1 /\ Mapped(d)' \subseteq 0 .. UserPages - 1
  BY DEF Mapped
<1>9. Mapped(d)' = Mapped(d) \cup {page}
  BY ONLY <1>6, <1>7, <1>8
<1>10. \A x \in Mapped(d) \cup {page} :
          tables'[dirs'[d][EntryOf(x)]][SlotOf(x)].frame = IF x = page THEN leaf.frame ELSE Space(d)[x]
  BY <1>6, <1>7, <1>8 DEF Space
<1>11. Space(d)' = [x \in Mapped(d) \cup {page} |->
                               IF x = page THEN leaf.frame ELSE Space(d)[x]]
  BY ONLY <1>9, <1>10 DEF Space
<1> QED
  BY <1>4, <1>9, <1>11

-----------------------------------------------------------------------------
(* What stands when a step leaves the processes alone.                     *)

LEMMA ChainStands ==
    ASSUME CallChain, current' = current, Live' = Live,
           \A p \in Live : procs'[p].parent = procs[p].parent
    PROVE  CallChain'
<1>1. PICK n \in Nat : \E order \in [1 .. n -> Live] : CallOrder(n, order)
  BY DEF CallChain
<1>2. PICK order \in [1 .. n -> Live] : CallOrder(n, order)
  BY <1>1
<1>3. \A i \in 1 .. n : procs'[order[i]].parent = procs[order[i]].parent
  BY <1>2
<1>4. CallOrder(n, order)'
  BY <1>2, <1>3 DEF CallOrder
<1> QED
  BY <1>4 DEF CallChain

LEMMA ProcessesStand ==
    ASSUME Standing, UNCHANGED <<current, cr3, tss>>, Live' = Live, current \in Live \cup {Nobody},
           \A p \in Live : /\ procs'[p].dir = procs[p].dir
                           /\ procs'[p].parent = procs[p].parent
                           /\ procs'[p].base = procs[p].base
                           /\ <<"kstack", p>> \in heap' /\ <<"proc", p>> \in heap',
           \A d \in DOMAIN dirs : d \in DOMAIN dirs' /\ Mapped(d) \subseteq Mapped(d)'
    PROVE  Standing'
<1>1. ASSUME NEW p \in Live
      PROVE  /\ procs'[p].dir \in DOMAIN dirs'
             /\ StackBase .. StackTop - 1 \subseteq Mapped(procs[p].dir)'
             /\ \E b \in Nat : procs'[p].base = b * PageUnits
             /\ procs'[p].base <= Room
  <2>1. PICK d : d = procs[p].dir
    OBVIOUS
  <2>2. d \in DOMAIN dirs /\ StackBase .. StackTop - 1 \subseteq Mapped(d)
    BY <2>1 DEF Standing
  <2>3. d \in DOMAIN dirs' /\ StackBase .. StackTop - 1 \subseteq Mapped(d)'
    BY <2>2
  <2>4. procs'[p].dir = d
    BY <2>1
  <2>5. \E b \in Nat : procs'[p].base = b * PageUnits
    BY ZenonT(40) DEF Standing
  <2>6. procs'[p].base <= Room
    BY DEF Standing
  <2> QED
    BY <2>3, <2>4, <2>5, <2>6
<1>2. CallChain'
  BY ChainStands DEF Standing
<1>3. \A p, q \in Live : procs'[p].dir = procs'[q].dir => p = q
  <2>1. \A p, q \in Live : procs[p].dir = procs[q].dir => p = q
    BY DEF Standing
  <2>2. \A p \in Live : procs'[p].dir = procs[p].dir
    OBVIOUS
  <2> QED
    BY ONLY <2>1, <2>2
<1>4. /\ current' = Nobody => cr3' = KernelDir
      /\ current' # Nobody => cr3' = procs'[current].dir /\ tss' = current
  BY DEF Standing
<1> QED
  BY <1>1, <1>2, <1>3, <1>4 DEF Standing

LEMMA BreaksStand ==
    ASSUME BreakMapped, Live' = Live,
           \A p \in Live : /\ procs'[p].dir = procs[p].dir
                           /\ procs'[p].base = procs[p].base
                           /\ procs'[p].brk = procs[p].brk
                           /\ procs[p].dir \in DOMAIN dirs,
           \A d \in DOMAIN dirs : d \in DOMAIN dirs' /\ Mapped(d) \subseteq Mapped(d)'
    PROVE  BreakMapped'
<1> SUFFICES ASSUME NEW p \in Live
             PROVE  /\ procs'[p].brk = procs'[p].base \/ procs'[p].brk < StackBase * PageUnits
                    /\ \A address \in procs'[p].base .. procs'[p].brk - 1 :
                           address \div PageUnits \in Mapped(procs[p].dir)'
  BY DEF BreakMapped
<1>1. PICK d \in DOMAIN dirs : d = procs[p].dir
  OBVIOUS
<1>2. PICK base, brk : base = procs[p].base /\ brk = procs[p].brk
  OBVIOUS
<1>3. /\ brk = base \/ brk < StackBase * PageUnits
      /\ \A address \in base .. brk - 1 : address \div PageUnits \in Mapped(d)
  BY <1>1, <1>2 DEF BreakMapped
<1>4. /\ brk = base \/ brk < StackBase * PageUnits
      /\ \A address \in base .. brk - 1 : address \div PageUnits \in Mapped(d)'
  BY <1>1, <1>3
<1>5. procs'[p].base = base /\ procs'[p].brk = brk /\ procs'[p].dir = d
  BY <1>1, <1>2
<1> QED
  BY <1>4, <1>5

LEMMA MappedStands ==
    ASSUME UNCHANGED <<dirs, tables>>
    PROVE  \A d \in DOMAIN dirs : d \in DOMAIN dirs' /\ Mapped(d)' = Mapped(d) /\ Mapped(d) \subseteq Mapped(d)'
  BY SameSpace

LEMMA MemoryStands ==
    ASSUME MemoryOK, UNCHANGED <<machine, used, kernel, dirs, tables>>
    PROVE  MemoryOK'
  BY DEF MemoryOK, KindsApart, TablesPlaced, PagesPlaced, PageFrames, ManagedFrames

-----------------------------------------------------------------------------
(* Types, programs and heap objects.                                       *)

LEMMA TypeStands ==
    ASSUME TypeOK, UNCHANGED <<machine, procs, current>>, job' \in Job, pc' \in Places
    PROVE  TypeOK'
  BY DEF TypeOK, Job, Process, ManagedFrames, Records, Live

LEMMA NoJobType == NoJob \in Job
<1>1. << >> \in Seq(Headers)
  BY EmptySeq
<1> QED
  BY <1>1 DEF NoJob, Job, KernelDir, Nobody

LEMMA Programs ==
    ASSUME TypeOK, NEW image \in machine.images
    PROVE  image \in Seq(Headers)
  BY ProcessesAssumption DEF TypeOK, MachineType, ImageType

\* The segments still to load.
LEMMA Remaining ==
    ASSUME job \in Job, job.segments # << >>
    PROVE  /\ Head(job.segments) \in Headers /\ Head(job.segments) = job.segments[1]
           /\ Tail(job.segments) \in Seq(Headers)
           /\ DOMAIN job.segments = 1 .. Len(job.segments) /\ Len(job.segments) \in Nat \ {0}
           /\ DOMAIN Tail(job.segments) = 1 .. Len(job.segments) - 1
           /\ \A i \in 1 .. Len(job.segments) - 1 : Tail(job.segments)[i] = job.segments[i + 1]
<1>1. PICK s : s = job.segments
  OBVIOUS
<1>2. s \in Seq(Headers) /\ s # << >>
  BY <1>1 DEF Job
<1>3. /\ Head(s) \in Headers /\ Tail(s) \in Seq(Headers)
      /\ Len(Tail(s)) = Len(s) - 1 /\ \A i \in 1 .. Len(Tail(s)) : Tail(s)[i] = s[i + 1]
  BY ONLY <1>2, HeadTailProperties
<1>4. DOMAIN s = 1 .. Len(s) /\ Len(s) \in Nat \ {0} /\ Head(s) = s[1]
  BY ONLY <1>2
<1>5. DOMAIN Tail(s) = 1 .. Len(Tail(s))
  BY ONLY <1>3
<1> QED
  BY ONLY <1>1, <1>3, <1>4, <1>5

LEMMA Tags ==
    /\ \A r : /\ <<"proc", r>>[1] = "proc" /\ <<"proc", r>>[2] = r
              /\ <<"kstack", r>>[1] = "kstack" /\ <<"kstack", r>>[2] = r
    /\ <<"kbuf">>[1] = "kbuf"
    /\ \A p, keys : \A o \in EnvOf(p, keys) : o[1] = "env" /\ o[2] = p
    /\ \A p, n : \A o \in Strings(p, n) : o[1] = "argv" /\ o[2] = p
  BY DEF EnvOf, Strings

LEMMA OwnedTags ==
    /\ \A o : o \in Owned <=> \E p \in Live : o = <<"kstack", p>> \/ o \in EnvOf(p, procs[p].env)
    /\ \A o \in Owned : o[1] \in {"kstack", "env"} /\ o[2] \in Live
<1>1. \A o : o \in Owned <=> \E p \in Live : o = <<"kstack", p>> \/ o \in EnvOf(p, procs[p].env)
  BY DEF Owned
<1> QED
  BY <1>1, Tags

LEMMA OwnedStands ==
    ASSUME Live' = Live, \A p \in Live : procs'[p].env = procs[p].env
    PROVE  Owned' = Owned
  BY DEF Owned, EnvOf

-----------------------------------------------------------------------------
(* The loader.                                                             *)

\* A step that leaves the processes alone and their memory mapped.
LEMMA Quiet ==
    ASSUME Inv, UNCHANGED <<machine, procs, current, cr3, tss>>, MemoryOK',
           \A d \in DOMAIN dirs : d \in DOMAIN dirs' /\ Mapped(d) \subseteq Mapped(d)',
           \A p \in Live : <<"kstack", p>> \in heap' /\ <<"proc", p>> \in heap',
           job' \in Job, pc' \in Places, JobOK', WindowApart', HeapExact'
    PROVE  Inv'
<1>1. TypeOK /\ MemoryOK /\ Standing /\ JobOK /\ WindowApart /\ BreakMapped /\ HeapExact
  BY DEF Inv
<1>2. TypeOK'
  BY <1>1, TypeStands
<1>3. Live' = Live /\ current \in Live \cup {Nobody}
  BY <1>1 DEF Live, TypeOK
<1>4. Standing'
  BY <1>1, <1>3, ProcessesStand
<1>5. BreakMapped'
  BY <1>1, <1>3, BreaksStand DEF Standing
<1> QED
  BY <1>2, <1>4, <1>5 DEF Inv

LEMMA StillApart ==
    ASSUME WindowApart, UNCHANGED <<window, dirs, tables, procs, current>>
    PROVE  WindowApart'
  BY WindowStill DEF Live

LEMMA OwnedQuiet == UNCHANGED procs => Owned' = Owned
  BY DEF Owned, EnvOf, Live

LEMMA ELFLoadInv ==
    ASSUME Inv, NEW image \in machine.images, UNCHANGED machine, ELFLoad(image)
    PROVE  Inv'
<1>1. TypeOK /\ MemoryOK /\ Standing /\ JobOK /\ WindowApart /\ BreakMapped /\ HeapExact
  BY DEF Inv
<1>2. UNCHANGED <<machine, tables, heap, procs, current, cr3, tss>> /\ pc \in {"boot", "user"}
  BY DEF ELFLoad, cpu
<1>3. MemoryOK'
  BY <1>1, LoadMemory
<1>4. PICK d : \/ pc' = "wrecked" /\ UNCHANGED <<dirs, job>>
               \/ /\ pc' = "segment" /\ d \in ManagedFrames /\ window' = d
                  /\ d \notin used
                  /\ dirs' = With(dirs, d, << >>)
                  /\ job' = [NoJob EXCEPT !.dir = d, !.segments = image]
  BY <1>1, Loaded
<1>5. d \notin used => d \notin DOMAIN dirs
  BY <1>1 DEF MemoryOK, KindsApart
<1>6. \A e \in DOMAIN dirs : e \in DOMAIN dirs' /\ dirs'[e] = dirs[e]
  BY <1>4, <1>5 DEF With
<1>7. \A e \in DOMAIN dirs : e \in DOMAIN dirs' /\ Mapped(e) \subseteq Mapped(e)'
  BY <1>2, <1>6, SameSpace
<1>8. job' \in Job /\ pc' \in Places
  <2>1. [NoJob EXCEPT !.dir = d, !.segments = image] \in Job \/ d \notin ManagedFrames
    BY <1>1, Programs, NoJobType DEF Job
  <2> QED
    BY <1>1, <1>4, <2>1 DEF TypeOK, Places, Loads
<1>9. JobOK'
  <2>1. CASE pc' = "wrecked"
    BY <2>1 DEF JobOK, Loads
  <2>2. CASE pc' = "segment"
    <3>1. /\ d \in DOMAIN dirs' /\ d \notin DOMAIN dirs
          /\ job'.dir = d /\ job'.brk = 0 /\ window' = d
      BY <1>4, <1>5, <2>2 DEF With, NoJob
    <3>2. \A p \in Live : procs[p].dir \in DOMAIN dirs
      BY <1>1 DEF Standing
    <3>3. LoadOK'
      BY <1>2, <2>2, <3>1, <3>2, Sizes DEF LoadOK, Live
    <3> QED
      BY <2>2, <3>3 DEF JobOK, Loads
  <2> QED
    BY <1>4, <2>1, <2>2
<1>10. HeapExact'
  <2>1. Passing = {} /\ (pc' # "wrecked" => Passing' = {}) /\ pc # "wrecked"
    BY <1>2, <1>4 DEF Passing
  <2> QED
    BY <1>1, <1>2, <2>1, OwnedQuiet DEF HeapExact
<1>11. \A p \in Live : <<"kstack", p>> \in heap' /\ <<"proc", p>> \in heap'
  BY <1>1, <1>2 DEF Standing
<1>12. WindowApart'
  <2> SUFFICES ASSUME NEW p \in Live
               PROVE  window' \notin FramesIn(procs[p].dir)'
    BY <1>2 DEF WindowApart, Live
  <2>1. PICK e : e = procs[p].dir
    OBVIOUS
  <2>2. e \in DOMAIN dirs
    BY <1>1, <2>1 DEF Standing
  <2>3. FramesIn(e)' = FramesIn(e) /\ FramesIn(e) \subseteq used
    BY <1>1, <1>2, <1>6, <2>2, SameFrames, FramesKnown
  <2>4. procs'[p].dir = e /\ window' \notin used
    BY <1>1, <1>2, <2>1, Loaded
  <2> QED
    BY <2>3, <2>4
<1> QED
  BY <1>2, <1>3, <1>7, <1>8, <1>9, <1>10, <1>11, <1>12, Quiet

\* A load that is given up leaves nothing behind but its address space.
LEMMA GiveUpJob ==
    ASSUME TypeOK, GiveUp, UNCHANGED current
    PROVE  job' \in Job /\ pc' \in Places /\ JobOK' /\ pc' \in {"prompt", "user"}
  BY NoJobType DEF GiveUp, JobOK, Places, Loads, TypeOK

LEMMA LoadSegmentInv ==
    ASSUME Inv, UNCHANGED machine, LoadSegment
    PROVE  Inv'
<1>1. TypeOK /\ MemoryOK /\ Standing /\ JobOK /\ WindowApart /\ BreakMapped /\ HeapExact
  BY DEF Inv
<1>2. /\ UNCHANGED <<machine, window, dirs, tables, procs, current, cr3, tss>>
      /\ pc = "segment" /\ job.segments # << >> /\ job \in Job /\ LoadOK
  BY <1>1 DEF LoadSegment, cpu, TypeOK, JobOK, Loads
<1>3. \A d \in DOMAIN dirs : d \in DOMAIN dirs' /\ Mapped(d) \subseteq Mapped(d)'
  BY <1>2, MappedStands
<1>4. PICK s : s = Head(job.segments)
  OBVIOUS
<1>5. s \in Headers
  BY <1>2, <1>4, Remaining
<1>6. Passing = {}
  BY <1>2 DEF Passing
<1>7. \A p \in Live : <<"kstack", p>> \in heap /\ <<"proc", p>> \in heap
  BY <1>1 DEF Standing
<1>8. CASE /\ job' = [job EXCEPT !.segments = Tail(@)]
           /\ UNCHANGED <<used, kernel, heap, pc>>
  <2>1. job' \in Job
    BY <1>2, <1>8, Remaining DEF Job
  <2>2. JobOK'
    BY <1>2, <1>8 DEF JobOK, LoadOK, Loads, Job, Live
  <2>3. Passing' = {}
    BY <1>2, <1>8 DEF Passing
  <2>4. HeapExact'
    BY <1>1, <1>2, <1>6, <1>8, <2>3, OwnedQuiet DEF HeapExact
  <2> QED
    BY <1>1, <1>2, <1>3, <1>7, <1>8, <2>1, <2>2, <2>4, StillApart, Quiet, MemoryStands DEF TypeOK
<1>9. CASE GiveUp /\ UNCHANGED <<used, kernel, heap>>
  <2>1. Passing' = {}
    BY <1>1, <1>2, <1>9, GiveUpJob DEF Passing
  <2>2. HeapExact'
    BY <1>1, <1>2, <1>6, <1>9, <2>1, OwnedQuiet DEF HeapExact
  <2> QED
    BY <1>1, <1>2, <1>3, <1>7, <1>9, <2>2, StillApart, Quiet, MemoryStands, GiveUpJob
<1>10. CASE /\ s.size # 0
            /\ KMalloc({<<"kbuf">>}, IF s.kind = "load" THEN "map" ELSE "short")
            /\ job' = [job EXCEPT !.page = s.at \div PageUnits, !.end = PageAbove(s.at + s.size)]
  <2>1. heap' = heap \cup {<<"kbuf">>} /\ HeapGrowth(IF s.kind = "load" THEN "map" ELSE "short")
    BY <1>10 DEF KMalloc
  <2>2. MemoryOK'
    BY <1>1, <1>2, <2>1, Growth, KernelGains
  <2>3. pc' \in {"map", "short", "wrecked"}
    BY <1>1, <2>1, Growth
  <2>4. job' \in Job /\ pc' \in Places
    BY <1>2, <1>5, <1>10, <2>3, HeaderType DEF Job, Places, Loads
  <2>5. JobOK'
    <3>1. job'.dir = job.dir /\ job'.brk = job.brk /\ job'.segments = job.segments
      BY <1>2, <1>10 DEF Job
    <3>2. Head(job'.segments).size # 0 /\ job'.segments # << >>
      BY <1>2, <1>4, <1>10, <3>1
    <3>3. pc' # "wrecked" => LoadOK'
      BY <1>2, <2>3, <3>1, <3>2 DEF LoadOK, Live
    <3> QED
      BY <2>3, <3>3 DEF JobOK, Loads
  <2>6. pc' # "wrecked" => Passing' = {<<"kbuf">>}
    BY <2>3 DEF Passing
  <2>7. HeapExact'
    BY <1>1, <1>2, <1>6, <2>1, <2>6, OwnedQuiet, Tags DEF HeapExact
  <2> QED
    BY <1>1, <1>2, <1>3, <1>7, <2>1, <2>2, <2>4, <2>5, <2>7, StillApart, Quiet
<1> QED
  BY <1>4, <1>8, <1>9, <1>10 DEF LoadSegment

LEMMA ShortReadInv ==
    ASSUME Inv, UNCHANGED machine, ShortRead
    PROVE  Inv'
<1>1. TypeOK /\ MemoryOK /\ Standing /\ JobOK /\ WindowApart /\ BreakMapped /\ HeapExact
  BY DEF Inv
<1>2. /\ UNCHANGED <<machine, window, used, kernel, dirs, tables, procs, current, cr3, tss>>
      /\ pc = "short" /\ heap' = heap \ {<<"kbuf">>} /\ GiveUp
  BY DEF ShortRead, cpu, memory
<1>3. \A d \in DOMAIN dirs : d \in DOMAIN dirs' /\ Mapped(d) \subseteq Mapped(d)'
  BY <1>2, MappedStands
<1>4. Passing = {<<"kbuf">>} /\ Passing' = {}
  BY <1>1, <1>2, GiveUpJob DEF Passing
<1>5. HeapExact'
  BY <1>1, <1>2, <1>4, OwnedQuiet, OwnedTags, Tags DEF HeapExact
<1>6. \A p \in Live : <<"kstack", p>> \in heap' /\ <<"proc", p>> \in heap'
  BY <1>1, <1>2, Tags DEF Standing
<1> QED
  BY <1>1, <1>2, <1>3, <1>5, <1>6, StillApart, Quiet, MemoryStands, GiveUpJob

\* What is written lies in pages that are mapped, so it ends in the user part.
LEMMA WrittenEnd ==
    ASSUME NEW s \in Headers, NEW d, Written(s) \subseteq Mapped(d), s.size # 0
    PROVE  s.at + s.size <= Room /\ Word(s.at + s.size) = s.at + s.size
<1>1. PICK top : top = s.at + Larger(s.size, s.file) - 1
  OBVIOUS
<1>2. /\ s.at \in Nat /\ s.size \in Nat /\ s.file \in Nat
      /\ top \in Nat /\ s.at <= top /\ s.at + s.size <= top + 1
  BY <1>1, HeaderType DEF Larger
<1>3. PICK first, last : first = s.at \div PageUnits /\ last = top \div PageUnits
  OBVIOUS
<1>4. first \in Nat /\ last \in Nat /\ first <= last
  <2>1. first \in Nat /\ last \in Nat
    BY <1>2, <1>3, PageType
  <2>2. first * PageUnits <= s.at
    <3>1. s.at \in Int
      BY <1>2
    <3>2. (s.at \div PageUnits) * PageUnits <= s.at
      BY <3>1, Sizes, Division
    <3> QED
      BY <1>3, <3>2
  <2> QED
    BY <1>2, <1>3, <2>1, <2>2, Sizes, Quotient
<1>5. last \in first .. last
  BY <1>4
<1>6. last <= UserPages - 1
  BY <1>1, <1>3, <1>5 DEF Written, Mapped
<1>7. top < (last + 1) * PageUnits
  BY <1>2, <1>3, <1>4, Sizes, Division, SMT
<1>8. (last + 1) * PageUnits <= Room
  BY <1>4, <1>6, Sizes, SMT DEF Room
<1>9. s.at + s.size <= Room
  BY <1>2, <1>4, <1>7, <1>8, Sizes, SMT
<1>10. s.at + s.size \in Nat /\ s.at + s.size < AddressSize
  BY <1>2, <1>9, Sizes
<1> QED
  BY <1>9, <1>10, WordSmall

LEMMA EndSegmentInv ==
    ASSUME Inv, UNCHANGED machine, EndSegment
    PROVE  Inv'
<1>1. TypeOK /\ MemoryOK /\ Standing /\ JobOK /\ WindowApart /\ BreakMapped /\ HeapExact
  BY DEF Inv
<1>2. PICK s : s = Head(job.segments)
  OBVIOUS
<1>3. /\ UNCHANGED <<machine, window, used, kernel, dirs, tables, procs, current, cr3, tss>>
      /\ pc = "map"
      /\ \/ /\ Written(s) \subseteq Mapped(job.dir)
            /\ pc' = "segment" /\ heap' = heap \ {<<"kbuf">>}
            /\ job' = [job EXCEPT !.segments = Tail(@), !.brk = Larger(Word(s.at + s.size), @)]
         \/ pc' = "wrecked" /\ UNCHANGED <<job, heap>>
  BY <1>2 DEF EndSegment, cpu, memory, Following, Wreck
<1>4. job \in Job /\ LoadOK /\ job.segments # << >>
  BY <1>1, <1>3 DEF TypeOK, JobOK, Loads, LoadOK
<1>5. s \in Headers /\ Tail(job.segments) \in Seq(Headers)
  BY <1>2, <1>4, Remaining
<1>6. \A d \in DOMAIN dirs : d \in DOMAIN dirs' /\ Mapped(d) \subseteq Mapped(d)'
  BY <1>3, MappedStands
<1>7. \A p \in Live : <<"kstack", p>> \in heap' /\ <<"proc", p>> \in heap'
  BY <1>1, <1>3, Tags DEF Standing
<1>8. CASE pc' = "wrecked" /\ UNCHANGED <<job, heap>>
  <2>1. JobOK' /\ HeapExact'
    BY <1>8 DEF JobOK, HeapExact, Loads
  <2> QED
    BY <1>1, <1>3, <1>4, <1>6, <1>7, <1>8, <2>1, StillApart, Quiet, MemoryStands DEF Places
<1>9. CASE /\ Written(s) \subseteq Mapped(job.dir)
           /\ pc' = "segment" /\ heap' = heap \ {<<"kbuf">>}
           /\ job' = [job EXCEPT !.segments = Tail(@), !.brk = Larger(Word(s.at + s.size), @)]
  <2>1. PICK brk : brk = Larger(Word(s.at + s.size), job.brk)
    OBVIOUS
  <2>2. brk \in Nat /\ brk <= Room
    <3>1. job.brk \in Nat /\ job.brk <= Room
      BY <1>4 DEF Job, LoadOK
    <3>2. s.at + s.size \in Nat /\ s.size \in Nat
      BY <1>5, HeaderType
    <3>3. Word(s.at + s.size) \in Nat /\ Word(s.at + s.size) <= Room
      BY <1>2, <1>3, <1>4, <1>5, <1>9, <3>2, WrittenEnd DEF LoadOK
    <3> QED
      BY <2>1, <3>1, <3>3 DEF Larger
  <2>3. job' \in Job /\ pc' \in Places
    BY <1>4, <1>5, <1>9, <2>1, <2>2 DEF Job, Places, Loads
  <2>4. JobOK'
    <3>1. job'.dir = job.dir /\ job'.brk = brk
      BY <1>4, <1>9, <2>1 DEF Job
    <3>2. LoadOK'
      BY <1>3, <1>4, <1>9, <2>2, <3>1 DEF LoadOK, Live
    <3> QED
      BY <1>9, <3>2 DEF JobOK, Loads
  <2>5. Passing = {<<"kbuf">>} /\ Passing' = {}
    BY <1>3, <1>9 DEF Passing
  <2>6. HeapExact'
    BY <1>1, <1>3, <1>9, <2>5, OwnedQuiet, OwnedTags, Tags DEF HeapExact
  <2> QED
    BY <1>1, <1>3, <1>6, <1>7, <2>3, <2>4, <2>6, StillApart, Quiet, MemoryStands
<1> QED
  BY <1>3, <1>8, <1>9

LEMMA MapKernelInv ==
    ASSUME Inv, UNCHANGED machine, MapKernel
    PROVE  Inv'
<1>1. TypeOK /\ MemoryOK /\ Standing /\ JobOK /\ WindowApart /\ BreakMapped /\ HeapExact
  BY DEF Inv
<1>2. /\ UNCHANGED <<machine, window, used, kernel, dirs, tables, heap, procs, current, cr3, tss, job>>
      /\ pc' = "wrecked"
  BY DEF MapKernel, Wreck, memory, cpu
<1>3. JobOK' /\ HeapExact'
  BY <1>2 DEF JobOK, HeapExact, Loads
<1>4. \A d \in DOMAIN dirs : d \in DOMAIN dirs' /\ Mapped(d) \subseteq Mapped(d)'
  BY <1>2, MappedStands
<1>5. \A p \in Live : <<"kstack", p>> \in heap' /\ <<"proc", p>> \in heap'
  BY <1>1, <1>2 DEF Standing
<1>6. job' \in Job /\ pc' \in Places
  BY <1>1, <1>2 DEF TypeOK, Places
<1> QED
  BY <1>1, <1>2, <1>3, <1>4, <1>5, <1>6, StillApart, Quiet, MemoryStands

LEMMA BeginStackInv ==
    ASSUME Inv, UNCHANGED machine, BeginStack
    PROVE  Inv'
<1>1. TypeOK /\ MemoryOK /\ Standing /\ JobOK /\ WindowApart /\ BreakMapped /\ HeapExact
  BY DEF Inv
<1>2. /\ UNCHANGED <<machine, window, used, kernel, dirs, tables, procs, current, cr3, tss, heap>>
      /\ pc = "segment" /\ pc' = "stack"
      /\ job' = [job EXCEPT !.brk = PageAbove(@) * PageUnits, !.page = StackBase, !.end = StackTop]
  BY DEF BeginStack, cpu, memory
<1>3. job \in Job /\ LoadOK
  BY <1>1, <1>2 DEF TypeOK, JobOK, Loads
<1>4. \A d \in DOMAIN dirs : d \in DOMAIN dirs' /\ Mapped(d) \subseteq Mapped(d)'
  BY <1>2, MappedStands
<1>5. PICK k : k = PageAbove(job.brk)
  OBVIOUS
<1>6. k \in Nat /\ k <= UserPages
  <2>1. job.brk \in Nat /\ job.brk <= Room
    BY <1>3 DEF Job, LoadOK
  <2>2. job.brk <= UserPages * PageUnits
    BY <2>1 DEF Room
  <2> QED
    BY <1>5, <2>1, <2>2, Sizes, PageType, PageBound
<1>7. k * PageUnits \in Nat /\ k * PageUnits <= Room
  BY <1>6, Sizes DEF Room
<1>8. job' \in Job /\ pc' \in Places
  BY <1>2, <1>3, <1>5, <1>7, Sizes DEF Job, Places, Loads
<1>9. JobOK'
  <2>1. /\ job'.dir = job.dir /\ job'.brk = k * PageUnits
        /\ job'.page = StackBase /\ job'.end = StackTop
    BY <1>2, <1>3, <1>5 DEF Job
  <2>2. StackBase .. StackBase - 1 = {}
    BY Sizes
  <2>3. LoadOK'
    BY <1>2, <1>3, <1>6, <1>7, <2>1, <2>2, Sizes DEF LoadOK, Live
  <2> QED
    BY <1>2, <2>3 DEF JobOK, Loads
<1>10. Passing = {} /\ Passing' = {}
  BY <1>2 DEF Passing
<1>11. HeapExact'
  BY <1>1, <1>2, <1>10, OwnedQuiet DEF HeapExact
<1>12. \A p \in Live : <<"kstack", p>> \in heap' /\ <<"proc", p>> \in heap'
  BY <1>1, <1>2 DEF Standing
<1> QED
  BY <1>1, <1>2, <1>4, <1>8, <1>9, <1>11, <1>12, StillApart, Quiet, MemoryStands

\* The address of a new Process structure is that of no live process.
LEMMA FreshRecord ==
    ASSUME Standing, NEW r \in Records, NewRecord(r)
    PROVE  r \notin Live /\ <<"proc", r>> \notin heap
  BY DEF Standing, NewRecord

LEMMA CreateRecordInv ==
    ASSUME Inv, UNCHANGED machine, CreateRecord
    PROVE  Inv'
<1>1. TypeOK /\ MemoryOK /\ Standing /\ JobOK /\ WindowApart /\ BreakMapped /\ HeapExact
  BY DEF Inv
<1>2. UNCHANGED <<machine, window, dirs, tables, procs, current, cr3, tss>> /\ pc = "stack" /\ job.page = job.end
  BY DEF CreateRecord, cpu
<1>3. PICK r \in Records : /\ NewRecord(r)
                           /\ KMalloc({<<"proc", r>>} \cup Inherited(r), "args")
                           /\ job' = [job EXCEPT !.record = r]
  BY DEF CreateRecord
<1>4. PICK inherited : inherited = Inherited(r)
  OBVIOUS
<1>5. heap' = heap \cup {<<"proc", r>>} \cup inherited /\ HeapGrowth("args")
  BY <1>3, <1>4 DEF KMalloc
<1>6. job \in Job /\ LoadOK
  BY <1>1, <1>2 DEF TypeOK, JobOK, Loads
<1>7. job' \in Job /\ job'.dir = job.dir /\ job'.brk = job.brk /\ job'.record = r
  BY <1>3, <1>6 DEF Job
<1>8. MemoryOK' /\ pc' \in {"args", "wrecked"}
  BY <1>1, <1>2, <1>5, Growth, KernelGains
<1>9. \A d \in DOMAIN dirs : d \in DOMAIN dirs' /\ Mapped(d) \subseteq Mapped(d)'
  BY <1>2, MappedStands
<1>10. JobOK'
  <2>1. StackBase .. StackTop - 1 \subseteq Mapped(job.dir)
    BY <1>2, <1>6 DEF LoadOK
  <2>2. PICK d : d = job.dir
    OBVIOUS
  <2>3. StackBase .. StackTop - 1 \subseteq Mapped(d)' /\ d \in DOMAIN dirs /\ job'.dir = d
    BY <1>6, <1>7, <1>9, <2>1, <2>2 DEF LoadOK
  <2>4. StackBase .. StackTop - 1 \subseteq Mapped(job.dir)'
    BY <2>3
  <2>5. r \in Records' \ Live' /\ <<"proc", r>> \in heap'
    BY <1>1, <1>2, <1>3, <1>5, FreshRecord DEF Records, Live
  <2>6. pc' = "args" => LoadOK'
    BY <1>2, <1>6, <1>7, <2>4, <2>5 DEF LoadOK, Live
  <2> QED
    BY <1>8, <2>6 DEF JobOK, Loads
<1>11. HeapExact'
  <2>1. Passing = {} /\ (pc' # "wrecked" => Passing' = inherited)
    BY <1>2, <1>4, <1>7, <1>8 DEF Passing, Inherited, EnvOf
  <2>2. \A o \in inherited : o[1] = "env"
    BY <1>4, Tags DEF Inherited
  <2> QED
    BY <1>1, <1>2, <1>5, <2>1, <2>2, OwnedQuiet, Tags DEF HeapExact
<1>12. \A p \in Live : <<"kstack", p>> \in heap' /\ <<"proc", p>> \in heap'
  BY <1>1, <1>5 DEF Standing
<1> QED
  BY <1>1, <1>2, <1>7, <1>8, <1>9, <1>10, <1>11, <1>12, StillApart, Quiet DEF Places, Loads

LEMMA CopyArgsInv ==
    ASSUME Inv, UNCHANGED machine, CopyArgs
    PROVE  Inv'
<1>1. TypeOK /\ MemoryOK /\ Standing /\ JobOK /\ WindowApart /\ BreakMapped /\ HeapExact
  BY DEF Inv
<1>2. UNCHANGED <<machine, window, dirs, tables, procs, current, cr3, tss>> /\ pc = "args"
  BY DEF CopyArgs, cpu
<1>3. PICK n \in 0 .. (IF current = Nobody THEN 0 ELSE MaxArgs) :
          /\ KMalloc(Strings(job.record, n), "execute")
          /\ job' = [job EXCEPT !.argc = n]
  BY DEF CopyArgs
<1>4. n \in Nat
  BY <1>3, ProcessesAssumption
<1>5. PICK strings : strings = Strings(job.record, n)
  OBVIOUS
<1>6. heap' = heap \cup strings /\ HeapGrowth("execute")
  BY <1>3, <1>5 DEF KMalloc
<1>7. job \in Job /\ LoadOK
  BY <1>1, <1>2 DEF TypeOK, JobOK, Loads
<1>8. /\ job' \in Job /\ job'.dir = job.dir /\ job'.brk = job.brk
      /\ job'.record = job.record /\ job'.argc = n
  BY <1>3, <1>4, <1>7 DEF Job
<1>9. MemoryOK' /\ pc' \in {"execute", "wrecked"}
  BY <1>1, <1>2, <1>6, Growth, KernelGains
<1>10. \A d \in DOMAIN dirs : d \in DOMAIN dirs' /\ Mapped(d) \subseteq Mapped(d)'
  BY <1>2, MappedStands
<1>11. JobOK'
  <2>1. PICK d : d = job.dir
    OBVIOUS
  <2>2. StackBase .. StackTop - 1 \subseteq Mapped(d) /\ d \in DOMAIN dirs
    BY <1>2, <1>7, <2>1 DEF LoadOK
  <2>3. StackBase .. StackTop - 1 \subseteq Mapped(d)' /\ job'.dir = d
    BY <1>8, <1>10, <2>1, <2>2
  <2>4. StackBase .. StackTop - 1 \subseteq Mapped(job.dir)'
    BY <2>3
  <2>5. job.record \in Records' \ Live' /\ <<"proc", job.record>> \in heap'
    BY <1>2, <1>6, <1>7 DEF LoadOK, Records, Live
  <2>6. pc' = "execute" => LoadOK'
    BY <1>2, <1>7, <1>8, <2>4, <2>5 DEF LoadOK, Live
  <2> QED
    BY <1>9, <2>6 DEF JobOK, Loads
<1>12. HeapExact'
  <2>1. PICK inherited : inherited = Inherited(job.record)
    OBVIOUS
  <2>2. Inherited(job.record)' = inherited
    BY <1>2, <1>8, <2>1 DEF Inherited, EnvOf
  <2>3. Strings(job.record, job.argc)' = strings
    BY <1>5, <1>8 DEF Strings
  <2>4. Passing = inherited /\ (pc' # "wrecked" => Passing' = inherited \cup strings)
    BY <1>2, <1>9, <2>1, <2>2, <2>3 DEF Passing
  <2>5. \A o \in strings : o[1] = "argv"
    BY <1>5, Tags
  <2> QED
    BY <1>1, <1>2, <1>6, <2>4, <2>5, OwnedQuiet DEF HeapExact
<1>13. \A p \in Live : <<"kstack", p>> \in heap' /\ <<"proc", p>> \in heap'
  BY <1>1, <1>6 DEF Standing
<1> QED
  BY <1>1, <1>2, <1>8, <1>9, <1>10, <1>11, <1>12, <1>13, StillApart, Quiet DEF Places, Loads

-----------------------------------------------------------------------------
(* Pages.                                                                  *)

\* The page the loops are at is one of the user part, and that of sbrk's loop
\* is below the stack.
LEMMA PageInReach ==
    ASSUME Inv, pc \in {"map", "stack", "sbrk"}, job.page < job.end, job.page < UserPages
    PROVE  /\ job.page \in 0 .. UserPages - 1
           /\ pc = "sbrk" => job.page < StackBase
           /\ job.dir \in DOMAIN dirs
<1>1. TypeOK /\ Standing /\ JobOK
  BY DEF Inv
<1>2. job \in Job /\ job.page \in Nat /\ job.end \in Nat /\ job.brk \in Nat
  BY <1>1 DEF TypeOK, Job
<1>3. CASE pc = "map"
  <2>1. LoadOK
    BY <1>1, <1>3 DEF JobOK, Loads
  <2> QED
    BY <1>2, <1>3, <2>1, Sizes DEF LoadOK
<1>4. CASE pc = "stack"
  <2>1. LoadOK
    BY <1>1, <1>4 DEF JobOK, Loads
  <2> QED
    BY <1>2, <1>4, <2>1, Sizes DEF LoadOK
<1>5. CASE pc = "sbrk"
  <2>1. SbrkOK /\ current \in Live
    BY <1>1, <1>5 DEF JobOK, TypeOK
  <2>2. job.end <= StackBase
    <3>1. job.brk <= StackBase * PageUnits /\ job.brk <= Room
      BY <1>2, <2>1, Sizes DEF SbrkOK, BreakAllowed
    <3> QED
      BY <1>2, <2>1, <3>1, PageBound, Sizes DEF SbrkOK
  <2>3. job.dir \in DOMAIN dirs
    BY <1>1, <2>1 DEF SbrkOK, Standing
  <2>4. job.page < StackBase /\ job.page \in 0 .. UserPages - 1
    BY <1>2, <2>2, Sizes
  <2> QED
    BY <2>3, <2>4
<1> QED
  BY <1>3, <1>4, <1>5

\* One turn of the loops.
LEMMA MapStep ==
    ASSUME Inv, MapNext
    PROVE  \/ /\ pc' = "wrecked" /\ UNCHANGED <<dirs, tables, job>>
              /\ used \subseteq used' /\ used' \subseteq ManagedFrames
           \/ \E t, f :
                  /\ pc' = pc
                  /\ job' = [job EXCEPT !.page = @ + 1]
                  /\ lent' = IF pc = "sbrk" THEN Marked(lent, f) ELSE lent
                  /\ Gains(job.dir, EntryOf(job.page), SlotOf(job.page), t,
                           [frame |-> f, owner |-> pc # "sbrk"])
<1>1. TypeOK /\ MemoryOK
  BY DEF Inv
<1>2. PICK d, entry, slot : d = job.dir /\ entry = EntryOf(job.page) /\ slot = SlotOf(job.page)
  OBVIOUS
<1>3. d \in DOMAIN dirs
  BY <1>2, PageInReach DEF MapNext
<1>4. PICK f \in Answers : \E t \in Answers :
          /\ NextFrame(ManagedFrames, used, f)
          /\ IF entry \in DOMAIN dirs[d] THEN t = dirs[d][entry]
                                         ELSE NextFrame(ManagedFrames, Marked(used, f), t)
          /\ used' = Marked(Marked(used, f), t)
          /\ lent' = IF pc = "sbrk" THEN Marked(lent, f) ELSE lent
          /\ IF t = NoFrame
             THEN pc' = "wrecked" /\ UNCHANGED <<dirs, tables, job>>
             ELSE /\ dirs' = [dirs EXCEPT ![d] = With(@, entry, t)]
                  /\ tables' = With(tables, t, With(IF entry \in DOMAIN dirs[d] THEN tables[t] ELSE << >>,
                                                    slot, [frame |-> f, owner |-> pc # "sbrk"]))
                  /\ job' = [job EXCEPT !.page = @ + 1]
                  /\ UNCHANGED pc
  BY <1>2 DEF MapNext, Target, Wreck
<1>5. PICK t \in Answers :
          /\ NextFrame(ManagedFrames, used, f)
          /\ IF entry \in DOMAIN dirs[d] THEN t = dirs[d][entry]
                                         ELSE NextFrame(ManagedFrames, Marked(used, f), t)
          /\ used' = Marked(Marked(used, f), t)
          /\ lent' = IF pc = "sbrk" THEN Marked(lent, f) ELSE lent
          /\ IF t = NoFrame
             THEN pc' = "wrecked" /\ UNCHANGED <<dirs, tables, job>>
             ELSE /\ dirs' = [dirs EXCEPT ![d] = With(@, entry, t)]
                  /\ tables' = With(tables, t, With(IF entry \in DOMAIN dirs[d] THEN tables[t] ELSE << >>,
                                                    slot, [frame |-> f, owner |-> pc # "sbrk"]))
                  /\ job' = [job EXCEPT !.page = @ + 1]
                  /\ UNCHANGED pc
  BY <1>4
<1>6. CASE t = NoFrame
  <2>1. f = NoFrame \/ f \in ManagedFrames
    BY <1>1, <1>5, Found
  <2>2. used' = Marked(used, f)
    BY <1>5, <1>6 DEF Marked
  <2>3. used \subseteq used' /\ used' \subseteq ManagedFrames
    BY <1>1, <2>1, <2>2 DEF MemoryOK, KindsApart, Marked
  <2> QED
    BY <1>5, <1>6, <2>3
<1>7. CASE t # NoFrame
  <2>1. PICK own : own = (pc # "sbrk")
    OBVIOUS
  <2>2. Gains(d, entry, slot, t, [frame |-> f, owner |-> own])
    BY <1>1, <1>3, <1>5, <1>7, <2>1, MapGains
  <2>3. Gains(job.dir, EntryOf(job.page), SlotOf(job.page), t, [frame |-> f, owner |-> pc # "sbrk"])
    BY <1>2, <2>1, <2>2
  <2> QED
    BY <1>5, <1>7, <2>3
<1> QED
  BY <1>6, <1>7

LEMMA MapNextInv ==
    ASSUME Inv, UNCHANGED machine, MapNext
    PROVE  Inv'
<1>1. TypeOK /\ MemoryOK /\ Standing /\ JobOK /\ WindowApart /\ BreakMapped /\ HeapExact
  BY DEF Inv
<1>2. /\ UNCHANGED <<machine, kernel, heap, procs, current, cr3, tss>>
      /\ pc \in {"map", "stack", "sbrk"} /\ job.page < job.end /\ job.page < UserPages
      /\ UNCHANGED window
  BY DEF MapNext, cpu
<1>3. \A p \in Live : <<"kstack", p>> \in heap' /\ <<"proc", p>> \in heap'
  BY <1>1, <1>2 DEF Standing
<1>4. job \in Job /\ job.page \in Nat /\ job.end \in Nat
  BY <1>1 DEF TypeOK, Job
<1>5. CASE pc' = "wrecked" /\ UNCHANGED <<dirs, tables, job>> /\ used \subseteq used' /\ used' \subseteq ManagedFrames
  <2>1. MemoryOK'
    <3>1. ManagedFrames' = ManagedFrames
      BY <1>2 DEF ManagedFrames
    <3>2. PageFrames \subseteq PageFrames'
      BY <1>2, <1>5 DEF PageFrames
    <3> QED
      BY <1>1, <1>2, <1>5, <3>1, <3>2 DEF MemoryOK, KindsApart, TablesPlaced, PagesPlaced
  <2>2. JobOK' /\ HeapExact'
    BY <1>5 DEF JobOK, HeapExact, Loads
  <2>3. \A d \in DOMAIN dirs : d \in DOMAIN dirs' /\ Mapped(d) \subseteq Mapped(d)'
    BY <1>5, MappedStands
  <2> QED
    BY <1>1, <1>2, <1>3, <1>4, <1>5, <2>1, <2>2, <2>3, StillApart, Quiet DEF Places
<1>6. ASSUME NEW t, NEW f,
             pc' = pc, job' = [job EXCEPT !.page = @ + 1],
             Gains(job.dir, EntryOf(job.page), SlotOf(job.page), t,
                   [frame |-> f, owner |-> pc # "sbrk"])
      PROVE  Inv'
  <2>1. PICK d, page, leaf : d = job.dir /\ page = job.page /\ leaf = [frame |-> f, owner |-> pc # "sbrk"]
    OBVIOUS
  <2>2. Gains(d, EntryOf(page), SlotOf(page), t, leaf)
    BY <1>6, <2>1
  <2>3. d \in DOMAIN dirs /\ DOMAIN dirs' = DOMAIN dirs
    BY <2>2 DEF Gains
  <2>4. MemoryOK'
    BY <1>1, <1>2, <2>2, MapMemory
  <2>5. page \in 0 .. UserPages - 1
    BY <1>2, <2>1, PageInReach
  <2>6. /\ Mapped(d)' = Mapped(d) \cup {page}
        /\ \A e \in DOMAIN dirs : e # d => Mapped(e)' = Mapped(e)
    BY <1>1, <2>2, <2>5, MapSpace
  <2>7. \A e \in DOMAIN dirs : e \in DOMAIN dirs' /\ Mapped(e) \subseteq Mapped(e)'
    BY <2>3, <2>6
  <2>8. /\ job' \in Job /\ job'.dir = d /\ job'.page = page + 1 /\ job'.end = job.end
        /\ job'.brk = job.brk /\ job'.segments = job.segments /\ job'.record = job.record
    BY <1>4, <1>6, <2>1 DEF Job
  <2>9. JobOK'
    <3>1. CASE pc = "map"
      <4>1. LoadOK
        BY <1>1, <3>1 DEF JobOK, Loads
      <4>2. LoadOK'
        BY <1>2, <1>6, <2>1, <2>3, <2>8, <3>1, <4>1 DEF LoadOK, Live
      <4> QED
        BY <1>6, <3>1, <4>2 DEF JobOK, Loads
    <3>2. CASE pc = "stack"
      <4>1. LoadOK
        BY <1>1, <3>2 DEF JobOK, Loads
      <4>2. page \in StackBase .. StackTop /\ StackBase .. page - 1 \subseteq Mapped(d) /\ page < StackTop
        BY <1>2, <2>1, <3>2, <4>1 DEF LoadOK
      <4>3. page + 1 \in StackBase .. StackTop /\ StackBase .. (page + 1) - 1 \subseteq Mapped(d)'
        BY <2>6, <4>2, Sizes
      <4>4. StackBase .. job'.page - 1 \subseteq Mapped(job.dir)'
        BY <2>8, <4>3
      <4>5. LoadOK'
        BY <1>2, <1>6, <2>1, <2>3, <2>8, <3>2, <4>1, <4>3, <4>4 DEF LoadOK, Live
      <4> QED
        BY <1>6, <3>2, <4>5 DEF JobOK, Loads
    <3>3. CASE pc = "sbrk"
      <4>1. SbrkOK /\ current \in Live /\ procs[current].brk \in Nat /\ current # Nobody
        BY <1>1, <3>3 DEF JobOK, TypeOK, Process
      <4>2. PICK low : low = PageAbove(procs[current].brk)
        OBVIOUS
      <4>3. low \in Nat /\ page >= low /\ low .. page - 1 \subseteq Mapped(d)
        BY <2>1, <4>1, <4>2, PageType DEF SbrkOK
      <4>4. page + 1 >= low /\ low .. (page + 1) - 1 \subseteq Mapped(d)'
        BY <2>5, <2>6, <4>3
      <4>5. PageAbove(procs'[current'].brk) = low /\ procs'[current'].dir = d
        BY <1>2, <2>1, <4>1, <4>2 DEF SbrkOK
      <4>6. PageAbove(procs'[current'].brk) .. job'.page - 1 \subseteq Mapped(job.dir)'
        BY <2>8, <4>4, <4>5
      <4>7. SbrkOK'
        BY <2>8, <4>1, <4>4, <4>5, <4>6 DEF SbrkOK, BreakAllowed
      <4> QED
        BY <1>2, <1>6, <3>3, <4>1, <4>7 DEF JobOK, Loads
    <3> QED
      BY <1>2, <3>1, <3>2, <3>3
  <2>10. HeapExact'
    <3>1. Passing' = Passing
      BY <1>2, <1>6 DEF Passing
    <3> QED
      BY <1>1, <1>2, <1>6, <3>1, OwnedQuiet DEF HeapExact
  <2>11. WindowApart'
    <3> SUFFICES ASSUME NEW p \in Live \ {current}
                 PROVE  window' \notin FramesIn(procs[p].dir)'
      BY <1>2 DEF WindowApart, Live
    <3>1. PICK e : e = procs[p].dir
      OBVIOUS
    <3>2. e \in DOMAIN dirs /\ e # d
      <4>1. CASE pc = "sbrk"
        <5>1. d = procs[current].dir /\ current \in Live
          BY <1>1, <2>1, <4>1 DEF JobOK, SbrkOK, TypeOK
        <5> QED
          BY <1>1, <3>1, <5>1 DEF Standing
      <4>2. CASE pc # "sbrk"
        <5>1. LoadOK
          BY <1>1, <1>2, <4>2 DEF JobOK, Loads
        <5> QED
          BY <1>1, <2>1, <3>1, <5>1 DEF LoadOK, Standing
      <4> QED
        BY <4>1, <4>2
    <3>3. FramesIn(e)' = FramesIn(e)
      <4>1. dirs'[e] = dirs[e]
        BY <2>2, <3>2 DEF Gains
      <4>2. \A i \in DOMAIN dirs[e] : dirs[e][i] \in DOMAIN tables /\ dirs[e][i] # t
        <5>1. DOMAIN tables \subseteq used
          BY <1>1 DEF MemoryOK, KindsApart
        <5> QED
          BY <1>1, <2>2, <3>2, <5>1 DEF Gains, MemoryOK, TablesPlaced
      <4>3. \A i \in DOMAIN dirs[e] : tables'[dirs[e][i]] = tables[dirs[e][i]]
        BY <2>2, <4>2 DEF Gains
      <4> QED
        BY <4>1, <4>3, SameFrames
    <3>4. window \notin FramesIn(e)
      BY <1>1, <3>1 DEF WindowApart
    <3>5. procs'[p].dir = e /\ window' = window
      BY <1>2, <3>1
    <3> QED
      BY <3>3, <3>4, <3>5
  <2> QED
    BY <1>1, <1>2, <1>3, <1>6, <2>4, <2>7, <2>8, <2>9, <2>10, <2>11, Quiet DEF Places, Loads
<1> QED
  BY <1>5, <1>6, MapStep

-----------------------------------------------------------------------------
(* The stack of calls.                                                     *)

LEMMA ChainGrows ==
    ASSUME CallChain, NEW r, r \notin Live, Live' = Live \cup {r}, current' = r,
           procs'[r].parent = current, \A p \in Live : procs'[p].parent = procs[p].parent
    PROVE  CallChain'
<1>1. PICK n \in Nat : \E order \in [1 .. n -> Live] : CallOrder(n, order)
  BY DEF CallChain
<1>2. PICK order \in [1 .. n -> Live] : CallOrder(n, order)
  BY <1>1
<1>3. PICK m : m = n + 1
  OBVIOUS
<1>4. m \in Nat /\ m # 0 /\ 1 .. m = 1 .. n \cup {m} /\ m \notin 1 .. n
  BY <1>3
<1>5. PICK longer : longer = [i \in 1 .. m |-> IF i = m THEN r ELSE order[i]]
  OBVIOUS
<1>6. longer \in [1 .. m -> Live'] /\ longer[m] = r /\ \A i \in 1 .. n : longer[i] = order[i]
  BY <1>2, <1>4, <1>5
<1>7. /\ \A p \in Live : \E i \in 1 .. n : order[i] = p
      /\ \A i, j \in 1 .. n : order[i] = order[j] => i = j
      /\ \A i \in 1 .. n : procs[order[i]].parent = IF i = 1 THEN Nobody ELSE order[i - 1]
      /\ current = IF n = 0 THEN Nobody ELSE order[n]
  BY <1>2 DEF CallOrder
<1>8. \A p \in Live' : \E i \in 1 .. m : longer[i] = p
  BY <1>4, <1>6, <1>7
<1>9. \A i, j \in 1 .. m : longer[i] = longer[j] => i = j
  <2>1. \A i \in 1 .. n : order[i] # r
    BY <1>2
  <2> QED
    BY ONLY <1>4, <1>6, <1>7, <2>1
<1>10. ASSUME NEW i \in 1 .. m
       PROVE  procs'[longer[i]].parent = IF i = 1 THEN Nobody ELSE longer[i - 1]
  <2>1. CASE i = m
    <3>1. procs'[longer[i]].parent = current
      BY <1>6, <2>1
    <3>2. i = 1 => n = 0
      BY <1>3, <2>1
    <3>3. i # 1 => n # 0 /\ i - 1 = n /\ n \in 1 .. n
      BY <1>3, <2>1
    <3> QED
      BY <1>6, <1>7, <3>1, <3>2, <3>3
  <2>2. CASE i # m
    <3>1. i \in 1 .. n /\ (i # 1 => i - 1 \in 1 .. n)
      BY ONLY <1>3, <2>2, n \in Nat, i \in 1 .. m
    <3>2. procs'[longer[i]].parent = procs[order[i]].parent
      BY <1>2, <1>6, <3>1
    <3> QED
      BY <1>6, <1>7, <3>1, <3>2
  <2> QED
    BY <2>1, <2>2
<1>11. CallOrder(m, longer)'
  BY <1>4, <1>6, <1>8, <1>9, <1>10 DEF CallOrder
<1> QED
  BY <1>4, <1>6, <1>11 DEF CallChain

LEMMA ChainShrinks ==
    ASSUME CallChain, current \in Live, Live' = Live \ {current},
           current' = procs[current].parent,
           \A p \in Live : p # current => procs'[p].parent = procs[p].parent,
           Nobody \notin Live
    PROVE  CallChain' /\ current' \in Live' \cup {Nobody}
<1>1. PICK n \in Nat : \E order \in [1 .. n -> Live] : CallOrder(n, order)
  BY DEF CallChain
<1>2. PICK order \in [1 .. n -> Live] : CallOrder(n, order)
  BY <1>1
<1>3. /\ \A p \in Live : \E i \in 1 .. n : order[i] = p
      /\ \A i, j \in 1 .. n : order[i] = order[j] => i = j
      /\ \A i \in 1 .. n : procs[order[i]].parent = IF i = 1 THEN Nobody ELSE order[i - 1]
      /\ current = IF n = 0 THEN Nobody ELSE order[n]
  BY <1>2 DEF CallOrder
<1>4. n # 0 /\ n \in 1 .. n /\ current = order[n]
  BY <1>3
<1>5. PICK m : m = n - 1
  OBVIOUS
<1>6. m \in Nat /\ 1 .. n = 1 .. m \cup {n} /\ n \notin 1 .. m /\ (m = 0 <=> n = 1)
  BY <1>4, <1>5
<1>7. \A i \in 1 .. m : order[i] \in Live /\ order[i] # current /\ order[i] \in Live'
  BY <1>2, <1>3, <1>4, <1>6
<1>8. PICK shorter : shorter = [i \in 1 .. m |-> order[i]]
  OBVIOUS
<1>9. shorter \in [1 .. m -> Live'] /\ \A i \in 1 .. m : shorter[i] = order[i]
  BY <1>7, <1>8
<1>10. \A p \in Live' : \E i \in 1 .. m : shorter[i] = p
  BY <1>3, <1>4, <1>6, <1>9, ZenonT(40)
<1>11. \A i, j \in 1 .. m : shorter[i] = shorter[j] => i = j
  BY <1>3, <1>6, <1>9
<1>12. ASSUME NEW i \in 1 .. m
       PROVE  procs'[shorter[i]].parent = IF i = 1 THEN Nobody ELSE shorter[i - 1]
  <2>1. i \in 1 .. n /\ (i # 1 => i - 1 \in 1 .. m)
    BY <1>6
  <2>2. procs'[shorter[i]].parent = procs[order[i]].parent
    BY <1>7, <1>9
  <2> QED
    BY <1>3, <1>9, <2>1, <2>2
<1>13. current' = IF n = 1 THEN Nobody ELSE order[n - 1]
  BY <1>3, <1>4
<1>14. current' = IF m = 0 THEN Nobody ELSE shorter[m]
  <2>1. m # 0 => m \in 1 .. m
    BY <1>6
  <2> QED
    BY <1>5, <1>6, <1>9, <1>13, <2>1
<1>15. CallOrder(m, shorter)'
  BY <1>6, <1>9, <1>10, <1>11, <1>12, <1>14 DEF CallOrder
<1>16. m # 0 => m \in 1 .. m
  BY <1>6
<1> QED
  BY <1>6, <1>9, <1>14, <1>15, <1>16, SMTT(20) DEF CallChain

\* Nobody waits for the process that runs, and one child for every other one.
LEMMA ChainCounts ==
    ASSUME CallChain, Nobody \notin Live
    PROVE  /\ current = Nobody => Live = {}
           /\ \A p \in Live : Cardinality({q \in Live : procs[q].parent = p})
                                 = IF p = current THEN 0 ELSE 1
<1>1. PICK n \in Nat : \E order \in [1 .. n -> Live] : CallOrder(n, order)
  BY DEF CallChain
<1>2. PICK order \in [1 .. n -> Live] : CallOrder(n, order)
  BY <1>1
<1>3. /\ \A p \in Live : \E i \in 1 .. n : order[i] = p
      /\ \A i, j \in 1 .. n : order[i] = order[j] => i = j
      /\ \A i \in 1 .. n : procs[order[i]].parent = IF i = 1 THEN Nobody ELSE order[i - 1]
      /\ current = IF n = 0 THEN Nobody ELSE order[n]
  BY <1>2 DEF CallOrder
<1>4. current = Nobody => Live = {}
  <2>1. n # 0 => n \in 1 .. n /\ order[n] \in Live
    BY <1>2
  <2> QED
    BY <1>3, <2>1
<1>5. ASSUME NEW p \in Live
      PROVE  Cardinality({q \in Live : procs[q].parent = p}) = IF p = current THEN 0 ELSE 1
  <2>1. PICK k \in 1 .. n : order[k] = p
    BY <1>3
  <2>2. \A q \in Live : \E i \in 1 .. n : q = order[i] /\ (procs[q].parent = p <=> i = k + 1)
    <3> TAKE q \in Live
    <3>1. PICK i \in 1 .. n : order[i] = q
      BY <1>3
    <3>2. i = 1 => procs[q].parent # p /\ i # k + 1
      BY <1>3, <3>1
    <3>3. i # 1 => i - 1 \in 1 .. n /\ procs[q].parent = order[i - 1]
      BY <1>3, <3>1
    <3>4. i # 1 => (procs[q].parent = p <=> i - 1 = k)
      BY <1>3, <2>1, <3>3
    <3> QED
      BY <3>1, <3>2, <3>4
  <2>3. CASE k = n
    <3>1. p = current
      BY <1>3, <2>1, <2>3
    <3>2. {q \in Live : procs[q].parent = p} = {}
      BY <2>2, <2>3
    <3> QED
      BY <3>1, <3>2, FS_EmptySet
  <2>4. CASE k # n
    <3>1. k + 1 \in 1 .. n /\ n # 0 /\ n \in 1 .. n
      BY <2>4
    <3>2. p # current
      BY <1>3, <2>1, <2>4, <3>1
    <3>3. order[k + 1] \in Live /\ procs[order[k + 1]].parent = p
      BY <1>3, <2>1, <3>1, <1>2
    <3>4. {q \in Live : procs[q].parent = p} = {order[k + 1]}
      BY <2>2, <3>1, <3>3
    <3>5. Cardinality({order[k + 1]}) = 1
      BY FS_Singleton
    <3> QED
      BY <3>2, <3>4, <3>5
  <2> QED
    BY <2>3, <2>4
<1> QED
  BY <1>4, <1>5

-----------------------------------------------------------------------------
(* Processes begin and end.                                                *)

LEMMA NobodyIsNoRecord == Nobody \notin Records /\ (TypeOK => Nobody \notin Live)
  BY DEF Nobody, Records, TypeOK, Live

LEMMA ProcessExecuteInv ==
    ASSUME Inv, UNCHANGED machine, ProcessExecute
    PROVE  Inv'
<1>1. TypeOK /\ MemoryOK /\ Standing /\ JobOK /\ WindowApart /\ BreakMapped /\ HeapExact
  BY DEF Inv
<1>2. PICK r, d, brk, env, args :
          /\ r = job.record /\ d = job.dir /\ brk = job.brk
          /\ env = IF current = Nobody THEN {} ELSE procs[current].env
          /\ args = Strings(r, job.argc)
  OBVIOUS
<1>3. /\ UNCHANGED <<machine, window, dirs, tables>> /\ pc = "execute"
      /\ HeapGrowth("user")
      /\ heap' = (heap \cup {<<"kstack", r>>}) \ args
      /\ procs' = With(procs, r, [dir |-> d, parent |-> current, base |-> brk, brk |-> brk, env |-> env])
      /\ current' = r /\ cr3' = d /\ tss' = r /\ job' = NoJob
  BY <1>2 DEF ProcessExecute, CallerOf
<1>4. LoadOK /\ job \in Job
  BY <1>1, <1>3 DEF JobOK, TypeOK, Loads
<1>5. /\ r \in Records \ Live /\ <<"proc", r>> \in heap
      /\ d \in DOMAIN dirs /\ \A p \in Live : procs[p].dir # d
      /\ window = d
      /\ StackBase .. StackTop - 1 \subseteq Mapped(d)
      /\ brk \in Nat /\ brk <= Room /\ \E b \in Nat : brk = b * PageUnits
  BY <1>2, <1>3, <1>4 DEF LoadOK, Job
<1>6. /\ Live' = Live \cup {r} /\ \A p \in Live : procs'[p] = procs[p]
      /\ procs'[r] = [dir |-> d, parent |-> current, base |-> brk, brk |-> brk, env |-> env]
  BY <1>3, <1>5 DEF With, Live
<1>7. MemoryOK' /\ pc' \in {"user", "wrecked"}
  BY <1>1, <1>3, Growth, KernelGains
<1>8. \A e \in DOMAIN dirs : e \in DOMAIN dirs' /\ Mapped(e)' = Mapped(e)
  BY <1>3, MappedStands
<1>9. TypeOK'
  <2>1. ManagedFrames' = ManagedFrames /\ Records' = Records
    BY <1>3 DEF ManagedFrames, Records
  <2>2. d \in ManagedFrames
    BY <1>1, <1>5 DEF MemoryOK, KindsApart
  <2>3. env \subseteq machine.keys /\ current \in Records \cup {Nobody}
    <3>1. current \in Live \cup {Nobody} /\ Live \subseteq Records
      BY <1>1 DEF TypeOK, Live
    <3>2. current \in Live => procs[current] \in Process
      BY <1>1 DEF TypeOK
    <3>3. current \in Live => procs[current].env \subseteq machine.keys
      BY <3>2 DEF Process
    <3> QED
      BY <1>2, <3>1, <3>3
  <2>4. procs'[r] \in Process
    BY <1>5, <1>6, <2>2, <2>3 DEF Process
  <2>5. Process' = Process /\ Job' = Job
    BY <1>3, <2>1 DEF Process, Job
  <2>6. \A p \in Live' : procs'[p] \in Process
    BY <1>1, <1>6, <2>4 DEF TypeOK
  <2>7. DOMAIN procs' \subseteq Records
    BY <1>1, <1>5, <1>6 DEF TypeOK, Live
  <2> QED
    BY <1>1, <1>3, <1>6, <1>7, <2>1, <2>5, <2>6, <2>7, NoJobType DEF TypeOK, Places
<1>10. Standing'
  <2>1. CallChain'
    BY <1>1, <1>3, <1>5, <1>6, ChainGrows DEF Standing
  <2>2. \A o \in args : o[1] = "argv"
    BY <1>2, Tags
  <2>3. ASSUME NEW p \in Live'
        PROVE  <<"kstack", p>> \in heap' /\ <<"proc", p>> \in heap'
    BY <1>1, <1>3, <1>5, <1>6, <2>2, Tags DEF Standing
  <2>4. ASSUME NEW p \in Live'
        PROVE  /\ procs'[p].dir \in DOMAIN dirs'
               /\ StackBase .. StackTop - 1 \subseteq Mapped(procs[p].dir)'
               /\ \E b \in Nat : procs'[p].base = b * PageUnits
               /\ procs'[p].base <= Room
    <3>1. PICK e : e = procs'[p].dir
      OBVIOUS
    <3>2. /\ e \in DOMAIN dirs /\ StackBase .. StackTop - 1 \subseteq Mapped(e)
          /\ \E b \in Nat : procs'[p].base = b * PageUnits
          /\ procs'[p].base <= Room
      <4>1. CASE p = r
        BY <1>5, <1>6, <3>1, <4>1
      <4>2. CASE p # r
        <5>1. p \in Live /\ procs'[p] = procs[p]
          BY <1>6, <4>2
        <5> QED
          BY <1>1, <3>1, <5>1 DEF Standing
      <4> QED
        BY <4>1, <4>2
    <3>3. e \in DOMAIN dirs' /\ StackBase .. StackTop - 1 \subseteq Mapped(e)'
      BY <1>8, <3>2
    <3> QED
      BY <3>1, <3>2, <3>3
  <2>5. \A p, q \in Live' : procs'[p].dir = procs'[q].dir => p = q
    BY <1>1, <1>5, <1>6 DEF Standing
  <2>6. current' # Nobody /\ cr3' = procs'[current'].dir /\ tss' = current'
    BY <1>3, <1>5, <1>6, NobodyIsNoRecord
  <2> QED
    BY <2>1, <2>3, <2>4, <2>5, <2>6 DEF Standing
<1>11. JobOK'
  BY <1>3, <1>5, <1>7, NobodyIsNoRecord DEF JobOK, Loads
<1>12. BreakMapped'
  <2> SUFFICES ASSUME NEW p \in Live'
               PROVE  /\ procs'[p].brk = procs'[p].base \/ procs'[p].brk < StackBase * PageUnits
                      /\ \A address \in procs'[p].base .. procs'[p].brk - 1 :
                             address \div PageUnits \in Mapped(procs[p].dir)'
    BY DEF BreakMapped
  <2>1. CASE p = r
    <3>1. brk .. brk - 1 = {}
      BY <1>5
    <3> QED
      BY <1>6, <2>1, <3>1
  <2>2. CASE p # r
    <3>1. p \in Live /\ procs'[p] = procs[p]
      BY <1>6, <2>2
    <3>2. PICK e : e = procs[p].dir
      OBVIOUS
    <3>3. e \in DOMAIN dirs
      BY <1>1, <3>1, <3>2 DEF Standing
    <3>4. Mapped(e)' = Mapped(e)
      BY <1>8, <3>3
    <3>5. /\ procs[p].brk = procs[p].base \/ procs[p].brk < StackBase * PageUnits
          /\ \A address \in procs[p].base .. procs[p].brk - 1 : address \div PageUnits \in Mapped(e)
      BY <1>1, <3>1, <3>2 DEF BreakMapped
    <3>6. Mapped(procs[p].dir)' = Mapped(e)
      BY <3>1, <3>2, <3>4
    <3> QED
      BY <3>1, <3>5, <3>6
  <2> QED
    BY <2>1, <2>2
<1>13. HeapExact'
  <2>1. PICK inherited : inherited = EnvOf(r, env)
    OBVIOUS
  <2>2. inherited = Inherited(r)
    BY <1>2, <2>1 DEF Inherited, EnvOf
  <2>3. Passing = inherited \cup args /\ (pc' # "wrecked" => Passing' = {})
    BY <1>2, <1>3, <1>7, <2>2 DEF Passing
  <2>4. Owned' = Owned \cup {<<"kstack", r>>} \cup inherited
    <3>1. \A p \in Live : procs'[p].env = procs[p].env
      BY <1>6
    <3>2. procs'[r].env = env
      BY <1>6
    <3>3. \A o : o \in Owned' <=> \E p \in Live' : o = <<"kstack", p>> \/ o \in EnvOf(p, procs'[p].env)
      BY DEF Owned, EnvOf
    <3> QED
      BY <1>6, <2>1, <3>1, <3>2, <3>3, OwnedTags
  <2>5. \A o \in args : o[1] = "argv"
    BY <1>2, Tags
  <2>6. \A o \in inherited : o[1] = "env"
    BY <2>1, Tags
  <2>7. Owned \cap args = {} /\ inherited \cap args = {} /\ <<"kstack", r>> \notin args
    BY <2>5, <2>6, OwnedTags, Tags
  <2>8. {o \in heap : o[1] # "proc"} = Owned \cup inherited \cup args
    BY <1>1, <1>3, <2>3 DEF HeapExact
  <2>9. {o \in heap' : o[1] # "proc"} = Owned \cup inherited \cup {<<"kstack", r>>}
    BY ONLY <1>3, <2>5, <2>7, <2>8, Tags
  <2> QED
    BY <2>3, <2>4, <2>9 DEF HeapExact
<1>14. WindowApart'
  <2> SUFFICES ASSUME NEW p \in Live' \ {current'}
               PROVE  window' \notin FramesIn(procs[p].dir)'
    BY DEF WindowApart
  <2>1. p \in Live /\ procs'[p] = procs[p]
    BY <1>3, <1>6
  <2>2. PICK e : e = procs[p].dir
    OBVIOUS
  <2>3. e \in DOMAIN dirs /\ e # d
    BY <1>1, <1>5, <2>1, <2>2 DEF Standing
  <2>4. d \notin FramesIn(e)
    BY <1>1, <1>5, <2>3, FramesKnown
  <2>5. FramesIn(e)' = FramesIn(e)
    BY <1>3, SameFrames
  <2>6. procs'[p].dir = e /\ window' = d
    BY <1>3, <1>5, <2>1, <2>2
  <2> QED
    BY <2>4, <2>5, <2>6
<1> QED
  BY <1>7, <1>9, <1>10, <1>11, <1>12, <1>13, <1>14 DEF Inv

\* The end of a process leaves the other address spaces as they are.
LEMMA ExitSpaces ==
    ASSUME NEW dir \in DOMAIN dirs, MemoryOK, dirs' = Without(dirs, {dir}),
           tables' = Without(tables, TablesOf(dir))
    PROVE  \A e \in DOMAIN dirs : e # dir => /\ e \in DOMAIN dirs'
                                             /\ Mapped(e)' = Mapped(e) /\ Space(e)' = Space(e)
                                             /\ FramesIn(e)' = FramesIn(e)
<1> TAKE e \in DOMAIN dirs
<1> HAVE e # dir
<1>1. e \in DOMAIN dirs' /\ dirs'[e] = dirs[e]
  BY DEF Without
<1>2. \A i \in DOMAIN dirs[e] : dirs[e][i] \in DOMAIN tables /\ dirs[e][i] \notin TablesOf(dir)
  BY DEF MemoryOK, TablesPlaced, TablesOf
<1>3. \A i \in DOMAIN dirs[e] : tables'[dirs[e][i]] = tables[dirs[e][i]]
  BY <1>2 DEF Without
<1> QED
  BY <1>1, <1>3, SameSpace, SameFrames

LEMMA SysExitInv ==
    ASSUME Inv, UNCHANGED machine, SysExit
    PROVE  Inv'
<1>1. TypeOK /\ MemoryOK /\ Standing /\ JobOK /\ WindowApart /\ BreakMapped /\ HeapExact
  BY DEF Inv
<1>2. PICK r, dir, parent, freed :
          /\ r = current /\ dir = procs[r].dir /\ parent = procs[r].parent
          /\ freed = FreedAtExit(r)
  OBVIOUS
<1>3. /\ pc = "user" /\ UNCHANGED <<machine, window, kernel>>
      /\ used' = used \ Released(dir)
      /\ dirs' = Without(dirs, {dir}) /\ tables' = Without(tables, TablesOf(dir))
      /\ heap' = heap \ freed
      /\ procs' = Without(procs, {r})
      /\ current' = parent
      /\ cr3' = IF parent = Nobody THEN KernelDir ELSE procs[parent].dir
      /\ tss' = IF parent = Nobody THEN tss ELSE parent
      /\ pc' = "returned" /\ job' = [NoJob EXCEPT !.record = r]
  BY <1>2 DEF SysExit, StackFor
<1>4. r \in Live /\ r \in Records /\ Nobody \notin Live
  BY <1>1, <1>2, <1>3, NobodyIsNoRecord DEF JobOK, TypeOK, Live
<1>5. dir \in DOMAIN dirs /\ \A p \in Live : p # r => procs[p].dir # dir
  BY <1>1, <1>2, <1>4 DEF Standing
<1>6. Live' = Live \ {r} /\ \A p \in Live' : p \in Live /\ procs'[p] = procs[p]
  BY <1>3 DEF Without, Live
<1>7. MemoryOK'
  BY <1>1, <1>3, <1>5, ExitMemory
<1>8. \A e \in DOMAIN dirs : e # dir => e \in DOMAIN dirs' /\ Mapped(e)' = Mapped(e) /\ FramesIn(e)' = FramesIn(e)
  BY <1>1, <1>3, <1>5, ExitSpaces
<1>9. CallChain' /\ current' \in Live' \cup {Nobody}
  BY <1>1, <1>2, <1>3, <1>4, <1>6, ChainShrinks DEF Standing
<1>10. TypeOK'
  <2>1. ManagedFrames' = ManagedFrames /\ Records' = Records
    BY <1>3 DEF ManagedFrames, Records
  <2>2. Process' = Process /\ Job' = Job
    BY <1>3, <2>1 DEF Process, Job
  <2>3. job' \in Job
    BY <1>3, <1>4, NoJobType DEF Job
  <2>4. \A p \in Live' : procs'[p] \in Process
    BY <1>1, <1>6 DEF TypeOK
  <2>5. DOMAIN procs' \subseteq Records
    BY <1>1, <1>6 DEF TypeOK, Live
  <2> QED
    BY <1>1, <1>3, <1>9, <2>1, <2>2, <2>3, <2>4, <2>5 DEF TypeOK, Places
<1>11. Standing'
  <2>1. \A o \in freed : o = <<"kstack", r>> \/ o[1] = "env"
    BY <1>2, Tags DEF FreedAtExit
  <2>2. ASSUME NEW p \in Live'
        PROVE  <<"kstack", p>> \in heap' /\ <<"proc", p>> \in heap'
    <3>1. <<"kstack", p>> \in heap /\ <<"proc", p>> \in heap /\ p # r
      BY <1>1, <1>6 DEF Standing
    <3> QED
      BY <1>3, <2>1, <3>1, Tags
  <2>3. ASSUME NEW p \in Live'
        PROVE  /\ procs'[p].dir \in DOMAIN dirs'
               /\ StackBase .. StackTop - 1 \subseteq Mapped(procs[p].dir)'
               /\ \E b \in Nat : procs'[p].base = b * PageUnits
               /\ procs'[p].base <= Room
    <3>1. PICK e : e = procs[p].dir
      OBVIOUS
    <3>2. e \in DOMAIN dirs /\ e # dir /\ StackBase .. StackTop - 1 \subseteq Mapped(e)
      BY <1>1, <1>5, <1>6, <3>1 DEF Standing
    <3>3. e \in DOMAIN dirs' /\ StackBase .. StackTop - 1 \subseteq Mapped(e)'
      BY <1>8, <3>2
    <3>4. (\E b \in Nat : procs'[p].base = b * PageUnits) /\ procs'[p].base <= Room
      <4>1. p \in Live /\ procs'[p] = procs[p]
        BY <1>6
      <4> QED
        BY <1>1, <4>1 DEF Standing
    <3> QED
      BY <1>6, <3>1, <3>3, <3>4
  <2>4. \A p, q \in Live' : procs'[p].dir = procs'[q].dir => p = q
    BY <1>1, <1>6 DEF Standing
  <2>5. current' = Nobody => cr3' = KernelDir
    BY <1>3
  <2>6. current' # Nobody => cr3' = procs'[current'].dir /\ tss' = current'
    BY <1>3, <1>6, <1>9
  <2> QED
    BY <1>9, <2>2, <2>3, <2>4, <2>5, <2>6 DEF Standing
<1>12. JobOK'
  BY <1>3 DEF JobOK, NoJob, Loads
<1>13. BreakMapped'
  <2> SUFFICES ASSUME NEW p \in Live'
               PROVE  /\ procs'[p].brk = procs'[p].base \/ procs'[p].brk < StackBase * PageUnits
                      /\ \A address \in procs'[p].base .. procs'[p].brk - 1 :
                             address \div PageUnits \in Mapped(procs[p].dir)'
    BY DEF BreakMapped
  <2>1. p \in Live /\ p # r /\ procs'[p] = procs[p]
    BY <1>6
  <2>2. PICK e : e = procs[p].dir
    OBVIOUS
  <2>3. e \in DOMAIN dirs /\ e # dir
    BY <1>1, <1>5, <2>1, <2>2 DEF Standing
  <2>4. Mapped(e)' = Mapped(e)
    BY <1>8, <2>3
  <2>5. /\ procs[p].brk = procs[p].base \/ procs[p].brk < StackBase * PageUnits
        /\ \A address \in procs[p].base .. procs[p].brk - 1 : address \div PageUnits \in Mapped(e)
    BY <1>1, <2>1, <2>2 DEF BreakMapped
  <2>6. Mapped(procs[p].dir)' = Mapped(e)
    BY <2>1, <2>2, <2>4
  <2> QED
    BY <2>1, <2>5, <2>6
<1>14. HeapExact'
  <2>1. Passing = {} /\ Passing' = {}
    BY <1>3 DEF Passing
  <2>2. {o \in heap : o[1] # "proc"} = Owned
    BY <1>1, <1>3, <2>1 DEF HeapExact
  <2>3. PICK mine : mine = EnvOf(r, procs[r].env)
    OBVIOUS
  <2>4. freed = {<<"kstack", r>>} \cup mine
    BY <1>2, <2>3 DEF FreedAtExit
  <2>5. \A o : o \in Owned' <=> \E p \in Live' : o = <<"kstack", p>> \/ o \in EnvOf(p, procs[p].env)
    <3>1. \A o : o \in Owned' <=> \E p \in Live' : o = <<"kstack", p>> \/ o \in EnvOf(p, procs'[p].env)
      BY DEF Owned, EnvOf
    <3> QED
      BY <1>6, <3>1
  <2>6. Owned' = Owned \ freed
    <3>1. ASSUME NEW o \in Owned'
          PROVE  o \in Owned \ freed
      <4>1. PICK p \in Live' : o = <<"kstack", p>> \/ o \in EnvOf(p, procs[p].env)
        BY <2>5
      <4>2. p # r /\ p \in Live /\ o[2] = p
        BY <1>6, <4>1, Tags
      <4> QED
        BY <2>3, <2>4, <4>1, <4>2, Tags, OwnedTags
    <3>2. ASSUME NEW o \in Owned, o \notin freed
          PROVE  o \in Owned'
      <4>1. PICK p \in Live : o = <<"kstack", p>> \/ o \in EnvOf(p, procs[p].env)
        BY OwnedTags
      <4>2. p # r
        BY <2>3, <2>4, <3>2, <4>1
      <4> QED
        BY <1>6, <2>5, <4>1, <4>2
    <3> QED
      BY <3>1, <3>2
  <2>7. {o \in heap' : o[1] # "proc"} = Owned \ freed
    BY ONLY <1>3, <2>2
  <2> QED
    BY <2>1, <2>6, <2>7 DEF HeapExact
<1>15. WindowApart'
  <2>1. \A p \in Live' \ {current'} : p \in Live \ {current} /\ procs'[p].dir = procs[p].dir
    BY <1>2, <1>6
  <2>2. ASSUME NEW p \in Live' \ {current'}
        PROVE  \E e : e = procs[p].dir /\ FramesIn(e)' = FramesIn(e)
    <3>1. PICK e : e = procs[p].dir
      OBVIOUS
    <3>2. e \in DOMAIN dirs /\ e # dir
      BY <1>1, <1>2, <1>5, <2>1, <3>1 DEF Standing
    <3> QED
      BY <1>8, <3>1, <3>2
  <2> QED
    BY <1>1, <1>3, <2>1, <2>2, WindowStands
<1> QED
  BY <1>7, <1>10, <1>11, <1>12, <1>13, <1>14, <1>15 DEF Inv

LEMMA AfterExecuteInv ==
    ASSUME Inv, UNCHANGED machine, AfterExecute
    PROVE  Inv'
<1>1. TypeOK /\ MemoryOK /\ Standing /\ JobOK /\ WindowApart /\ BreakMapped /\ HeapExact
  BY DEF Inv
<1>2. /\ UNCHANGED <<machine, window, used, kernel, dirs, tables, procs, current>>
      /\ pc = "returned" /\ job' = NoJob
  BY DEF AfterExecute, memory
<1>3. \A d \in DOMAIN dirs : d \in DOMAIN dirs' /\ Mapped(d) \subseteq Mapped(d)'
  BY <1>2, MappedStands
<1>4. CallChain /\ Nobody \notin Live
  BY <1>1, NobodyIsNoRecord DEF Standing
<1>5. Passing = {}
  BY <1>2 DEF Passing
<1>6. CASE current = Nobody
  <2>1. /\ heap' = heap \ {<<"proc", job.record>>} /\ pc' = "prompt" /\ UNCHANGED <<cr3, tss>>
    BY <1>6 DEF AfterExecute
  <2>2. Live = {}
    BY <1>4, <1>6, ChainCounts
  <2>3. JobOK'
    BY <1>2, <1>6, <2>1 DEF JobOK, Loads
  <2>4. Passing' = {}
    BY <2>1 DEF Passing
  <2>5. HeapExact'
    BY <1>1, <1>2, <1>5, <2>1, <2>4, OwnedQuiet, Tags DEF HeapExact
  <2> QED
    BY <1>1, <1>2, <1>3, <2>1, <2>2, <2>3, <2>5, StillApart, Quiet, MemoryStands, NoJobType DEF Places
<1>7. CASE current # Nobody
  <2>1. cr3' = procs[current].dir /\ tss' = current /\ pc' = "user" /\ heap' = heap
    BY <1>7 DEF AfterExecute
  <2>2. UNCHANGED <<cr3, tss>>
    BY <1>1, <1>7, <2>1 DEF Standing
  <2>3. JobOK'
    BY <1>2, <1>7, <2>1 DEF JobOK, Loads
  <2>4. Passing' = {}
    BY <2>1 DEF Passing
  <2>5. HeapExact'
    BY <1>1, <1>2, <1>5, <2>1, <2>4, OwnedQuiet DEF HeapExact
  <2>6. \A p \in Live : <<"kstack", p>> \in heap' /\ <<"proc", p>> \in heap'
    BY <1>1, <2>1 DEF Standing
  <2> QED
    BY <1>1, <1>2, <1>3, <2>1, <2>2, <2>3, <2>5, <2>6, StillApart, Quiet, MemoryStands, NoJobType DEF Places
<1> QED
  BY <1>6, <1>7

-----------------------------------------------------------------------------
(* sbrk, setenv, unsetenv.                                                 *)

LEMMA SysSbrkInv ==
    ASSUME Inv, UNCHANGED machine, NEW increment \in machine.increments, SysSbrk(increment)
    PROVE  Inv'
<1>1. TypeOK /\ MemoryOK /\ Standing /\ JobOK /\ WindowApart /\ BreakMapped /\ HeapExact
  BY DEF Inv
<1>2. /\ UNCHANGED <<machine, window, used, kernel, dirs, tables, procs, current, cr3, tss, heap>>
      /\ pc = "user" /\ pc' = "sbrk"
  BY DEF SysSbrk, cpu, memory
<1>3. current # Nobody /\ current \in Live /\ procs[current] \in Process
  BY <1>1, <1>2 DEF JobOK, TypeOK
<1>4. PICK d, old, new : d = procs[current].dir /\ old = procs[current].brk /\ new = Word(old + increment)
  OBVIOUS
<1>5. /\ BreakAllowed(new)
      /\ job' = [NoJob EXCEPT !.dir = d, !.brk = new, !.page = PageAbove(old), !.end = PageAbove(new)]
  BY <1>4 DEF SysSbrk, NewPage
<1>6. d \in ManagedFrames /\ old \in Nat /\ new \in Nat
  <2>1. machine.increments \subseteq Int
    BY <1>1, ProcessesAssumption DEF TypeOK, MachineType
  <2>2. d \in ManagedFrames /\ old \in Nat
    BY <1>3, <1>4 DEF Process
  <2> QED
    BY <1>4, <2>1, <2>2, WordType
<1>7. PageAbove(old) \in Nat /\ PageAbove(new) \in Nat
  BY <1>6, PageType
<1>8. /\ job' \in Job /\ job'.dir = d /\ job'.brk = new
      /\ job'.page = PageAbove(old) /\ job'.end = PageAbove(new)
  BY <1>5, <1>6, <1>7, NoJobType DEF Job
<1>9. \A e \in DOMAIN dirs : e \in DOMAIN dirs' /\ Mapped(e) \subseteq Mapped(e)'
  BY <1>2, MappedStands
<1>10. JobOK'
  <2>1. PageAbove(procs'[current'].brk) = PageAbove(old) /\ procs'[current'].dir = d
    BY <1>2, <1>4
  <2>2. PageAbove(old) .. PageAbove(old) - 1 = {}
    BY <1>7
  <2>3. SbrkOK'
    BY <1>5, <1>7, <1>8, <2>1, <2>2 DEF SbrkOK, BreakAllowed
  <2> QED
    BY <1>2, <1>3, <2>3 DEF JobOK, Loads
<1>11. HeapExact'
  <2>1. Passing = {} /\ Passing' = {}
    BY <1>2 DEF Passing
  <2> QED
    BY <1>1, <1>2, <2>1, OwnedQuiet DEF HeapExact
<1>12. \A p \in Live : <<"kstack", p>> \in heap' /\ <<"proc", p>> \in heap'
  BY <1>1, <1>2 DEF Standing
<1> QED
  BY <1>1, <1>2, <1>8, <1>9, <1>10, <1>11, <1>12, StillApart, Quiet, MemoryStands DEF Places

\* An address in the last page the old break reached is in the page of the
\* byte before that break.
LEMMA LastPage ==
    ASSUME NEW base \in Nat, NEW b \in Nat, base = b * PageUnits, NEW old \in Nat,
           old <= Room, NEW address \in Nat, base <= address, old <= address,
           address \div PageUnits < PageAbove(old)
    PROVE  base <= old - 1 /\ (old - 1) \div PageUnits = address \div PageUnits
<1>1. PICK page : page = address \div PageUnits
  OBVIOUS
<1>2. page \in Nat /\ page * PageUnits < old
  BY <1>1, PageType, PageReached
<1>3. b <= page
  BY <1>1, Quotient, Sizes
<1>4. b * PageUnits <= page * PageUnits
  BY <1>2, <1>3, Sizes
<1>5. old - 1 \in Nat /\ base <= old - 1 /\ page * PageUnits <= old - 1
  BY <1>2, <1>4, Sizes
<1>6. page <= (old - 1) \div PageUnits
  BY <1>2, <1>5, Quotient, Sizes
<1>7. address < (page + 1) * PageUnits
  BY <1>1, Division, Sizes, SMT
<1>8. (old - 1) \div PageUnits <= page
  BY <1>2, <1>5, <1>7, Quotient, Sizes
<1> QED
  BY <1>1, <1>2, <1>5, <1>6, <1>8, PageType

LEMMA EndSbrkInv ==
    ASSUME Inv, UNCHANGED machine, EndSbrk
    PROVE  Inv'
<1>1. TypeOK /\ MemoryOK /\ Standing /\ JobOK /\ WindowApart /\ BreakMapped /\ HeapExact
  BY DEF Inv
<1>2. PICK r, brk, old, base, d :
          /\ r = current /\ brk = job.brk
          /\ old = procs[r].brk /\ base = procs[r].base /\ d = procs[r].dir
  OBVIOUS
<1>3. /\ UNCHANGED <<machine, window, used, kernel, dirs, tables, current, cr3, tss, heap>>
      /\ pc = "sbrk" /\ job.page >= job.end
      /\ procs' = [procs EXCEPT ![r].brk = brk] /\ pc' = "user" /\ job' = NoJob
  BY <1>2 DEF EndSbrk, cpu, memory
<1>4. r # Nobody /\ r \in Live /\ procs[r] \in Process /\ SbrkOK /\ job \in Job
  BY <1>1, <1>2, <1>3 DEF JobOK, TypeOK
<1>5. /\ d \in DOMAIN dirs /\ job.dir = d /\ \E b \in Nat : base = b * PageUnits
      /\ old <= Room /\ brk <= Room
      /\ brk \in Nat /\ old \in Nat /\ base \in Nat /\ brk < StackBase * PageUnits
      /\ job.page \in Nat /\ PageAbove(brk) <= job.page
      /\ PageAbove(old) .. job.page - 1 \subseteq Mapped(d)
  <2>1. d \in DOMAIN dirs /\ base <= Room /\ \E b \in Nat : base = b * PageUnits
    BY <1>1, <1>2, <1>4 DEF Standing
  <2>2. brk \in Nat /\ old \in Nat /\ base \in Nat /\ job.page \in Nat
    BY <1>2, <1>4 DEF Job, Process
  <2>3. old = base \/ old < StackBase * PageUnits
    BY <1>1, <1>2, <1>4 DEF BreakMapped
  <2>4. brk < StackBase * PageUnits
    BY <1>2, <1>4 DEF SbrkOK, BreakAllowed
  <2>5. old <= Room /\ brk <= Room
    BY <2>1, <2>2, <2>3, <2>4, Sizes
  <2>6. job.dir = d /\ PageAbove(brk) <= job.page /\ PageAbove(old) .. job.page - 1 \subseteq Mapped(d)
    BY <1>2, <1>3, <1>4, <2>2, PageType DEF SbrkOK
  <2> QED
    BY <2>1, <2>2, <2>4, <2>5, <2>6
<1>6. /\ Live' = Live
      /\ \A p \in Live : /\ procs'[p].dir = procs[p].dir /\ procs'[p].parent = procs[p].parent
                         /\ procs'[p].base = procs[p].base /\ procs'[p].env = procs[p].env
                         /\ p # r => procs'[p] = procs[p]
      /\ procs'[r].brk = brk /\ procs'[r] \in Process
  BY <1>3, <1>4, <1>5 DEF Live, Process
<1>7. \A e \in DOMAIN dirs : e \in DOMAIN dirs' /\ Mapped(e)' = Mapped(e) /\ Mapped(e) \subseteq Mapped(e)'
  BY <1>3, MappedStands
<1>8. MemoryOK'
  BY <1>1, <1>3, MemoryStands
<1>9. TypeOK'
  <2>1. ManagedFrames' = ManagedFrames /\ Records' = Records
    BY <1>3 DEF ManagedFrames, Records
  <2>2. Process' = Process /\ Job' = Job
    BY <1>3, <2>1 DEF Process, Job
  <2>3. \A p \in Live' : procs'[p] \in Process
    BY <1>1, <1>6 DEF TypeOK
  <2> QED
    BY <1>1, <1>3, <1>6, <2>1, <2>2, <2>3, NoJobType DEF TypeOK, Places, Live
<1>10. \A p \in Live : <<"kstack", p>> \in heap' /\ <<"proc", p>> \in heap'
  BY <1>1, <1>3 DEF Standing
<1>11. Standing'
  BY <1>1, <1>3, <1>6, <1>7, <1>10, ProcessesStand DEF TypeOK
<1>12. JobOK'
  BY <1>2, <1>3, <1>4 DEF JobOK, Loads
<1>13. \A address \in base .. brk - 1 : address \div PageUnits \in Mapped(d)
  <2> SUFFICES ASSUME NEW address \in base .. brk - 1
               PROVE  address \div PageUnits \in Mapped(d)
    OBVIOUS
  <2>1. address \in Nat /\ base <= address /\ address < brk
    BY <1>5
  <2>2. \A a \in base .. old - 1 : a \div PageUnits \in Mapped(d)
    BY <1>1, <1>2, <1>4 DEF BreakMapped
  <2>3. CASE address < old
    BY <1>5, <2>1, <2>2, <2>3
  <2>4. CASE old <= address /\ address \div PageUnits < PageAbove(old)
    <3>1. base <= old - 1 /\ (old - 1) \div PageUnits = address \div PageUnits
      BY <1>5, <2>1, <2>4, LastPage
    <3>2. old - 1 \in base .. old - 1
      BY <1>5, <3>1
    <3>3. (old - 1) \div PageUnits \in Mapped(d)
      BY <2>2, <3>2
    <3> QED
      BY <3>1, <3>3
  <2>5. CASE ~(address \div PageUnits < PageAbove(old))
    <3>1. /\ address \div PageUnits \in Nat /\ PageAbove(old) \in Nat /\ PageAbove(brk) \in Nat
          /\ address \div PageUnits < PageAbove(brk)
      BY <1>5, <2>1, PageType, PageBelow
    <3>2. address \div PageUnits \in PageAbove(old) .. job.page - 1
      BY <1>5, <2>5, <3>1
    <3> QED
      BY <1>5, <3>2
  <2> QED
    BY <1>5, <2>1, <2>3, <2>4, <2>5
<1>14. BreakMapped'
  <2> SUFFICES ASSUME NEW p \in Live
               PROVE  /\ procs'[p].brk = procs'[p].base \/ procs'[p].brk < StackBase * PageUnits
                      /\ \A address \in procs'[p].base .. procs'[p].brk - 1 :
                             address \div PageUnits \in Mapped(procs[p].dir)'
    BY <1>6 DEF BreakMapped
  <2>1. PICK e : e = procs[p].dir
    OBVIOUS
  <2>2. e \in DOMAIN dirs
    BY <1>1, <2>1 DEF Standing
  <2>3. Mapped(e)' = Mapped(e)
    BY <1>7, <2>2
  <2>4. Mapped(procs[p].dir)' = Mapped(e)
    BY <1>6, <2>1, <2>3
  <2>5. CASE p = r
    <3>1. e = d /\ procs'[p].base = base /\ procs'[p].brk = brk
      BY <1>2, <1>6, <2>1, <2>5
    <3> QED
      BY <1>5, <1>13, <2>4, <3>1
  <2>6. CASE p # r
    <3>1. procs'[p].base = procs[p].base /\ procs'[p].brk = procs[p].brk
      BY <1>6, <2>6
    <3>2. /\ procs[p].brk = procs[p].base \/ procs[p].brk < StackBase * PageUnits
          /\ \A address \in procs[p].base .. procs[p].brk - 1 : address \div PageUnits \in Mapped(e)
      BY <1>1, <2>1 DEF BreakMapped
    <3> QED
      BY <2>4, <3>1, <3>2
  <2> QED
    BY <2>5, <2>6
<1>15. HeapExact'
  <2>1. Passing = {} /\ Passing' = {}
    BY <1>3 DEF Passing
  <2> QED
    BY <1>1, <1>3, <1>6, <2>1, OwnedStands DEF HeapExact
<1>16. WindowApart'
  BY <1>1, <1>3, <1>6, WindowStill
<1> QED
  BY <1>8, <1>9, <1>11, <1>12, <1>14, <1>15, <1>16 DEF Inv

\* A step that changes the environment of the running process only.
LEMMA EnvironmentStep ==
    ASSUME Inv, NEW env \in SUBSET machine.keys, pc = "user",
           UNCHANGED <<machine, window, dirs, tables, current, cr3, tss, job>>,
           MemoryOK', pc' \in {"user", "wrecked"},
           procs' = [procs EXCEPT ![current].env = env],
           \A o \in heap : o[1] # "env" => o \in heap',
           HeapExact'
    PROVE  Inv'
<1>1. TypeOK /\ MemoryOK /\ Standing /\ JobOK /\ WindowApart /\ BreakMapped
  BY DEF Inv
<1>2. current # Nobody /\ current \in Live /\ procs[current] \in Process
  BY <1>1 DEF JobOK, TypeOK
<1>3. /\ Live' = Live
      /\ \A p \in Live : /\ procs'[p].dir = procs[p].dir /\ procs'[p].parent = procs[p].parent
                         /\ procs'[p].base = procs[p].base /\ procs'[p].brk = procs[p].brk
                         /\ p # current => procs'[p] = procs[p]
      /\ procs'[current] \in Process
  BY <1>2 DEF Live, Process
<1>4. \A d \in DOMAIN dirs : d \in DOMAIN dirs' /\ Mapped(d) \subseteq Mapped(d)'
  BY MappedStands
<1>5. TypeOK'
  <2>1. ManagedFrames' = ManagedFrames /\ Records' = Records
    BY DEF ManagedFrames, Records
  <2>2. Process' = Process /\ Job' = Job
    BY <2>1 DEF Process, Job
  <2>3. \A p \in Live' : procs'[p] \in Process
    BY <1>1, <1>3 DEF TypeOK
  <2> QED
    BY <1>1, <1>3, <2>1, <2>2, <2>3 DEF TypeOK, Places, Live
<1>6. \A p \in Live : <<"kstack", p>> \in heap' /\ <<"proc", p>> \in heap'
  BY <1>1, Tags DEF Standing
<1>7. Standing'
  BY <1>1, <1>3, <1>4, <1>6, ProcessesStand DEF TypeOK
<1>8. BreakMapped'
  BY <1>1, <1>3, <1>4, BreaksStand DEF Standing
<1>9. JobOK'
  BY <1>1, <1>2 DEF JobOK, Loads
<1>10. WindowApart'
  BY <1>1, <1>3, WindowStill
<1> QED
  BY <1>5, <1>7, <1>8, <1>9, <1>10 DEF Inv

LEMMA SysSetEnvInv ==
    ASSUME Inv, UNCHANGED machine, NEW key \in machine.keys, SysSetEnv(key)
    PROVE  Inv'
<1>1. TypeOK /\ MemoryOK /\ Standing /\ JobOK /\ WindowApart /\ BreakMapped /\ HeapExact
  BY DEF Inv
<1>2. PICK r, env, more : /\ r = current /\ env = procs[r].env \cup {key}
                          /\ more = EnvOf(r, {key})
  OBVIOUS
<1>3. /\ UNCHANGED <<machine, window, dirs, tables, current, cr3, tss, job>> /\ pc = "user"
      /\ heap' = heap \cup more /\ HeapGrowth("user")
      /\ procs' = [procs EXCEPT ![r].env = env]
  BY <1>2 DEF SysSetEnv, cpu, KMalloc
<1>4. MemoryOK' /\ pc' \in {"user", "wrecked"}
  BY <1>1, <1>3, Growth, KernelGains
<1>5. r \in Live /\ procs[r] \in Process
  BY <1>1, <1>2, <1>3 DEF JobOK, TypeOK
<1>6. env \in SUBSET machine.keys
  BY <1>2, <1>5 DEF Process
<1>7. HeapExact'
  <2>1. Passing = {} /\ (pc' # "wrecked" => Passing' = {})
    BY <1>3, <1>4 DEF Passing
  <2>2. /\ Live' = Live /\ \A p \in Live : p # r => procs'[p].env = procs[p].env
        /\ procs'[r].env = env
    BY <1>3, <1>5 DEF Live, Process
  <2>3. EnvOf(r, env) = EnvOf(r, procs[r].env) \cup more
    BY <1>2 DEF EnvOf
  <2>4. \A o : o \in Owned' <=> \E p \in Live : o = <<"kstack", p>> \/ o \in EnvOf(p, procs'[p].env)
    BY <2>2 DEF Owned, EnvOf
  <2>5. Owned' = Owned \cup more
    BY <1>5, <2>2, <2>3, <2>4, OwnedTags
  <2>6. \A o \in more : o[1] = "env"
    BY <1>2, Tags
  <2> QED
    BY <1>1, <1>3, <2>1, <2>5, <2>6 DEF HeapExact
<1> QED
  BY <1>2, <1>3, <1>4, <1>6, <1>7, EnvironmentStep

LEMMA SysUnsetEnvInv ==
    ASSUME Inv, UNCHANGED machine, NEW key \in machine.keys, SysUnsetEnv(key)
    PROVE  Inv'
<1>1. TypeOK /\ MemoryOK /\ Standing /\ JobOK /\ WindowApart /\ BreakMapped /\ HeapExact
  BY DEF Inv
<1>2. PICK r, env, less : /\ r = current /\ env = procs[r].env \ {key}
                          /\ less = EnvOf(r, {key})
  OBVIOUS
<1>3. /\ UNCHANGED <<machine, window, used, kernel, dirs, tables, current, cr3, tss, job>>
      /\ pc = "user" /\ pc' = "user"
      /\ heap' = heap \ less
      /\ procs' = [procs EXCEPT ![r].env = env]
  BY <1>2 DEF SysUnsetEnv, cpu, memory
<1>4. MemoryOK'
  BY <1>1, <1>3, MemoryStands
<1>5. r \in Live /\ procs[r] \in Process
  BY <1>1, <1>2, <1>3 DEF JobOK, TypeOK
<1>6. env \in SUBSET machine.keys
  BY <1>2, <1>5 DEF Process
<1>7. \A o \in less : o[1] = "env" /\ o[2] = r
  BY <1>2, Tags
<1>8. HeapExact'
  <2>1. Passing = {} /\ Passing' = {}
    BY <1>3 DEF Passing
  <2>2. /\ Live' = Live /\ \A p \in Live : p # r => procs'[p].env = procs[p].env
        /\ procs'[r].env = env
    BY <1>3, <1>5 DEF Live, Process
  <2>3. EnvOf(r, env) = EnvOf(r, procs[r].env) \ less
    BY <1>2 DEF EnvOf
  <2>4. \A o : o \in Owned' <=> \E p \in Live : o = <<"kstack", p>> \/ o \in EnvOf(p, procs'[p].env)
    BY <2>2 DEF Owned, EnvOf
  <2>5. Owned' = Owned \ less
    <3>1. ASSUME NEW o \in Owned' PROVE o \in Owned \ less
      <4>1. PICK p \in Live : o = <<"kstack", p>> \/ o \in EnvOf(p, procs'[p].env)
        BY <2>4
      <4>2. CASE p = r
        BY <1>5, <1>7, <2>2, <2>3, <4>1, <4>2, OwnedTags, Tags
      <4>3. CASE p # r
        BY <1>7, <2>2, <4>1, <4>3, OwnedTags, Tags
      <4> QED
        BY <4>2, <4>3
    <3>2. ASSUME NEW o \in Owned, o \notin less PROVE o \in Owned'
      <4>1. PICK p \in Live : o = <<"kstack", p>> \/ o \in EnvOf(p, procs[p].env)
        BY OwnedTags
      <4> QED
        BY <2>2, <2>3, <2>4, <3>2, <4>1
    <3> QED
      BY <3>1, <3>2
  <2> QED
    BY <1>1, <1>3, <2>1, <2>5 DEF HeapExact
<1>9. \A o \in heap : o[1] # "env" => o \in heap'
  BY <1>3, <1>7
<1> QED
  BY <1>2, <1>3, <1>4, <1>6, <1>8, <1>9, EnvironmentStep

-----------------------------------------------------------------------------
(* The invariant.                                                          *)

LEMMA InitInv == Init => Inv
<1> SUFFICES ASSUME Init PROVE Inv
  OBVIOUS
<1>1. /\ machine \in Machines /\ used = kernel /\ dirs = << >> /\ tables = << >>
      /\ heap = {} /\ procs = << >> /\ current = Nobody /\ cr3 = KernelDir
      /\ pc = "boot" /\ job = NoJob
  BY DEF Init
<1>2. DOMAIN dirs = {} /\ DOMAIN tables = {} /\ Live = {}
  BY <1>1 DEF Live
<1>3. TypeOK
  BY <1>1, <1>2, NoJobType DEF TypeOK, Places, Live
<1>4. MemoryOK
  <2>1. PICK f \in ManagedFrames : \E t \in ManagedFrames :
            /\ NextFrame(ManagedFrames, {f}, t) /\ kernel = {f, t}
    BY DEF Init
  <2>2. kernel \subseteq ManagedFrames
    BY <2>1
  <2> QED
    BY <1>1, <1>2, <2>2 DEF MemoryOK, KindsApart, TablesPlaced, PagesPlaced
<1>5. CallChain
  <2>1. PICK order : order = [i \in 1 .. 0 |-> i]
    OBVIOUS
  <2>2. order \in [1 .. 0 -> Live] /\ 1 .. 0 = {}
    BY <2>1
  <2>3. CallOrder(0, order)
    BY <1>1, <1>2, <2>2 DEF CallOrder
  <2> QED
    BY <2>2, <2>3 DEF CallChain
<1>6. Standing
  BY <1>1, <1>2, <1>5 DEF Standing
<1>7. JobOK
  BY <1>1 DEF JobOK, Loads
<1>8. BreakMapped
  BY <1>2 DEF BreakMapped
<1>9. HeapExact
  BY <1>1, <1>2 DEF HeapExact, Owned, Passing
<1>10. WindowApart
  BY <1>2 DEF WindowApart
<1> QED
  BY <1>3, <1>4, <1>6, <1>7, <1>8, <1>9, <1>10 DEF Inv

LEMMA StutterInv ==
    ASSUME Inv, UNCHANGED vars
    PROVE  Inv'
<1>1. TypeOK /\ MemoryOK /\ Standing /\ JobOK /\ WindowApart /\ BreakMapped /\ HeapExact
  BY DEF Inv
<1>2. UNCHANGED <<machine, window, used, kernel, dirs, tables, heap, procs, current, cr3, tss, pc, job>>
  BY DEF vars, memory, cpu
<1>3. \A d \in DOMAIN dirs : d \in DOMAIN dirs' /\ Mapped(d) \subseteq Mapped(d)'
  BY <1>2, MappedStands
<1>4. JobOK'
  BY <1>1, <1>2 DEF JobOK, LoadOK, SbrkOK, Mapped, Records, Live
<1>5. HeapExact'
  BY <1>1, <1>2 DEF HeapExact, Owned, Passing, Inherited, Strings, EnvOf, Live
<1>6. \A p \in Live : <<"kstack", p>> \in heap' /\ <<"proc", p>> \in heap'
  BY <1>1, <1>2 DEF Standing
<1> QED
  BY <1>1, <1>2, <1>3, <1>4, <1>5, <1>6, StillApart, Quiet, MemoryStands DEF TypeOK

LEMMA NextInv == Inv /\ [Next]_vars => Inv'
<1> SUFFICES ASSUME Inv, [Next]_vars PROVE Inv'
  OBVIOUS
<1>1. CASE Kernel
  <2>1. UNCHANGED machine
    BY <1>1 DEF Kernel
  <2>2. CASE \E image \in machine.images : ELFLoad(image)
    BY <2>1, <2>2, ELFLoadInv
  <2>3. CASE LoadSegment
    BY <2>1, <2>3, LoadSegmentInv
  <2>4. CASE ShortRead
    BY <2>1, <2>4, ShortReadInv
  <2>5. CASE MapNext
    BY <2>1, <2>5, MapNextInv
  <2>6. CASE EndSegment
    BY <2>1, <2>6, EndSegmentInv
  <2>7. CASE BeginStack
    BY <2>1, <2>7, BeginStackInv
  <2>8. CASE CreateRecord
    BY <2>1, <2>8, CreateRecordInv
  <2>9. CASE CopyArgs
    BY <2>1, <2>9, CopyArgsInv
  <2>10. CASE ProcessExecute
    BY <2>1, <2>10, ProcessExecuteInv
  <2>11. CASE AfterExecute
    BY <2>1, <2>11, AfterExecuteInv
  <2>12. CASE EndSbrk
    BY <2>1, <2>12, EndSbrkInv
  <2>13. CASE MapKernel
    BY <2>1, <2>13, MapKernelInv
  <2> QED
    BY <1>1, <2>2, <2>3, <2>4, <2>5, <2>6, <2>7, <2>8, <2>9, <2>10, <2>11, <2>12, <2>13 DEF Kernel
<1>2. CASE User
  <2>1. UNCHANGED machine
    BY <1>2 DEF User
  <2>2. CASE \E image \in machine.images : ELFLoad(image)
    BY <2>1, <2>2, ELFLoadInv
  <2>3. CASE SysExit
    BY <2>1, <2>3, SysExitInv
  <2>4. CASE \E increment \in machine.increments : SysSbrk(increment)
    BY <2>1, <2>4, SysSbrkInv
  <2>5. ASSUME NEW key \in machine.keys, SysSetEnv(key) \/ SysUnsetEnv(key)
        PROVE  Inv'
    BY <2>1, <2>5, SysSetEnvInv, SysUnsetEnvInv
  <2> QED
    BY <1>2, <2>2, <2>3, <2>4, <2>5 DEF User
<1>3. CASE Prompt \/ UNCHANGED vars
  BY <1>3, StutterInv DEF Prompt
<1> QED
  BY <1>1, <1>2, <1>3 DEF Next

LEMMA InvContextIntact == Inv => ContextIntact
<1> SUFFICES ASSUME Inv PROVE ContextIntact
  OBVIOUS
<1>1. TypeOK /\ Standing
  BY DEF Inv
<1>2. Nobody \notin Live /\ CallChain
  BY <1>1, NobodyIsNoRecord DEF Standing
<1>3. \A p \in Live : Cardinality({q \in Live : procs[q].parent = p}) = IF p = current THEN 0 ELSE 1
  BY <1>2, ChainCounts
<1> QED
  BY <1>1, <1>3 DEF Standing, ContextIntact

LEMMA Invariance == Spec => []Inv
<1>1. Init => Inv
  BY InitInv
<1>2. Inv /\ [Next]_vars => Inv'
  BY NextInv
<1> QED
  BY <1>1, <1>2, PTL DEF Spec

\* Every frame of a user part has one use and none that is in use can be
\* handed out, and the page all address spaces share, the directory loaded
\* last, is nothing of a process that waits: for any memory, whatever the
\* program headers hold, whatever is loaded, given up, run and released
\* (mm/memory.c:76-110, kernel/elf.c:11-21, kernel/process.c:12-19, 140-163).
THEOREM SpecIsolation == Spec => []Isolation
<1>1. Inv => Isolation
  BY MemoryIsolated DEF Inv, Isolation
<1> QED
  BY <1>1, Invariance, PTL

\* However many processes start one another, the CPU is set up for the one
\* that runs, all of them have what they need and each waits for one child
\* (kernel/syscall.c:21-64, 89-99, kernel/process.c:107-108).
THEOREM SpecContextIntact == Spec => []ContextIntact
  BY Invariance, InvContextIntact, PTL

\* Whatever the programs pass to sbrk, in whatever order, sums that wrap
\* included, and wherever their segments lie: what lies between the first
\* break and the present one is mapped, and a break that moved is below the
\* stack (kernel/syscall.c:160-181).
THEOREM SpecBreakMapped == Spec => []BreakMapped
<1>1. Inv => BreakMapped
  BY DEF Inv
<1> QED
  BY <1>1, Invariance, PTL

\* For any number of processes and any environments the kernel heap holds what
\* they own and what a load has allocated (kernel/syscall.c:68-102).
THEOREM SpecHeapExact == Spec => []HeapExact
<1>1. Inv => HeapExact
  BY DEF Inv
<1> QED
  BY <1>1, Invariance, PTL

-----------------------------------------------------------------------------
(* The refinement: every step is one of ProcessSpec, or changes nothing    *)
(* that ProcessSpec speaks of.                                             *)

LEMMA SpaceType ==
    ASSUME NEW d
    PROVE  DOMAIN Space(d) = Mapped(d) /\ Space(d) = [page \in Mapped(d) |-> Space(d)[page]]
  BY DEF Space

\* A frame is one page of one address space.
LEMMA SpaceFrames ==
    ASSUME MemoryOK, NEW d \in DOMAIN dirs, NEW e \in DOMAIN dirs, NEW a \in Mapped(d), NEW b \in Mapped(e)
    PROVE  /\ Space(d)[a] \in used \cup {NoFrame}
           /\ Space(d)[a] = Space(e)[b] /\ Space(d)[a] # NoFrame => d = e /\ a = b
<1>1. PICK i, j, k, l : i = EntryOf(a) /\ j = SlotOf(a) /\ k = EntryOf(b) /\ l = SlotOf(b)
  OBVIOUS
<1>2. PICK t, u : t = dirs[d][i] /\ u = dirs[e][k]
  OBVIOUS
<1>3. /\ i \in DOMAIN dirs[d] /\ j \in DOMAIN tables[t] /\ k \in DOMAIN dirs[e] /\ l \in DOMAIN tables[u]
      /\ a \in Nat /\ b \in Nat
  BY <1>1, <1>2 DEF Mapped
<1>4. Space(d)[a] = tables[t][j].frame /\ Space(e)[b] = tables[u][l].frame
  BY <1>1, <1>2 DEF Space
<1>5. t \in DOMAIN tables /\ u \in DOMAIN tables
  BY <1>2, <1>3 DEF MemoryOK, TablesPlaced
<1>6. tables[t][j].frame \in PageFrames \cup {NoFrame}
  BY <1>3, <1>5 DEF MemoryOK, PagesPlaced
<1>7. ASSUME Space(d)[a] = Space(e)[b], Space(d)[a] # NoFrame
      PROVE  d = e /\ a = b
  <2>1. t = u /\ j = l
    <3>1. \A v, w \in DOMAIN tables : \A m \in DOMAIN tables[v], n \in DOMAIN tables[w] :
              tables[v][m].frame = tables[w][n].frame /\ tables[v][m].frame # NoFrame
              => v = w /\ m = n
      BY DEF MemoryOK, PagesPlaced
    <3>2. tables[t][j].frame = tables[u][l].frame /\ tables[t][j].frame # NoFrame
      BY <1>4, <1>7
    <3> QED
      BY ONLY <1>3, <1>5, <3>1, <3>2
  <2>2. d = e /\ i = k
    <3>1. \A v, w \in DOMAIN dirs : \A m \in DOMAIN dirs[v], n \in DOMAIN dirs[w] :
              dirs[v][m] = dirs[w][n] => v = w /\ m = n
      BY DEF MemoryOK, TablesPlaced
    <3>2. dirs[d][i] = dirs[e][k] /\ i \in DOMAIN dirs[d] /\ k \in DOMAIN dirs[e]
      BY <1>2, <1>3, <2>1
    <3>3. d \in DOMAIN dirs /\ e \in DOMAIN dirs
      OBVIOUS
    <3> QED
      BY ONLY <3>1, <3>2, <3>3
  <2> QED
    BY <1>1, <1>3, <2>1, <2>2, PageOf
<1> QED
  BY <1>4, <1>6, <1>7 DEF PageFrames

LEMMA SpaceIs ==
    ASSUME NEW d \in DOMAIN dirs
    PROVE  SpaceOf[d] = Space(d)
  BY DEF SpaceOf

LEMMA SpacesNow ==
    ASSUME Standing, NEW p \in Live, NEW d, procs[p].dir = d
    PROVE  Spaces[p] = Space(d) /\ d \in DOMAIN dirs
<1>1. d \in DOMAIN dirs
  BY DEF Standing
<1>2. SpaceOf[d] = Space(d)
  BY <1>1, SpaceIs
<1>3. Spaces[p] = SpaceOf[procs[p].dir]
  BY DEF Spaces
<1> QED
  BY <1>1, <1>2, <1>3

LEMMA CallersIs ==
    DOMAIN Callers = Live /\ \A p \in Live : Callers[p] = procs[p].parent
  BY DEF Callers

\* What a process sees after a step, by what its directory holds.
LEMMA SpacesNext ==
    ASSUME NEW p \in Live', NEW d \in DOMAIN dirs', procs'[p].dir = d
    PROVE  Spaces'[p] = Space(d)'
<1>1. SpaceOf'[d] = Space(d)'
  BY DEF SpaceOf
<1>2. Spaces'[p] = SpaceOf'[procs'[p].dir]
  BY DEF Spaces
<1> QED
  BY <1>1, <1>2

LEMMA SpacesDomain == DOMAIN Spaces = Live /\ DOMAIN Spaces' = Live'
  BY DEF Spaces

\* The function of the spaces is given by its values.
LEMMA SpacesEach ==
    ASSUME NEW S, Live' = S, NEW g, g = [p \in S |-> g[p]], \A p \in S : Spaces'[p] = g[p]
    PROVE  Spaces' = g
<1>1. Spaces' = [p \in S |-> Spaces'[p]]
  BY DEF Spaces
<1> QED
  BY <1>1

\* What the processes see is what it was.
LEMMA AbstractStands ==
    ASSUME Standing, current' = current, Live' = Live, DOMAIN dirs \subseteq DOMAIN dirs',
           \A p \in Live : procs'[p].dir = procs[p].dir /\ procs'[p].parent = procs[p].parent,
           \A p \in Live : \A d \in DOMAIN dirs : d = procs[p].dir => Space(d)' = Space(d)
    PROVE  UNCHANGED <<current, Callers, Spaces>>
<1>1. ASSUME NEW p \in Live PROVE Spaces'[p] = Spaces[p]
  <2>1. PICK d : d = procs[p].dir
    OBVIOUS
  <2>2. Spaces[p] = Space(d) /\ d \in DOMAIN dirs
    BY <2>1, SpacesNow
  <2>3. Space(d)' = Space(d) /\ procs'[p].dir = d
    BY <2>1, <2>2
  <2>4. Spaces'[p] = Space(d)'
    BY <2>2, <2>3, SpacesNext
  <2> QED
    BY <2>2, <2>3, <2>4
<1>2. Spaces' = Spaces
  <2>1. PICK S, g : S = Live /\ g = Spaces
    OBVIOUS
  <2>2. g = [p \in S |-> g[p]]
    BY <2>1 DEF Spaces
  <2>3. Spaces' = g
    BY <1>1, <2>1, <2>2, SpacesEach
  <2> QED
    BY <2>1, <2>3
<1>3. Callers' = Callers
  BY DEF Callers
<1> QED
  BY <1>2, <1>3

LEMMA QuietAbstract ==
    ASSUME Inv, UNCHANGED <<current, dirs, tables>>, Live' = Live,
           \A p \in Live : procs'[p].dir = procs[p].dir /\ procs'[p].parent = procs[p].parent
    PROVE  UNCHANGED <<current, Callers, Spaces>>
  BY SameSpace, AbstractStands DEF Inv, Standing

LEMMA ELFLoadAbstract ==
    ASSUME Inv, NEW image, ELFLoad(image)
    PROVE  UNCHANGED <<current, Callers, Spaces>>
<1>1. TypeOK /\ MemoryOK /\ Standing
  BY DEF Inv
<1>2. UNCHANGED <<tables, procs, current>>
  BY DEF ELFLoad, cpu
<1>3. \A e \in DOMAIN dirs : dirs'[e] = dirs[e]
  <2>1. ASSUME NEW d, d \notin used, dirs' = With(dirs, d, << >>)
        PROVE  \A e \in DOMAIN dirs : dirs'[e] = dirs[e]
    BY <1>1, <2>1 DEF With, MemoryOK, KindsApart
  <2> QED
    BY <1>1, <2>1, Loaded
<1>4. \A e \in DOMAIN dirs : Space(e)' = Space(e)
  BY <1>2, <1>3, SameSpace
<1>5. DOMAIN dirs \subseteq DOMAIN dirs'
  <2>1. ASSUME NEW d, dirs' = With(dirs, d, << >>) PROVE DOMAIN dirs \subseteq DOMAIN dirs'
    BY <2>1 DEF With
  <2> QED
    BY <1>1, <2>1, Loaded
<1> QED
  BY <1>1, <1>2, <1>4, <1>5, AbstractStands DEF Standing, Live

LEMMA MapNextAbstract ==
    ASSUME Inv, MapNext
    PROVE  Abstract!Next \/ UNCHANGED <<current, Callers, Spaces>>
<1>1. TypeOK /\ MemoryOK /\ Standing /\ JobOK
  BY DEF Inv
<1>2. UNCHANGED <<procs, current>> /\ pc \in {"map", "stack", "sbrk"}
      /\ job.page < job.end /\ job.page < UserPages
  BY DEF MapNext, cpu
<1>3. Live' = Live /\ \A p \in Live : procs[p].dir \in DOMAIN dirs
  BY <1>1, <1>2 DEF Live, Standing
<1>4. CASE UNCHANGED <<dirs, tables>>
  BY <1>2, <1>3, <1>4, QuietAbstract
<1>6. ASSUME NEW t, NEW leaf, NEW d, NEW i, NEW j, Gains(d, i, j, t, leaf)
      PROVE  DOMAIN dirs' = DOMAIN dirs
  BY <1>6 DEF Gains
<1>5. ASSUME NEW t, NEW f,
             Gains(job.dir, EntryOf(job.page), SlotOf(job.page), t,
                   [frame |-> f, owner |-> pc # "sbrk"])
      PROVE  Abstract!Next \/ UNCHANGED <<current, Callers, Spaces>>
  <2>1. PICK d, page, leaf : /\ d = job.dir /\ page = job.page
                             /\ leaf = [frame |-> f, owner |-> pc # "sbrk"]
    OBVIOUS
  <2>2. Gains(d, EntryOf(page), SlotOf(page), t, leaf) /\ leaf.frame = f
    BY <1>5, <2>1
  <2>3. page \in 0 .. UserPages - 1 /\ (pc = "sbrk" => page < StackBase)
    BY <1>2, <2>1, PageInReach
  <2>4. /\ Space(d)' = [x \in Mapped(d) \cup {page} |-> IF x = page THEN f ELSE Space(d)[x]]
        /\ \A e \in DOMAIN dirs : e # d => Space(e)' = Space(e)
    <3>1. MemoryOK /\ Gains(d, EntryOf(page), SlotOf(page), t, leaf)
      BY <1>1, <2>2
    <3>2. /\ Mapped(d)' = Mapped(d) \cup {page}
          /\ Space(d)' = [x \in Mapped(d) \cup {page} |->
                              IF x = page THEN leaf.frame ELSE Space(d)[x]]
          /\ \A e \in DOMAIN dirs : e # d => Mapped(e)' = Mapped(e) /\ Space(e)' = Space(e)
      BY ONLY <2>3, <3>1, MapSpace
    <3>3. leaf.frame = f
      BY <2>1
    <3> QED
      BY <2>2, <3>2, <3>3
  <2>7. DOMAIN dirs' = DOMAIN dirs
    BY <1>6, <2>2
  <2>5. CASE pc # "sbrk"
    <3>1. \A p \in Live : procs[p].dir # d
      BY <1>1, <1>2, <2>1, <2>5 DEF JobOK, LoadOK, Loads
    <3>2. \A p \in Live : \A e \in DOMAIN dirs : e = procs[p].dir => Space(e)' = Space(e)
      BY <2>4, <3>1
    <3> QED
      BY <1>1, <1>2, <1>3, <2>7, <3>2, AbstractStands
  <2>6. CASE pc = "sbrk"
    <3>1. PICK r : r = current
      OBVIOUS
    <3>2. r \in Live /\ procs[r].dir = d
      BY <1>1, <2>1, <2>6, <3>1 DEF JobOK, SbrkOK, TypeOK
    <3>3. \A p \in Live : p # r => procs[p].dir # d
      BY <1>1, <3>2 DEF Standing
    <3>4. \A p \in Live : p # r => Spaces'[p] = Spaces[p]
      <4> TAKE p \in Live
      <4> HAVE p # r
      <4>1. PICK e : e = procs[p].dir
        OBVIOUS
      <4>2. Space(e)' = Space(e) /\ e \in DOMAIN dirs'
        BY <1>3, <2>7, <2>4, <3>3, <4>1
      <4>3. Spaces'[p] = Space(e)'
        BY <1>2, <1>3, <4>1, <4>2, SpacesNext
      <4> QED
        BY <1>1, <4>1, <4>2, <4>3, SpacesNow
    <3>5. Spaces'[r] = Space(d)'
      BY <1>2, <1>3, <2>7, <3>2, SpacesNext
    <3>7. PICK m, n : m = Space(d) /\ n = Space(d)'
      OBVIOUS
    <3>8. /\ Spaces[r] = m /\ DOMAIN m = Mapped(d)
          /\ n = [x \in DOMAIN m \cup {page} |-> IF x = page THEN f ELSE m[x]]
          /\ Spaces'[r] = n
      BY <1>1, <2>4, <3>2, <3>5, <3>7, SpaceType, SpacesNow
    <3>9. Spaces' = [Spaces EXCEPT ![r] = Abstract!With(@, page, f)]
      <4>1. n = Abstract!With(m, page, f)
        BY <3>8 DEF Abstract!With
      <4>2. PICK S, g : S = Live /\ g = [Spaces EXCEPT ![r] = n]
        OBVIOUS
      <4>3. g = [p \in S |-> g[p]] /\ \A p \in S : g[p] = IF p = r THEN n ELSE Spaces[p]
        BY <3>2, <4>2 DEF Spaces
      <4>4. Spaces' = g
        BY <1>3, <3>4, <3>8, <4>2, <4>3, SpacesEach
      <4> QED
        BY <3>8, <4>1, <4>2, <4>4
    <3>10. page \notin StackBase .. StackTop - 1
      BY <2>3, <2>6, Sizes
    <3>11. f \notin Abstract!Taken
      <4>1. f = NoFrame \/ f \notin used
        BY <2>2 DEF Gains
      <4>2. \A p \in Live : \A x \in DOMAIN Spaces[p] : Spaces[p][x] \in used \cup {NoFrame}
        <5> TAKE p \in Live
        <5>1. PICK e : e = procs[p].dir
          OBVIOUS
        <5>2. Spaces[p] = Space(e) /\ e \in DOMAIN dirs
          BY <1>1, <5>1, SpacesNow
        <5>3. \A x \in Mapped(e) : Space(e)[x] \in used \cup {NoFrame}
          BY <1>1, <5>2, SpaceFrames
        <5> QED
          BY <5>2, <5>3, SpaceType
      <4>3. \A p \in Live : Abstract!FramesOf(Spaces[p]) \subseteq used \ {NoFrame}
        <5> TAKE p \in Live
        <5>1. Abstract!FramesOf(Spaces[p]) = {Spaces[p][x] : x \in DOMAIN Spaces[p]} \ {NoFrame}
          BY DEF Abstract!FramesOf
        <5> QED
          BY <4>2, <5>1
      <4>4. \A x \in Abstract!Taken : \E p \in Live : x \in Abstract!FramesOf(Spaces[p])
        BY SpacesDomain DEF Abstract!Taken, Abstract!Live
      <4> QED
        BY <4>1, <4>3, <4>4
    <3>12. Callers' = Callers
      BY <1>2, <1>3 DEF Callers
    <3>13. Abstract!Map(page, f)
      BY <1>2, <3>1, <3>2, <3>9, <3>10, <3>11, <3>12, SpacesDomain DEF Abstract!Map, Abstract!Live
    <3>14. /\ current \in DOMAIN Spaces' /\ page \in DOMAIN Spaces'[current]
           /\ Spaces'[current][page] = f
      BY <1>3, <3>1, <3>2, <3>7, <3>8, SpacesDomain
    <3>15. Abstract!Next
      BY <3>13, <3>14 DEF Abstract!Next
    <3> QED
      BY <3>15
  <2> QED
    BY <2>5, <2>6
<1> QED
  BY <1>4, <1>5, MapStep

LEMMA ProcessExecuteAbstract ==
    ASSUME Inv, ProcessExecute
    PROVE  Abstract!Next
<1>1. TypeOK /\ MemoryOK /\ Standing /\ JobOK
  BY DEF Inv
<1>2. PICK r, d, brk, env :
          /\ r = job.record /\ d = job.dir /\ brk = job.brk
          /\ env = IF current = Nobody THEN {} ELSE procs[current].env
  OBVIOUS
<1>3. /\ UNCHANGED <<dirs, tables>> /\ pc = "execute"
      /\ procs' = With(procs, r, [dir |-> d, parent |-> current, base |-> brk, brk |-> brk, env |-> env])
      /\ current' = r
  BY <1>2 DEF ProcessExecute, CallerOf
<1>4. LoadOK
  BY <1>1, <1>3 DEF JobOK, Loads
<1>5. /\ r \notin Live /\ d \in DOMAIN dirs /\ \A p \in Live : procs[p].dir # d
      /\ StackBase .. StackTop - 1 \subseteq Mapped(d)
  BY <1>2, <1>3, <1>4 DEF LoadOK
<1>6. /\ Live' = Live \cup {r} /\ \A p \in Live : procs'[p] = procs[p]
      /\ procs'[r].dir = d /\ procs'[r].parent = current
  BY <1>3, <1>5 DEF With, Live
<1>7. \A e \in DOMAIN dirs : Space(e)' = Space(e)
  BY <1>3, SameSpace
<1>8. \A p \in Live : procs[p].dir \in DOMAIN dirs
  BY <1>1 DEF Standing
<1>9. PICK m : m = Space(d)
  OBVIOUS
<1>10. Spaces' = Abstract!With(Spaces, r, m)
  <2>1. \A p \in Live : Spaces'[p] = Spaces[p]
    <3> TAKE p \in Live
    <3>1. PICK e : e = procs[p].dir
      OBVIOUS
    <3>2. Space(e)' = Space(e) /\ e \in DOMAIN dirs /\ procs'[p].dir = e
      BY <1>6, <1>7, <1>8, <3>1
    <3>3. Spaces'[p] = Space(e)'
      BY <1>3, <1>6, <3>2, SpacesNext
    <3> QED
      BY <1>1, <3>1, <3>2, <3>3, SpacesNow
  <2>2. Spaces'[r] = m
    <3>1. Space(d)' = m
      BY <1>5, <1>7, <1>9
    <3>2. Spaces'[r] = Space(d)'
      BY <1>3, <1>5, <1>6, SpacesNext
    <3> QED
      BY <3>1, <3>2
  <2>3. PICK S, g : S = Live \cup {r} /\ g = Abstract!With(Spaces, r, m)
    OBVIOUS
  <2>4. g = [p \in S |-> g[p]] /\ \A p \in S : g[p] = IF p = r THEN m ELSE Spaces[p]
    BY <2>3, SpacesDomain DEF Abstract!With
  <2>5. Spaces' = g
    BY <1>6, <2>1, <2>2, <2>3, <2>4, SpacesEach
  <2> QED
    BY <2>3, <2>5
<1>11. Callers' = Abstract!With(Callers, r, current)
  BY <1>5, <1>6 DEF Callers, Abstract!With
<1>12. StackBase .. StackTop - 1 \subseteq DOMAIN m
  BY <1>5, <1>9, SpaceType
<1>13. \A a, b \in DOMAIN m : m[a] = m[b] /\ m[a] # NoFrame => a = b
  BY <1>1, <1>5, <1>9, SpaceType, SpaceFrames
<1>14. Abstract!FramesOf(m) \cap Abstract!Taken = {}
  <2> SUFFICES ASSUME NEW x \in Abstract!FramesOf(m), x \in Abstract!Taken PROVE FALSE
    OBVIOUS
  <2>1. PICK a \in DOMAIN m : x = m[a] /\ x # NoFrame
    BY DEF Abstract!FramesOf
  <2>2. PICK p \in Live : x \in Abstract!FramesOf(Spaces[p])
    BY SpacesDomain DEF Abstract!Taken, Abstract!Live
  <2>3. PICK e : e = procs[p].dir
    OBVIOUS
  <2>4. PICK b \in DOMAIN Space(e) : x = Space(e)[b]
    BY <1>1, <2>2, <2>3, SpacesNow DEF Abstract!FramesOf
  <2>5. d = e
    <3>1. a \in Mapped(d) /\ b \in Mapped(e) /\ Space(d)[a] = Space(e)[b] /\ Space(d)[a] # NoFrame
      BY <1>9, <2>1, <2>4, SpaceType
    <3>2. d \in DOMAIN dirs /\ e \in DOMAIN dirs
      BY <1>5, <1>8, <2>3
    <3> QED
      BY <1>1, <3>1, <3>2, SpaceFrames
  <2> QED
    BY <1>5, <2>3, <2>5
<1>15. Abstract!Start(r, m)
  BY <1>3, <1>5, <1>10, <1>11, <1>12, <1>13, <1>14, SpacesDomain DEF Abstract!Start, Abstract!Live
<1>16. r \in (DOMAIN Spaces') \ Abstract!Live /\ Spaces'[r] = m
  BY <1>5, <1>10, SpacesDomain DEF Abstract!With, Abstract!Live
<1> QED
  BY <1>15, <1>16 DEF Abstract!Next

LEMMA SysExitAbstract ==
    ASSUME Inv, SysExit
    PROVE  Abstract!Next
<1>1. TypeOK /\ MemoryOK /\ Standing /\ JobOK
  BY DEF Inv
<1>2. PICK r, dir : r = current /\ dir = procs[r].dir
  OBVIOUS
<1>3. /\ pc = "user"
      /\ dirs' = Without(dirs, {dir}) /\ tables' = Without(tables, TablesOf(dir))
      /\ procs' = Without(procs, {r}) /\ current' = procs[r].parent
  BY <1>2 DEF SysExit
<1>4. r \in Live
  BY <1>1, <1>2, <1>3 DEF JobOK, TypeOK
<1>5. dir \in DOMAIN dirs /\ \A p \in Live : p # r => procs[p].dir # dir /\ procs[p].dir \in DOMAIN dirs
  BY <1>1, <1>2, <1>4 DEF Standing
<1>6. Live' = Live \ {r} /\ \A p \in Live' : p \in Live /\ procs'[p] = procs[p]
  BY <1>3 DEF Without, Live
<1>7. \A p \in Live' : Spaces'[p] = Spaces[p]
  <2> TAKE p \in Live'
  <2>1. PICK e : e = procs[p].dir
    OBVIOUS
  <2>2. e \in DOMAIN dirs /\ e # dir
    BY <1>5, <1>6, <2>1
  <2>3. Space(e)' = Space(e) /\ e \in DOMAIN dirs'
    BY <1>1, <1>3, <1>5, <2>2, ExitSpaces
  <2>4. Spaces'[p] = Space(e)'
    BY <1>6, <2>1, <2>3, SpacesNext
  <2> QED
    BY <1>1, <1>6, <2>1, <2>3, <2>4, SpacesNow
<1>8. Spaces' = Abstract!Without(Spaces, r)
  <2>1. PICK S, g : S = Live \ {r} /\ g = Abstract!Without(Spaces, r)
    OBVIOUS
  <2>2. g = [p \in S |-> g[p]] /\ \A p \in S : g[p] = Spaces[p]
    BY <2>1, SpacesDomain DEF Abstract!Without
  <2>3. Spaces' = g
    BY <1>6, <1>7, <2>1, <2>2, SpacesEach
  <2> QED
    BY <2>1, <2>3
<1>9. Callers' = Abstract!Without(Callers, r)
  BY <1>6 DEF Callers, Abstract!Without
<1>10. Abstract!Exit
  BY <1>2, <1>3, <1>4, <1>8, <1>9, SpacesDomain, CallersIs DEF Abstract!Exit, Abstract!Live
<1> QED
  BY <1>10 DEF Abstract!Next

LEMMA InitAbstract == Init => Abstract!Init
<1> SUFFICES ASSUME Init PROVE Abstract!Init
  OBVIOUS
<1>1. current = Nobody /\ procs = << >>
  BY DEF Init
<1>2. Live = {}
  BY <1>1 DEF Live
<1>3. DOMAIN Callers = {} /\ DOMAIN Spaces = {}
  BY <1>2, SpacesDomain, CallersIs
<1>4. Callers = << >> /\ Spaces = << >>
  <2>1. PICK f : f = Callers
    OBVIOUS
  <2>2. f = [x \in {} |-> f[x]]
    BY <1>2, <2>1 DEF Callers
  <2>3. PICK g : g = Spaces
    OBVIOUS
  <2>4. g = [x \in {} |-> g[x]]
    BY <1>2, <2>3 DEF Spaces
  <2>5. \A h : h = [x \in {} |-> h[x]] => h = << >>
    OBVIOUS
  <2> QED
    BY <2>1, <2>2, <2>3, <2>4, <2>5
<1> QED
  BY <1>1, <1>4 DEF Abstract!Init

\* The steps of a load that touch only the heap, the frames and the job.
LEMMA LoadStepQuiet ==
    ASSUME \/ LoadSegment \/ ShortRead \/ MapKernel \/ EndSegment \/ BeginStack
           \/ CreateRecord \/ CopyArgs
    PROVE  UNCHANGED <<current, dirs, tables, procs>>
<1>1. ASSUME LoadSegment PROVE UNCHANGED <<current, dirs, tables, procs>>
  BY <1>1 DEF LoadSegment, cpu
<1>2. ASSUME ShortRead PROVE UNCHANGED <<current, dirs, tables, procs>>
  BY <1>2 DEF ShortRead, memory, cpu
<1>3. ASSUME EndSegment \/ BeginStack PROVE UNCHANGED <<current, dirs, tables, procs>>
  BY <1>3 DEF EndSegment, BeginStack, memory, cpu
<1>4. ASSUME CreateRecord PROVE UNCHANGED <<current, dirs, tables, procs>>
  BY <1>4 DEF CreateRecord, cpu
<1>5. ASSUME CopyArgs PROVE UNCHANGED <<current, dirs, tables, procs>>
  BY <1>5 DEF CopyArgs, cpu
<1>6. ASSUME MapKernel PROVE UNCHANGED <<current, dirs, tables, procs>>
  BY <1>6 DEF MapKernel, memory, cpu
<1> QED
  BY <1>1, <1>2, <1>3, <1>4, <1>5, <1>6

\* The ends of the system calls that change a break or an environment.
LEMMA CallQuiet ==
    ASSUME Inv, NEW key, EndSbrk \/ SysSetEnv(key) \/ SysUnsetEnv(key)
    PROVE  /\ UNCHANGED <<current, dirs, tables>> /\ Live' = Live
           /\ \A p \in Live : procs'[p].dir = procs[p].dir /\ procs'[p].parent = procs[p].parent
<1>1. TypeOK /\ \A p \in Live : procs[p] \in Process
  BY DEF Inv, TypeOK
<1>2. UNCHANGED <<current, dirs, tables>>
  BY DEF EndSbrk, SysSetEnv, SysUnsetEnv, memory, cpu
<1>3. PICK c : c = current
  OBVIOUS
<1>4. ASSUME NEW x, \/ procs' = [procs EXCEPT ![c].brk = x]
                    \/ procs' = [procs EXCEPT ![c].env = x]
      PROVE  /\ Live' = Live
             /\ \A p \in Live : procs'[p].dir = procs[p].dir /\ procs'[p].parent = procs[p].parent
  BY <1>1, <1>4 DEF Live, Process
<1>5. \E x : \/ procs' = [procs EXCEPT ![c].brk = x]
             \/ procs' = [procs EXCEPT ![c].env = x]
  BY <1>3 DEF EndSbrk, SysSetEnv, SysUnsetEnv
<1> QED
  BY <1>2, <1>4, <1>5

LEMMA NextAbstract == Inv /\ [Next]_vars => [Abstract!Next]_(Abstract!vars)
<1> SUFFICES ASSUME Inv, [Next]_vars
             PROVE  Abstract!Next \/ UNCHANGED <<current, Callers, Spaces>>
  BY DEF Abstract!vars
<1>1. ASSUME UNCHANGED <<current, dirs, tables, procs>>
      PROVE  UNCHANGED <<current, Callers, Spaces>>
  BY <1>1, QuietAbstract DEF Live
<1>2. ASSUME NEW key, EndSbrk \/ SysSetEnv(key) \/ SysUnsetEnv(key)
      PROVE  UNCHANGED <<current, Callers, Spaces>>
  BY <1>2, CallQuiet, QuietAbstract
<1>3. CASE Kernel
  <2>1. CASE \E image \in machine.images : ELFLoad(image)
    BY <2>1, ELFLoadAbstract
  <2>2. CASE \/ LoadSegment \/ ShortRead \/ MapKernel \/ EndSegment \/ BeginStack
             \/ CreateRecord \/ CopyArgs
    BY <1>1, <2>2, LoadStepQuiet
  <2>3. CASE MapNext
    BY <2>3, MapNextAbstract
  <2>4. CASE ProcessExecute
    BY <2>4, ProcessExecuteAbstract
  <2>5. CASE AfterExecute
    <3>1. UNCHANGED <<current, dirs, tables, procs>>
      BY <2>5 DEF AfterExecute, memory
    <3> QED
      BY <1>1, <3>1
  <2>6. CASE EndSbrk
    BY <1>2, <2>6
  <2> QED
    BY <1>3, <2>1, <2>2, <2>3, <2>4, <2>5, <2>6 DEF Kernel
<1>4. CASE User
  <2>1. CASE \E image \in machine.images : ELFLoad(image)
    BY <2>1, ELFLoadAbstract
  <2>2. CASE SysExit
    BY <2>2, SysExitAbstract
  <2>3. CASE \E increment \in machine.increments : SysSbrk(increment)
    <3>1. UNCHANGED <<current, dirs, tables, procs>>
      BY <2>3 DEF SysSbrk, memory, cpu
    <3> QED
      BY <1>1, <3>1
  <2>4. CASE \E key \in machine.keys : SysSetEnv(key) \/ SysUnsetEnv(key)
    BY <1>2, <2>4
  <2> QED
    BY <1>4, <2>1, <2>2, <2>3, <2>4 DEF User
<1>5. CASE Prompt \/ UNCHANGED vars
  <2>1. UNCHANGED <<current, dirs, tables, procs>>
    BY <1>5 DEF Prompt, vars, memory, cpu
  <2> QED
    BY <1>1, <2>1
<1> QED
  BY <1>3, <1>4, <1>5 DEF Next

\* Whatever the kernel does in between, programs see a stack of processes,
\* each with memory of its own that lasts until it exits: a child gets frames
\* that nobody has, and its caller goes on with the memory it had
\* (kernel/process.c:29-163, kernel/syscall.c:21-104, 160-181).
THEOREM SpecImplements == Spec => Implements
<1>1. Init => Abstract!Init
  BY InitAbstract
<1>2. Inv /\ [Next]_vars => [Abstract!Next]_(Abstract!vars)
  BY NextAbstract
<1> QED
  BY <1>1, <1>2, Invariance, PTL DEF Spec, Implements, Abstract!Spec

-----------------------------------------------------------------------------
(* When the machine is Tidy: where every frame is, and which pages are     *)
(* mapped.                                                                 *)

Accounted ==
    /\ DOMAIN dirs = {procs[p].dir : p \in Live} \cup Loading
    /\ \A f \in used \ lent :
           \/ f \in kernel \cup DOMAIN dirs \cup DOMAIN tables
           \/ \E t \in DOMAIN tables : \E s \in DOMAIN tables[t] : tables[t][s].frame = f
    /\ \A t \in DOMAIN tables : \A s \in DOMAIN tables[t] :
           tables[t][s].owner \/ tables[t][s].frame \in lent \cup {NoFrame}

Stack == StackBase .. StackTop - 1

\* No page of a process lies between its break and its stack.
BreaksTight ==
    \A p \in Live :
        Mapped(procs[p].dir) \subseteq
            Stack \cup 0 .. (IF pc = "sbrk" /\ p = current THEN job.page
                                                           ELSE PageAbove(procs[p].brk)) - 1

\* The break a process begins with is at most this.
Low == (StackBase - 1) * PageUnits
Plain(s) == s.kind # "short" /\ s.file # 0 /\ s.at + s.size < Low

\* What a load has not mapped yet.
Unmapped(from) ==
    /\ \A i \in DOMAIN job.segments : Plain(job.segments[i])
    /\ \A i, j \in DOMAIN job.segments :
           PagesIn(job.segments[i]) \cap PagesIn(job.segments[j]) # {} => i = j
    /\ \A i \in DOMAIN job.segments : i >= from => PagesIn(job.segments[i]) \cap Mapped(job.dir) = {}

LoadTight ==
    /\ pc # "short"
    /\ pc \in Loads => job.brk <= Low
    /\ pc = "segment" => /\ Unmapped(1)
                         /\ Mapped(job.dir) \subseteq 0 .. PageAbove(job.brk) - 1
    /\ pc = "map" => /\ Unmapped(2)
                     /\ job.page .. job.end - 1 \cap Mapped(job.dir) = {}
                     /\ job.page .. job.end - 1 \subseteq PagesIn(Head(job.segments))
                     /\ Mapped(job.dir) \subseteq
                            0 .. PageAbove(job.brk) - 1 \cup PagesIn(Head(job.segments))
    /\ pc = "stack" => Mapped(job.dir) \subseteq
                           0 .. PageAbove(job.brk) - 1 \cup StackBase .. job.page - 1
    /\ pc \in {"args", "execute"} => Mapped(job.dir) \subseteq 0 .. PageAbove(job.brk) - 1 \cup Stack

SbrkTight == pc = "sbrk" => job.page <= job.end

Tight == Accounted /\ BreaksTight /\ LoadTight /\ SbrkTight

\* The breaks of the processes.
BreaksLow == \A p \in Live : procs[p].brk < StackBase * PageUnits

LEMMA PageOrders ==
    ASSUME NEW x \in Nat, NEW y \in Nat, x <= y, y <= Room
    PROVE  PageAbove(x) <= PageAbove(y)
<1>1. PageAbove(x) = (x + PageUnits - 1) \div PageUnits /\ PageAbove(y) = (y + PageUnits - 1) \div PageUnits
  BY Sizes, PageExact
<1>2. (PageAbove(x) * PageUnits <= x + PageUnits - 1) /\ PageAbove(x) \in Int
  BY <1>1, Sizes, Division
<1>3. PageAbove(x) * PageUnits <= y + PageUnits - 1
  BY <1>2, Sizes
<1>4. PageAbove(x) <= (y + PageUnits - 1) \div PageUnits
  <2>1. PICK a, k : a = y + PageUnits - 1 /\ k = PageAbove(x)
    OBVIOUS
  <2>2. a \in Int /\ k \in Int /\ k * PageUnits <= a
    BY <1>2, <1>3, <2>1, Sizes
  <2>3. k <= a \div PageUnits
    BY <2>2, Sizes, Quotient
  <2> QED
    BY <2>1, <2>3
<1> QED
  BY <1>1, <1>4

\* Rounding a break up gives it no other pages.
LEMMA PageRounded ==
    ASSUME NEW k \in Nat, k <= UserPages
    PROVE  PageAbove(k * PageUnits) = k
<1>1. k * PageUnits \in Nat /\ k * PageUnits <= Room
  BY Sizes, SMT DEF Room
<1>2. PageAbove(k * PageUnits) <= k
  BY <1>1, PageBound
<1>3. k * PageUnits <= k * PageUnits + PageUnits - 1
  BY <1>1, Sizes
<1>4. k <= (k * PageUnits + PageUnits - 1) \div PageUnits
  BY <1>1, <1>3, Quotient, Sizes
<1> QED
  BY <1>1, <1>2, <1>4, PageType, PageExact

LEMMA LowType == /\ Low \in Nat /\ Low <= Room /\ Low < StackBase * PageUnits
                 /\ StackBase - 1 \in Nat /\ StackBase - 1 <= UserPages
<1>1. StackBase - 1 \in Nat /\ StackBase - 1 <= UserPages /\ PageUnits \in Nat \ {0}
  BY Sizes
<1>2. Low \in Nat /\ Low < StackBase * PageUnits
  BY <1>1, Sizes, SMT DEF Low
<1> QED
  BY <1>1, <1>2, Sizes

LEMMA PlainPages ==
    ASSUME NEW s \in Headers, Plain(s)
    PROVE  /\ s.at + s.size \in Nat /\ s.at + s.size <= Low /\ Word(s.at + s.size) = s.at + s.size
           /\ s.at \div PageUnits \in Nat /\ PageAbove(s.at + s.size) \in Nat
<1>1. s.at \in Nat /\ s.size \in Nat /\ s.at + s.size < Low
  BY HeaderType DEF Plain
<1>2. s.at + s.size \in Nat /\ s.at + s.size < AddressSize
  BY <1>1, LowType, Sizes
<1>3. Word(s.at + s.size) = s.at + s.size
  BY <1>2, WordSmall
<1> QED
  BY <1>1, <1>3, LowType, HeaderType

LEMMA KernelIsNoDirectory == TypeOK /\ MemoryOK => KernelDir \notin DOMAIN dirs
  BY ManagedIsMemory DEF KernelDir, MemoryOK, KindsApart

\* What the bound on an image means for a load.
LEMMA LoadBreak ==
    ASSUME TypeOK, LoadTight, pc \in Loads
    PROVE  job.brk \in Nat /\ PageAbove(job.brk) \in Nat /\ PageAbove(job.brk) < StackBase
<1>1. job.brk \in Nat /\ job.brk <= Low
  BY DEF TypeOK, Job, LoadTight
<1>2. job.brk <= (StackBase - 1) * PageUnits /\ job.brk <= Room
  <2>1. job.brk <= Low /\ job.brk <= Room
    BY <1>1, LowType, Sizes
  <2> QED
    BY <2>1 DEF Low
<1>3. PageAbove(job.brk) \in Nat /\ PageAbove(job.brk) <= StackBase - 1
  BY <1>1, <1>2, LowType, PageType, PageBound
<1> QED
  BY <1>1, <1>3, Sizes

\* New frames of the kernel are accounted for.
LEMMA AccountedStands ==
    ASSUME Accounted, UNCHANGED <<dirs, tables, lent>>, kernel \subseteq kernel', used' \subseteq used \cup kernel',
           {procs[p].dir : p \in Live}' \cup Loading' = {procs[p].dir : p \in Live} \cup Loading
    PROVE  Accounted'
  BY DEF Accounted

LEMMA DirsStand ==
    ASSUME Live' = Live, \A p \in Live : procs'[p].dir = procs[p].dir
    PROVE  {procs[p].dir : p \in Live}' = {procs[p].dir : p \in Live}
  OBVIOUS

LEMMA LoadingStands ==
    ASSUME UNCHANGED dirs, job'.dir = job.dir \/ (job.dir = KernelDir /\ job'.dir = KernelDir)
    PROVE  Loading' = Loading
  BY DEF Loading

LEMMA BreaksTightStand ==
    ASSUME Standing, BreaksTight, pc # "sbrk", pc' # "sbrk", Live' = Live,
           \A p \in Live : procs'[p].dir = procs[p].dir /\ procs'[p].brk = procs[p].brk,
           \A p \in Live : \A d \in DOMAIN dirs : d = procs[p].dir => Mapped(d)' = Mapped(d)
    PROVE  BreaksTight'
<1> SUFFICES ASSUME NEW p \in Live
             PROVE  Mapped(procs[p].dir)' \subseteq Stack \cup 0 .. PageAbove(procs'[p].brk) - 1
  BY DEF BreaksTight, Stack, PageAbove, Word
<1>1. PICK d : d = procs[p].dir
  OBVIOUS
<1>2. d \in DOMAIN dirs /\ Mapped(d)' = Mapped(d)
  BY <1>1 DEF Standing
<1>3. Mapped(procs[p].dir)' = Mapped(d)
  BY <1>1, <1>2
<1>4. Mapped(d) \subseteq Stack \cup 0 .. PageAbove(procs[p].brk) - 1
  BY <1>1 DEF BreaksTight
<1> QED
  BY <1>3, <1>4

\* Nothing of the next segments is mapped when the first one is done.
LEMMA UnmappedTail ==
    ASSUME job \in Job, job.segments # << >>, Unmapped(2),
           job'.segments = Tail(job.segments), Mapped(job.dir)' = Mapped(job.dir)
    PROVE  Unmapped(1)'
<1>1. PICK s, n, m, rest : /\ s = job.segments /\ n = Len(job.segments) /\ m = Mapped(job.dir)
                           /\ rest = Tail(job.segments)
  OBVIOUS
<1>2. /\ n \in Nat \ {0} /\ DOMAIN s = 1 .. n /\ DOMAIN rest = 1 .. n - 1
      /\ \A i \in 1 .. n - 1 : rest[i] = s[i + 1] /\ i + 1 \in 1 .. n
  BY <1>1, Remaining
<1>3. /\ \A i \in 1 .. n : Plain(s[i])
      /\ \A i, j \in 1 .. n : PagesIn(s[i]) \cap PagesIn(s[j]) # {} => i = j
      /\ \A i \in 1 .. n : i >= 2 => PagesIn(s[i]) \cap m = {}
  BY <1>1, <1>2 DEF Unmapped
<1>4. \A i \in DOMAIN rest : Plain(rest[i])
  BY <1>2, <1>3
<1>5. \A i, j \in DOMAIN rest : PagesIn(rest[i]) \cap PagesIn(rest[j]) # {} => i = j
  BY <1>2, <1>3
<1>6. \A i \in DOMAIN rest : i >= 1 => PagesIn(rest[i]) \cap m = {}
  BY <1>2, <1>3
<1>7. job'.segments = rest /\ Mapped(job.dir)' = m
  BY <1>1
<1> QED
  BY <1>4, <1>5, <1>6, <1>7 DEF Unmapped, Plain, PagesIn, PageAbove, Word

LEMMA ELFLoadTight ==
    ASSUME Inv, Tidy, Tight, NEW image \in machine.images, UNCHANGED machine, ELFLoad(image), pc' # "wrecked"
    PROVE  Tight'
<1>1. TypeOK /\ MemoryOK /\ Standing /\ JobOK /\ Accounted /\ BreaksTight
  BY DEF Inv, Tight
<1>2. UNCHANGED <<machine, tables, lent, heap, procs, current>> /\ pc \in {"boot", "user"} /\ job = NoJob
  BY <1>1 DEF ELFLoad, cpu, JobOK
<1>3. PICK d : /\ pc' = "segment" /\ d \notin used
               /\ used' = used \cup {d} \cup kernel'
               /\ dirs' = With(dirs, d, << >>)
               /\ job' = [NoJob EXCEPT !.dir = d, !.segments = image]
  BY <1>1, Loaded
<1>4. kernel \subseteq kernel'
  BY <1>1, Loaded
<1>5. /\ DOMAIN dirs' = DOMAIN dirs \cup {d} /\ DOMAIN dirs'[d] = {}
      /\ \A e \in DOMAIN dirs : dirs'[e] = dirs[e]
      /\ d \notin DOMAIN dirs
  BY <1>1, <1>3 DEF With, MemoryOK, KindsApart
<1>6. job'.dir = d /\ job'.segments = image /\ job'.brk = 0 /\ job.dir = KernelDir
  BY <1>2, <1>3 DEF NoJob
<1>7. Accounted'
  <2>1. Loading = {} /\ Loading' = {d}
    BY <1>1, <1>5, <1>6, KernelIsNoDirectory DEF Loading
  <2>2. {procs[p].dir : p \in Live}' = {procs[p].dir : p \in Live}
    BY <1>2, DirsStand DEF Live
  <2>3. DOMAIN dirs' = {procs[p].dir : p \in Live}' \cup Loading'
    BY <1>1, <1>5, <2>1, <2>2 DEF Accounted
  <2>4. \A f \in used' \ lent' :
           \/ f \in kernel' \cup DOMAIN dirs' \cup DOMAIN tables'
           \/ \E t \in DOMAIN tables' : \E s \in DOMAIN tables'[t] : tables'[t][s].frame = f
    BY <1>1, <1>2, <1>3, <1>4, <1>5 DEF Accounted
  <2> QED
    BY <1>1, <1>2, <2>3, <2>4 DEF Accounted
<1>8. BreaksTight'
  <2>1. \A e \in DOMAIN dirs : Mapped(e)' = Mapped(e)
    BY <1>2, <1>5, SameSpace
  <2> QED
    BY <1>1, <1>2, <1>3, <2>1, BreaksTightStand DEF Live
<1>9. LoadTight'
  <2>1. Mapped(d)' = {}
    BY <1>5 DEF Mapped
  <2>2. Mapped(job.dir)' = {}
    BY <1>6, <2>1
  <2>3. /\ \A i \in DOMAIN image : Plain(image[i])
        /\ \A i, j \in DOMAIN image : PagesIn(image[i]) \cap PagesIn(image[j]) # {} => i = j
    BY DEF Tidy, Sound, Plain, Low
  <2>4. Unmapped(1)'
    BY <1>6, <2>2, <2>3 DEF Unmapped, Plain, PagesIn, PageAbove, Word
  <2> QED
    BY <1>3, <1>6, <2>2, <2>4, LowType DEF LoadTight, Loads
<1> QED
  BY <1>3, <1>7, <1>8, <1>9 DEF Tight, SbrkTight

LEMMA LoadSegmentTight ==
    ASSUME Inv, Tidy, Tight, UNCHANGED machine, LoadSegment, pc' # "wrecked"
    PROVE  Tight'
<1>1. TypeOK /\ MemoryOK /\ Standing /\ JobOK /\ Accounted /\ BreaksTight /\ LoadTight
  BY DEF Inv, Tight
<1>2. /\ UNCHANGED <<machine, dirs, tables, lent, procs, current>>
      /\ pc = "segment" /\ job.segments # << >> /\ job \in Job /\ LoadOK
  BY <1>1 DEF LoadSegment, cpu, TypeOK, JobOK, Loads
<1>3. PICK s : s = Head(job.segments)
  OBVIOUS
<1>4. s \in Headers /\ s = job.segments[1] /\ 1 \in DOMAIN job.segments
  BY <1>2, <1>3, Remaining
<1>5. Unmapped(1) /\ Mapped(job.dir) \subseteq 0 .. PageAbove(job.brk) - 1
  BY <1>1, <1>2 DEF LoadTight
<1>6. Plain(s) /\ job.brk <= Low
  BY <1>1, <1>2, <1>4, <1>5 DEF Unmapped, LoadTight, Loads
<1>7. {procs[p].dir : p \in Live}' = {procs[p].dir : p \in Live}
  BY <1>2, DirsStand DEF Live
<1>8. \A d \in DOMAIN dirs : Mapped(d)' = Mapped(d)
  BY <1>2, MappedStands
<1>9. PICK d : d = job.dir
  OBVIOUS
<1>10. Mapped(d)' = Mapped(d)
  BY <1>2, <1>8, <1>9 DEF LoadOK
<1>11. Unmapped(2)
  <2>1. \A i \in DOMAIN job.segments : i >= 2 => i >= 1
    BY <1>2, Remaining
  <2> QED
    BY <1>5, <2>1 DEF Unmapped
<1>12. CASE /\ job' = [job EXCEPT !.segments = Tail(@)]
            /\ UNCHANGED <<used, kernel, heap, pc>>
  <2>1. job'.segments = Tail(job.segments) /\ job'.dir = d /\ job'.brk = job.brk
    BY <1>2, <1>9, <1>12 DEF Job
  <2>2. Mapped(job.dir)' = Mapped(job.dir)
    BY <1>9, <1>10, <2>1
  <2>4. Unmapped(1)'
    BY <1>2, <1>11, <2>1, <2>2, UnmappedTail
  <2>5. LoadTight'
    BY <1>2, <1>5, <1>6, <1>12, <2>1, <2>2, <2>4 DEF LoadTight, PageAbove, Word
  <2>6. Accounted'
    BY <1>1, <1>2, <1>7, <1>9, <1>12, <2>1, AccountedStands, LoadingStands
  <2>7. BreaksTight'
    BY <1>1, <1>2, <1>8, <1>12, BreaksTightStand DEF Live
  <2> QED
    BY <1>2, <1>12, <2>5, <2>6, <2>7 DEF Tight, SbrkTight
<1>13. CASE /\ s.kind # "other"
            /\ KMalloc({<<"kbuf">>}, IF s.kind = "load" THEN "map" ELSE "short")
            /\ job' = [job EXCEPT !.page = s.at \div PageUnits, !.end = PageAbove(s.at + s.size)]
  <2>1. HeapGrowth("map")
    <3>1. s.kind = "load"
      BY <1>4, <1>6, <1>13 DEF Plain, Headers, Kinds
    <3> QED
      BY <1>13, <3>1 DEF KMalloc
  <2>2. pc' = "map" /\ kernel \subseteq kernel' /\ used' \subseteq used \cup kernel'
    BY <1>1, <2>1, Growth
  <2>3. /\ job'.segments = job.segments /\ job'.dir = d /\ job'.brk = job.brk
        /\ job'.page = s.at \div PageUnits /\ job'.end = PageAbove(s.at + s.size)
    BY <1>2, <1>9, <1>13 DEF Job
  <2>4. Mapped(job.dir)' = Mapped(job.dir)
    BY <1>9, <1>10, <2>3
  <2>5. Unmapped(2)'
    BY <1>11, <2>3, <2>4 DEF Unmapped, Plain, PagesIn, PageAbove, Word
  <2>6. job'.page .. job'.end - 1 = PagesIn(s)
    BY <2>3 DEF PagesIn
  <2>7. PagesIn(s) \cap Mapped(job.dir) = {}
    BY <1>4, <1>5 DEF Unmapped
  <2>8. PagesIn(Head(job.segments))' = PagesIn(s)
    BY <1>3, <2>3 DEF PagesIn, PageAbove, Word
  <2>9. PageAbove(job.brk)' = PageAbove(job.brk)
    BY <2>3 DEF PageAbove, Word
  <2>10. LoadTight'
    BY <1>5, <1>6, <2>2, <2>3, <2>4, <2>5, <2>6, <2>7, <2>8, <2>9 DEF LoadTight
  <2>11. Accounted'
    BY <1>1, <1>2, <1>7, <1>9, <2>2, <2>3, AccountedStands, LoadingStands
  <2>12. BreaksTight'
    BY <1>1, <1>2, <1>8, <2>2, BreaksTightStand DEF Live
  <2> QED
    BY <2>2, <2>10, <2>11, <2>12 DEF Tight, SbrkTight
<1> QED
  BY <1>3, <1>6, <1>12, <1>13 DEF LoadSegment, Plain

LEMMA EndSegmentTight ==
    ASSUME Inv, Tidy, Tight, UNCHANGED machine, EndSegment, pc' # "wrecked"
    PROVE  Tight'
<1>1. TypeOK /\ MemoryOK /\ Standing /\ JobOK /\ Accounted /\ BreaksTight /\ LoadTight
  BY DEF Inv, Tight
<1>2. PICK s, d : s = Head(job.segments) /\ d = job.dir
  OBVIOUS
<1>3. /\ UNCHANGED <<machine, used, kernel, dirs, tables, lent, procs, current>>
      /\ pc = "map" /\ pc' = "segment"
      /\ job' = [job EXCEPT !.segments = Tail(@), !.brk = Larger(Word(s.at + s.size), @)]
  BY <1>2 DEF EndSegment, cpu, memory, Following, Wreck
<1>4. job \in Job /\ LoadOK /\ job.segments # << >>
  BY <1>1, <1>3 DEF TypeOK, JobOK, Loads, LoadOK
<1>5. s \in Headers /\ Plain(s) /\ job.brk <= Low
  <2>1. s \in Headers /\ s = job.segments[1] /\ 1 \in DOMAIN job.segments
    BY <1>2, <1>4, Remaining
  <2> QED
    BY <1>1, <1>3, <2>1 DEF LoadTight, Unmapped, Loads
<1>6. /\ s.at + s.size \in Nat /\ PageAbove(s.at + s.size) \in Nat /\ s.at \div PageUnits \in Nat
      /\ s.at + s.size <= Low /\ Word(s.at + s.size) = s.at + s.size
  BY <1>5, PlainPages
<1>7. PICK brk : brk = Larger(s.at + s.size, job.brk)
  OBVIOUS
<1>8. job'.segments = Tail(job.segments) /\ job'.dir = d /\ job'.brk = brk
  BY <1>2, <1>3, <1>4, <1>6, <1>7 DEF Job
<1>9. /\ brk \in Nat /\ job.brk \in Nat /\ job.brk <= brk /\ s.at + s.size <= brk
      /\ brk <= Low /\ brk <= Room
  <2>1. job.brk \in Nat
    BY <1>4 DEF Job
  <2>2. PICK a, b : a = s.at + s.size /\ b = job.brk
    OBVIOUS
  <2>3. a \in Nat /\ b \in Nat /\ a <= Low /\ b <= Low /\ brk = IF a > b THEN a ELSE b
    BY <1>5, <1>6, <1>7, <2>1, <2>2 DEF Larger
  <2>4. brk \in Nat /\ b <= brk /\ a <= brk /\ brk <= Low /\ brk <= Room
    BY <2>3, LowType, Sizes
  <2> QED
    BY <2>2, <2>3, <2>4
<1>10. PageAbove(brk) \in Nat /\ PageAbove(job.brk) <= PageAbove(brk) /\ PageAbove(s.at + s.size) <= PageAbove(brk)
  BY <1>6, <1>9, PageOrders, PageType
<1>11. \A e \in DOMAIN dirs : Mapped(e)' = Mapped(e)
  BY <1>3, MappedStands
<1>12. Mapped(job.dir)' = Mapped(job.dir)
  <2>1. Mapped(d)' = Mapped(d)
    BY <1>2, <1>4, <1>11 DEF LoadOK
  <2> QED
    BY <1>2, <1>8, <2>1
<1>13. Unmapped(1)'
  BY <1>1, <1>3, <1>4, <1>8, <1>12, UnmappedTail DEF LoadTight
<1>14. Mapped(job.dir) \subseteq 0 .. PageAbove(brk) - 1
  <2>1. Mapped(job.dir) \subseteq 0 .. PageAbove(job.brk) - 1 \cup PagesIn(s)
    BY <1>1, <1>2, <1>3 DEF LoadTight
  <2>2. PageAbove(job.brk) \in Nat
    BY <1>9, PageType
  <2> QED
    BY <1>6, <1>10, <2>1, <2>2 DEF PagesIn
<1>15. PageAbove(job.brk)' = PageAbove(brk)
  BY <1>8 DEF PageAbove, Word
<1>16. LoadTight'
  BY <1>3, <1>8, <1>9, <1>12, <1>13, <1>14, <1>15 DEF LoadTight
<1>17. Accounted'
  BY <1>1, <1>2, <1>3, <1>8, AccountedStands, LoadingStands, DirsStand DEF Live
<1>18. BreaksTight'
  BY <1>1, <1>3, <1>11, BreaksTightStand DEF Live
<1> QED
  BY <1>3, <1>16, <1>17, <1>18 DEF Tight, SbrkTight

LEMMA BeginStackTight ==
    ASSUME Inv, Tidy, Tight, UNCHANGED machine, BeginStack
    PROVE  Tight'
<1>1. TypeOK /\ MemoryOK /\ Standing /\ JobOK /\ Accounted /\ BreaksTight /\ LoadTight
  BY DEF Inv, Tight
<1>2. PICK d, k : d = job.dir /\ k = PageAbove(job.brk)
  OBVIOUS
<1>3. /\ UNCHANGED <<machine, used, kernel, dirs, tables, lent, procs, current>>
      /\ pc = "segment" /\ pc' = "stack"
      /\ job' = [job EXCEPT !.brk = k * PageUnits, !.page = StackBase, !.end = StackTop]
  BY <1>2 DEF BeginStack, cpu, memory
<1>4. job \in Job /\ LoadOK
  BY <1>1, <1>3 DEF TypeOK, JobOK, Loads
<1>5. job'.dir = d /\ job'.brk = k * PageUnits /\ job'.page = StackBase
  BY <1>2, <1>3, <1>4 DEF Job
<1>6. k \in Nat /\ PageAbove(k * PageUnits) = k /\ k * PageUnits <= Low
  <2>1. k \in Nat /\ k <= StackBase - 1
    BY <1>1, <1>2, <1>3, LoadBreak, Sizes DEF Loads
  <2>2. k <= UserPages
    BY <2>1, LowType, Sizes
  <2>3. k * PageUnits <= Low
    BY <2>1, LowType, Sizes, SMT DEF Low
  <2> QED
    BY <2>1, <2>2, <2>3, PageRounded
<1>7. \A e \in DOMAIN dirs : Mapped(e)' = Mapped(e)
  BY <1>3, MappedStands
<1>8. Mapped(job.dir)' = Mapped(job.dir)
  <2>1. Mapped(d)' = Mapped(d)
    BY <1>2, <1>4, <1>7 DEF LoadOK
  <2> QED
    BY <1>2, <1>5, <2>1
<1>9. Mapped(job.dir) \subseteq 0 .. k - 1
  BY <1>1, <1>2, <1>3 DEF LoadTight
<1>10. PageAbove(job.brk)' = k
  BY <1>5, <1>6 DEF PageAbove, Word
<1>11. LoadTight'
  BY <1>3, <1>5, <1>6, <1>8, <1>9, <1>10 DEF LoadTight
<1>12. Accounted'
  BY <1>1, <1>2, <1>3, <1>5, AccountedStands, LoadingStands, DirsStand DEF Live
<1>13. BreaksTight'
  BY <1>1, <1>3, <1>7, BreaksTightStand DEF Live
<1> QED
  BY <1>3, <1>11, <1>12, <1>13 DEF Tight, SbrkTight

\* The loops map no page twice: the page that is next has no frame to lose.
LEMMA MapFresh ==
    ASSUME Inv, Tight, pc \in {"map", "stack", "sbrk"}, job.page < job.end, job.page < UserPages
    PROVE  job.page \notin Mapped(job.dir)
<1>1. TypeOK /\ JobOK /\ BreaksTight /\ LoadTight
  BY DEF Inv, Tight
<1>2. job.page \in Nat /\ job.end \in Nat
  BY <1>1 DEF TypeOK, Job
<1>3. CASE pc = "map"
  BY <1>1, <1>2, <1>3 DEF LoadTight
<1>4. CASE pc = "stack"
  <2>1. LoadOK
    BY <1>1, <1>4 DEF JobOK, Loads
  <2>2. Mapped(job.dir) \subseteq 0 .. PageAbove(job.brk) - 1 \cup StackBase .. job.page - 1
    BY <1>1, <1>4 DEF LoadTight
  <2>3. PageAbove(job.brk) \in Nat /\ PageAbove(job.brk) < StackBase
    BY <1>1, <1>4, LoadBreak DEF Loads
  <2>4. job.page >= StackBase
    BY <1>2, <1>4, <2>1 DEF LoadOK
  <2> QED
    BY <1>2, <2>2, <2>3, <2>4, Sizes
<1>5. CASE pc = "sbrk"
  <2>1. SbrkOK /\ current \in Live
    BY <1>1, <1>5 DEF JobOK, TypeOK
  <2>2. Mapped(job.dir) \subseteq Stack \cup 0 .. job.page - 1
    BY <1>1, <1>5, <2>1 DEF BreaksTight, SbrkOK
  <2>3. job.page < StackBase
    BY <1>5, PageInReach
  <2> QED
    BY <1>2, <2>2, <2>3, Sizes DEF Stack
<1> QED
  BY <1>3, <1>4, <1>5

LEMMA MapNextTight ==
    ASSUME Inv, Tidy, Tight, UNCHANGED machine, MapNext, pc' # "wrecked"
    PROVE  Tight'
<1>1. TypeOK /\ MemoryOK /\ Standing /\ JobOK /\ Accounted /\ BreaksTight /\ LoadTight /\ SbrkTight
  BY DEF Inv, Tight
<1>2. /\ UNCHANGED <<machine, kernel, heap, procs, current, cr3, tss>>
      /\ pc \in {"map", "stack", "sbrk"} /\ job.page < job.end /\ job.page < UserPages
  BY DEF MapNext, cpu
<1>3. PICK t, f : /\ pc' = pc /\ job' = [job EXCEPT !.page = @ + 1]
                  /\ lent' = IF pc = "sbrk" THEN Marked(lent, f) ELSE lent
                  /\ Gains(job.dir, EntryOf(job.page), SlotOf(job.page), t,
                           [frame |-> f, owner |-> pc # "sbrk"])
  BY MapStep
<1>4. PICK d, page, leaf : /\ d = job.dir /\ page = job.page
                           /\ leaf = [frame |-> f, owner |-> pc # "sbrk"]
  OBVIOUS
<1>5. PICK entry, slot : entry = EntryOf(page) /\ slot = SlotOf(page)
  OBVIOUS
<1>6. Gains(d, entry, slot, t, leaf)
  BY <1>3, <1>4, <1>5
<1>7. leaf.frame = f /\ (leaf.owner \/ pc = "sbrk")
  BY <1>4
<1>8. d \in DOMAIN dirs /\ DOMAIN dirs' = DOMAIN dirs
  BY <1>6 DEF Gains
<1>9. page \in 0 .. UserPages - 1 /\ page \notin Mapped(d)
  BY <1>2, <1>4, PageInReach, MapFresh
<1>10. /\ Mapped(d)' = Mapped(d) \cup {page}
       /\ \A e \in DOMAIN dirs : e # d => Mapped(e)' = Mapped(e)
  BY <1>1, <1>5, <1>6, <1>9, MapSpace
<1>11. job \in Job /\ page \in Nat /\ job.end \in Nat /\ page < job.end
  BY <1>1, <1>2, <1>4 DEF TypeOK, Job
<1>12. /\ job'.dir = d /\ job'.page = page + 1 /\ job'.end = job.end
       /\ job'.brk = job.brk /\ job'.segments = job.segments
  BY <1>3, <1>4, <1>11 DEF Job
<1>13. Mapped(job.dir)' = Mapped(job.dir) \cup {page}
  BY <1>4, <1>10, <1>12
<1>14. \A u \in DOMAIN tables : \A s \in DOMAIN tables[u] :
           u \in DOMAIN tables' /\ s \in DOMAIN tables'[u] /\ tables'[u][s] = tables[u][s]
  <2>1. entry \in DOMAIN dirs[d] => slot \notin DOMAIN tables[t]
    BY <1>5, <1>6, <1>9 DEF Mapped, Gains
  <2>2. entry \notin DOMAIN dirs[d] => t \notin DOMAIN tables
    BY <1>1, <1>6 DEF Gains, MemoryOK, KindsApart
  <2> QED
    BY <1>6, <2>1, <2>2 DEF Gains
<1>15. Accounted'
  <2>1. Loading' = Loading
    BY <1>4, <1>8, <1>12 DEF Loading
  <2>2. {procs[p].dir : p \in Live}' = {procs[p].dir : p \in Live}
    BY <1>2, DirsStand DEF Live
  <2>3. DOMAIN dirs' = {procs[p].dir : p \in Live}' \cup Loading'
    BY <1>1, <1>8, <2>1, <2>2 DEF Accounted
  <2>4. /\ DOMAIN tables' = DOMAIN tables \cup {t} /\ used' = used \cup ({f} \ {NoFrame}) \cup {t}
        /\ slot \in DOMAIN tables'[t] /\ tables'[t][slot].frame = f
    BY <1>6, <1>7 DEF Gains
  <2>5. lent \subseteq lent' /\ (pc = "sbrk" => f \in lent' \cup {NoFrame})
    BY <1>3 DEF Marked
  <2>6. ASSUME NEW g \in used' \ lent'
        PROVE  \/ g \in kernel' \cup DOMAIN dirs' \cup DOMAIN tables'
               \/ \E u \in DOMAIN tables' : \E s \in DOMAIN tables'[u] : tables'[u][s].frame = g
    <3>1. CASE g = f \/ g = t
      BY <2>4, <3>1
    <3>2. CASE g \in used
      <4>1. \/ g \in kernel \cup DOMAIN dirs \cup DOMAIN tables
            \/ \E u \in DOMAIN tables : \E s \in DOMAIN tables[u] : tables[u][s].frame = g
        BY <1>1, <2>5, <3>2 DEF Accounted
      <4> QED
        BY <1>2, <1>8, <1>14, <2>4, <4>1
    <3> QED
      BY <2>4, <3>1, <3>2
  <2>7. ASSUME NEW u \in DOMAIN tables', NEW s \in DOMAIN tables'[u]
        PROVE  tables'[u][s].owner \/ tables'[u][s].frame \in lent' \cup {NoFrame}
    <3>1. \/ u \in DOMAIN tables /\ s \in DOMAIN tables[u] /\ tables'[u][s] = tables[u][s]
          \/ u = t /\ s = slot /\ tables'[u][s] = leaf
      BY <1>6, <1>14 DEF Gains
    <3> QED
      BY <1>1, <1>7, <2>5, <3>1 DEF Accounted
  <2> QED
    BY <2>3, <2>6, <2>7 DEF Accounted
<1>16. BreaksTight'
  <2> SUFFICES ASSUME NEW p \in Live
               PROVE  Mapped(procs[p].dir)' \subseteq
                          Stack \cup 0 .. (IF pc = "sbrk" /\ p = current THEN page + 1
                                           ELSE PageAbove(procs[p].brk)) - 1
    BY <1>2, <1>3, <1>12 DEF BreaksTight, Stack, PageAbove, Word, Live
  <2>1. PICK e : e = procs[p].dir
    OBVIOUS
  <2>2. e \in DOMAIN dirs
    BY <1>1, <2>1 DEF Standing
  <2>3. Mapped(e) \subseteq Stack \cup 0 .. (IF pc = "sbrk" /\ p = current THEN page
                                             ELSE PageAbove(procs[p].brk)) - 1
    BY <1>1, <1>4, <2>1 DEF BreaksTight
  <2>4. Mapped(procs[p].dir)' = Mapped(e)'
    BY <1>2, <2>1
  <2>5. CASE e # d
    <3>1. Mapped(e)' = Mapped(e)
      BY <1>10, <2>2, <2>5
    <3>2. ~(pc = "sbrk" /\ p = current)
      BY <1>1, <1>4, <2>1, <2>5 DEF JobOK, SbrkOK
    <3> QED
      BY <2>3, <2>4, <3>1, <3>2
  <2>6. CASE e = d
    <3>1. pc = "sbrk" /\ p = current
      <4>1. pc \in Loads => FALSE
        BY <1>1, <1>4, <2>1, <2>6 DEF JobOK, LoadOK
      <4>2. pc = "sbrk"
        BY <1>2, <4>1 DEF Loads
      <4>3. d = procs[current].dir /\ current \in Live
        BY <1>1, <1>4, <4>2 DEF JobOK, SbrkOK, TypeOK
      <4> QED
        BY <1>1, <2>1, <2>6, <4>2, <4>3 DEF Standing
    <3> QED
      BY <1>10, <1>11, <2>3, <2>4, <2>6, <3>1
  <2> QED
    BY <2>5, <2>6
<1>17. LoadTight'
  <2>4. pc \in Loads => job'.brk <= Low
    BY <1>1, <1>12 DEF LoadTight
  <2>1. CASE pc = "map"
    <3>1. LoadOK
      BY <1>1, <2>1 DEF JobOK, Loads
    <3>2. PICK s, m : s = Head(job.segments) /\ m = Mapped(job.dir)
      OBVIOUS
    <3>3. s = job.segments[1] /\ 1 \in DOMAIN job.segments
      BY <1>11, <2>1, <3>1, <3>2, Remaining DEF LoadOK
    <3>4. /\ Unmapped(2) /\ page .. job.end - 1 \cap m = {}
          /\ page .. job.end - 1 \subseteq PagesIn(s)
          /\ m \subseteq 0 .. PageAbove(job.brk) - 1 \cup PagesIn(s)
      BY <1>1, <1>4, <2>1, <3>2 DEF LoadTight
    <3>5. page \in PagesIn(s)
      BY <1>11, <3>4
    <3>6. \A i \in DOMAIN job.segments : i >= 2 => PagesIn(job.segments[i]) \cap (m \cup {page}) = {}
      <4> TAKE i \in DOMAIN job.segments
      <4> HAVE i >= 2
      <4>1. PagesIn(job.segments[i]) \cap m = {}
        BY <3>2, <3>4 DEF Unmapped
      <4>3. i # 1
        OBVIOUS
      <4>2. PagesIn(job.segments[i]) \cap PagesIn(s) = {}
        BY <3>3, <3>4, <4>3 DEF Unmapped
      <4> QED
        BY <3>5, <4>1, <4>2
    <3>7. Unmapped(2)'
      BY <1>12, <1>13, <3>2, <3>4, <3>6 DEF Unmapped, Plain, PagesIn, PageAbove, Word
    <3>8. page + 1 .. job.end - 1 \cap (m \cup {page}) = {} /\ page + 1 .. job.end - 1 \subseteq PagesIn(s)
      BY <1>11, <3>4
    <3>9. PagesIn(Head(job.segments))' = PagesIn(s) /\ PageAbove(job.brk)' = PageAbove(job.brk)
      BY <1>12, <3>2 DEF PagesIn, PageAbove, Word
    <3>10. m \cup {page} \subseteq 0 .. PageAbove(job.brk) - 1 \cup PagesIn(s)
      BY <3>4, <3>5
    <3> QED
      BY <1>3, <1>12, <1>13, <2>1, <2>4, <3>2, <3>7, <3>8, <3>9, <3>10 DEF LoadTight
  <2>2. CASE pc = "stack"
    <3>1. LoadOK
      BY <1>1, <2>2 DEF JobOK, Loads
    <3>2. page \in StackBase .. StackTop
      BY <1>4, <2>2, <3>1 DEF LoadOK
    <3>3. Mapped(job.dir) \subseteq 0 .. PageAbove(job.brk) - 1 \cup StackBase .. page - 1
      BY <1>1, <1>4, <2>2 DEF LoadTight
    <3>4. Mapped(job.dir) \cup {page} \subseteq 0 .. PageAbove(job.brk) - 1 \cup StackBase .. (page + 1) - 1
      BY <1>11, <3>2, <3>3, Sizes
    <3>5. PageAbove(job.brk)' = PageAbove(job.brk)
      BY <1>12 DEF PageAbove, Word
    <3> QED
      BY <1>3, <1>12, <1>13, <2>2, <2>4, <3>4, <3>5 DEF LoadTight
  <2>3. CASE pc = "sbrk"
    BY <1>3, <2>3 DEF LoadTight, Loads
  <2> QED
    BY <1>2, <2>1, <2>2, <2>3
<1>18. SbrkTight'
  BY <1>11, <1>12 DEF SbrkTight
<1> QED
  BY <1>15, <1>16, <1>17, <1>18 DEF Tight

LEMMA CreateRecordTight ==
    ASSUME Inv, Tidy, Tight, UNCHANGED machine, CreateRecord, pc' # "wrecked"
    PROVE  Tight'
<1>1. TypeOK /\ MemoryOK /\ Standing /\ JobOK /\ Accounted /\ BreaksTight /\ LoadTight
  BY DEF Inv, Tight
<1>2. UNCHANGED <<machine, dirs, tables, lent, procs, current>> /\ pc = "stack" /\ job.page = job.end
  BY DEF CreateRecord, cpu
<1>3. PICK r : HeapGrowth("args") /\ job' = [job EXCEPT !.record = r]
  BY DEF CreateRecord, KMalloc
<1>4. pc' = "args" /\ kernel \subseteq kernel' /\ used' \subseteq used \cup kernel'
  BY <1>1, <1>3, Growth
<1>5. job \in Job /\ LoadOK
  BY <1>1, <1>2 DEF TypeOK, JobOK, Loads
<1>6. PICK d : d = job.dir
  OBVIOUS
<1>7. job'.dir = d /\ job'.brk = job.brk
  BY <1>3, <1>5, <1>6 DEF Job
<1>8. \A e \in DOMAIN dirs : Mapped(e)' = Mapped(e)
  BY <1>2, MappedStands
<1>9. Mapped(job.dir)' = Mapped(job.dir)
  <2>1. Mapped(d)' = Mapped(d)
    BY <1>5, <1>6, <1>8 DEF LoadOK
  <2> QED
    BY <1>6, <1>7, <2>1
<1>10. LoadTight'
  <2>1. Mapped(job.dir) \subseteq 0 .. PageAbove(job.brk) - 1 \cup StackBase .. StackTop - 1
    BY <1>1, <1>2, <1>5 DEF LoadTight, LoadOK
  <2>2. PageAbove(job.brk)' = PageAbove(job.brk)
    BY <1>7 DEF PageAbove, Word
  <2>3. job'.brk <= Low
    BY <1>1, <1>2, <1>7 DEF LoadTight, Loads
  <2> QED
    BY <1>4, <1>9, <2>1, <2>2, <2>3 DEF LoadTight, Stack
<1>11. Accounted'
  BY <1>1, <1>2, <1>4, <1>6, <1>7, AccountedStands, LoadingStands, DirsStand DEF Live
<1>12. BreaksTight'
  BY <1>1, <1>2, <1>4, <1>8, BreaksTightStand DEF Live
<1> QED
  BY <1>4, <1>10, <1>11, <1>12 DEF Tight, SbrkTight

LEMMA CopyArgsTight ==
    ASSUME Inv, Tidy, Tight, UNCHANGED machine, CopyArgs, pc' # "wrecked"
    PROVE  Tight'
<1>1. TypeOK /\ MemoryOK /\ Standing /\ JobOK /\ Accounted /\ BreaksTight /\ LoadTight
  BY DEF Inv, Tight
<1>2. UNCHANGED <<machine, dirs, tables, lent, procs, current>> /\ pc = "args"
  BY DEF CopyArgs, cpu
<1>3. PICK n : HeapGrowth("execute") /\ job' = [job EXCEPT !.argc = n]
  BY DEF CopyArgs, KMalloc
<1>4. pc' = "execute" /\ kernel \subseteq kernel' /\ used' \subseteq used \cup kernel'
  BY <1>1, <1>3, Growth
<1>5. job \in Job /\ LoadOK
  BY <1>1, <1>2 DEF TypeOK, JobOK, Loads
<1>6. PICK d : d = job.dir
  OBVIOUS
<1>7. job'.dir = d /\ job'.brk = job.brk
  BY <1>3, <1>5, <1>6 DEF Job
<1>8. \A e \in DOMAIN dirs : Mapped(e)' = Mapped(e)
  BY <1>2, MappedStands
<1>9. Mapped(job.dir)' = Mapped(job.dir)
  <2>1. Mapped(d)' = Mapped(d)
    BY <1>5, <1>6, <1>8 DEF LoadOK
  <2> QED
    BY <1>6, <1>7, <2>1
<1>10. LoadTight'
  <2>1. Mapped(job.dir) \subseteq 0 .. PageAbove(job.brk) - 1 \cup Stack
    BY <1>1, <1>2 DEF LoadTight
  <2>2. PageAbove(job.brk)' = PageAbove(job.brk)
    BY <1>7 DEF PageAbove, Word
  <2>3. job'.brk <= Low
    BY <1>1, <1>2, <1>7 DEF LoadTight, Loads
  <2> QED
    BY <1>4, <1>9, <2>1, <2>2, <2>3 DEF LoadTight, Stack
<1>11. Accounted'
  BY <1>1, <1>2, <1>4, <1>6, <1>7, AccountedStands, LoadingStands, DirsStand DEF Live
<1>12. BreaksTight'
  BY <1>1, <1>2, <1>4, <1>8, BreaksTightStand DEF Live
<1> QED
  BY <1>4, <1>10, <1>11, <1>12 DEF Tight, SbrkTight

LEMMA ProcessExecuteTight ==
    ASSUME Inv, Tidy, Tight, UNCHANGED machine, ProcessExecute, pc' # "wrecked"
    PROVE  Tight'
<1>1. TypeOK /\ MemoryOK /\ Standing /\ JobOK /\ Accounted /\ BreaksTight /\ LoadTight
  BY DEF Inv, Tight
<1>2. PICK r, d, brk, env :
          /\ r = job.record /\ d = job.dir /\ brk = job.brk
          /\ env = IF current = Nobody THEN {} ELSE procs[current].env
  OBVIOUS
<1>3. /\ UNCHANGED <<machine, dirs, tables, lent>> /\ pc = "execute"
      /\ HeapGrowth("user")
      /\ procs' = With(procs, r, [dir |-> d, parent |-> current, base |-> brk, brk |-> brk, env |-> env])
      /\ job' = NoJob
  BY <1>2 DEF ProcessExecute, CallerOf
<1>4. LoadOK
  BY <1>1, <1>3 DEF JobOK, Loads
<1>5. r \notin Live /\ d \in DOMAIN dirs
  BY <1>2, <1>3, <1>4 DEF LoadOK
<1>6. /\ Live' = Live \cup {r} /\ \A p \in Live : procs'[p] = procs[p]
      /\ procs'[r].dir = d /\ procs'[r].brk = brk
  BY <1>3, <1>5 DEF With, Live
<1>7. pc' = "user" /\ kernel \subseteq kernel' /\ used' \subseteq used \cup kernel'
  BY <1>1, <1>3, Growth
<1>8. \A e \in DOMAIN dirs : Mapped(e)' = Mapped(e)
  BY <1>3, MappedStands
<1>9. Accounted'
  <2>1. Loading = {d} /\ Loading' = {}
    BY <1>1, <1>2, <1>3, <1>5, KernelIsNoDirectory DEF Loading, NoJob
  <2>2. {procs[p].dir : p \in Live}' = {procs[p].dir : p \in Live} \cup {d}
    BY <1>6
  <2> QED
    BY <1>1, <1>3, <1>7, <2>1, <2>2, AccountedStands
<1>10. BreaksTight'
  <2> SUFFICES ASSUME NEW p \in Live'
               PROVE  Mapped(procs[p].dir)' \subseteq Stack \cup 0 .. PageAbove(procs'[p].brk) - 1
    BY <1>7 DEF BreaksTight, Stack, PageAbove, Word
  <2>1. PICK e : e = procs'[p].dir
    OBVIOUS
  <2>2. e \in DOMAIN dirs /\ Mapped(e) \subseteq Stack \cup 0 .. PageAbove(procs'[p].brk) - 1
    <3>1. CASE p = r
      <4>1. e = d /\ procs'[p].brk = brk
        BY <1>6, <2>1, <3>1
      <4>2. Mapped(d) \subseteq Stack \cup 0 .. PageAbove(brk) - 1
        BY <1>1, <1>2, <1>3 DEF LoadTight
      <4> QED
        BY <1>5, <4>1, <4>2
    <3>2. CASE p # r
      <4>1. p \in Live /\ procs'[p] = procs[p]
        BY <1>6, <3>2
      <4>2. Mapped(e) \subseteq Stack \cup 0 .. PageAbove(procs[p].brk) - 1
        BY <1>1, <1>3, <2>1, <4>1 DEF BreaksTight
      <4>3. e \in DOMAIN dirs
        BY <1>1, <2>1, <4>1 DEF Standing
      <4> QED
        BY <4>1, <4>2, <4>3
    <3> QED
      BY <3>1, <3>2
  <2>3. Mapped(procs[p].dir)' = Mapped(e)
    <3>1. Mapped(e)' = Mapped(e)
      BY <1>8, <2>2
    <3> QED
      BY <2>1, <3>1
  <2> QED
    BY <2>2, <2>3
<1> QED
  BY <1>7, <1>9, <1>10 DEF Tight, LoadTight, SbrkTight, Loads

LEMMA SysExitTight ==
    ASSUME Inv, Tidy, Tight, UNCHANGED machine, SysExit
    PROVE  Tight'
<1>1. TypeOK /\ MemoryOK /\ Standing /\ JobOK /\ Accounted /\ BreaksTight
  BY DEF Inv, Tight
<1>2. PICK r, dir, R, T : /\ r = current /\ dir = procs[r].dir
                          /\ R = Released(dir) /\ T = TablesOf(dir)
  OBVIOUS
<1>3. /\ pc = "user" /\ pc' = "returned" /\ UNCHANGED <<machine, kernel, lent>>
      /\ used' = used \ R
      /\ dirs' = Without(dirs, {dir}) /\ tables' = Without(tables, T)
      /\ procs' = Without(procs, {r})
      /\ job' = [NoJob EXCEPT !.record = r]
  BY <1>2 DEF SysExit
<1>4. r \in Live /\ job = NoJob
  BY <1>1, <1>2, <1>3 DEF JobOK, TypeOK
<1>5. dir \in DOMAIN dirs /\ \A p \in Live : p # r => procs[p].dir # dir
  BY <1>1, <1>2, <1>4 DEF Standing
<1>6. Live' = Live \ {r} /\ \A p \in Live' : p \in Live /\ procs'[p] = procs[p]
  BY <1>3 DEF Without, Live
<1>7. /\ DOMAIN dirs' = DOMAIN dirs \ {dir}
      /\ DOMAIN tables' = DOMAIN tables \ T /\ \A t \in DOMAIN tables' : tables'[t] = tables[t]
  BY <1>3 DEF Without
<1>8. /\ dir \in R /\ T \subseteq R
      /\ \A t \in T : \A s \in DOMAIN tables[t] : tables[t][s].owner => tables[t][s].frame \in R
  BY <1>2 DEF Released, OwnedBy, Leaves
<1>9. Accounted'
  <2>1. Loading = {} /\ Loading' = {}
    <3>1. job.dir = KernelDir /\ job'.dir = KernelDir
      BY <1>3, <1>4 DEF NoJob
    <3> QED
      BY <1>1, <1>7, <3>1, KernelIsNoDirectory DEF Loading
  <2>2. {procs[p].dir : p \in Live}' = {procs[p].dir : p \in Live} \ {dir}
    BY <1>2, <1>4, <1>5, <1>6
  <2>3. DOMAIN dirs' = {procs[p].dir : p \in Live}' \cup Loading'
    BY <1>1, <1>7, <2>1, <2>2 DEF Accounted
  <2>4. ASSUME NEW f \in used' \ lent'
        PROVE  \/ f \in kernel' \cup DOMAIN dirs' \cup DOMAIN tables'
               \/ \E t \in DOMAIN tables' : \E s \in DOMAIN tables'[t] : tables'[t][s].frame = f
    <3>1. f \in used \ lent /\ f \notin R
      BY <1>3
    <3>2. CASE f \in kernel \cup DOMAIN dirs \cup DOMAIN tables
      BY <1>3, <1>7, <1>8, <3>1, <3>2
    <3>3. ASSUME NEW t \in DOMAIN tables, NEW s \in DOMAIN tables[t], tables[t][s].frame = f
          PROVE  t \in DOMAIN tables' /\ s \in DOMAIN tables'[t] /\ tables'[t][s].frame = f
      <4>1. f # NoFrame
        BY <1>1, <3>1, ManagedIsMemory DEF MemoryOK, KindsApart, NoFrame
      <4>2. tables[t][s].owner
        BY <1>1, <3>1, <3>3, <4>1 DEF Accounted
      <4>3. t \notin T
        BY <1>8, <3>1, <3>3, <4>2
      <4> QED
        BY <1>7, <3>3, <4>3
    <3> QED
      BY <1>1, <3>1, <3>2, <3>3 DEF Accounted
  <2>5. \A t \in DOMAIN tables' : \A s \in DOMAIN tables'[t] :
            tables'[t][s].owner \/ tables'[t][s].frame \in lent' \cup {NoFrame}
    BY <1>1, <1>3, <1>7 DEF Accounted
  <2> QED
    BY <2>3, <2>4, <2>5 DEF Accounted
<1>10. BreaksTight'
  <2> SUFFICES ASSUME NEW p \in Live'
               PROVE  Mapped(procs[p].dir)' \subseteq Stack \cup 0 .. PageAbove(procs'[p].brk) - 1
    BY <1>3 DEF BreaksTight, Stack, PageAbove, Word
  <2>1. p \in Live /\ p # r /\ procs'[p] = procs[p]
    BY <1>6
  <2>2. PICK e : e = procs[p].dir
    OBVIOUS
  <2>3. e \in DOMAIN dirs /\ e # dir
    BY <1>1, <1>5, <2>1, <2>2 DEF Standing
  <2>4. Mapped(e)' = Mapped(e)
    BY <1>1, <1>2, <1>3, <1>5, <2>3, ExitSpaces
  <2>5. Mapped(procs[p].dir)' = Mapped(e)
    BY <2>1, <2>2, <2>4
  <2>6. Mapped(e) \subseteq Stack \cup 0 .. PageAbove(procs[p].brk) - 1
    BY <1>1, <1>3, <2>1, <2>2 DEF BreaksTight
  <2> QED
    BY <2>1, <2>5, <2>6
<1> QED
  BY <1>3, <1>9, <1>10 DEF Tight, LoadTight, SbrkTight, Loads

LEMMA SysSbrkTight ==
    ASSUME Inv, Tidy, Tight, BreaksLow, UNCHANGED machine, NEW increment \in machine.increments, SysSbrk(increment)
    PROVE  Tight'
<1>1. TypeOK /\ MemoryOK /\ Standing /\ JobOK /\ Accounted /\ BreaksTight
  BY DEF Inv, Tight
<1>2. PICK d, old, new : d = procs[current].dir /\ old = procs[current].brk /\ new = Word(old + increment)
  OBVIOUS
<1>3. /\ UNCHANGED <<machine, used, kernel, dirs, tables, lent, procs, current>>
      /\ pc = "user" /\ pc' = "sbrk"
      /\ job' = [NoJob EXCEPT !.dir = d, !.brk = new, !.page = PageAbove(old), !.end = PageAbove(new)]
      /\ new < StackBase * PageUnits
  BY <1>2 DEF SysSbrk, NewPage, BreakAllowed, cpu, memory
<1>4. current \in Live /\ procs[current] \in Process /\ job = NoJob
  BY <1>1, <1>3 DEF JobOK, TypeOK
<1>5. old \in Nat /\ new \in Nat /\ old <= new /\ new <= Room
  <2>1. increment \in 0 .. AddressSize - StackBase * PageUnits
    BY DEF Tidy
  <2>2. old \in Nat /\ old < StackBase * PageUnits
    BY <1>2, <1>4 DEF Process, BreaksLow
  <2>3. old + increment \in 0 .. AddressSize - 1 /\ old <= old + increment
    BY <2>1, <2>2, Sizes
  <2>4. (old + increment) % AddressSize = old + increment
    BY <2>3, Sizes, SMT
  <2> QED
    BY <1>2, <1>3, <2>2, <2>3, <2>4, Sizes DEF Word
<1>6. PageAbove(old) \in Nat /\ PageAbove(new) \in Nat /\ PageAbove(old) <= PageAbove(new)
  BY <1>5, PageType, PageOrders
<1>7. job'.dir = d /\ job'.page = PageAbove(old) /\ job'.end = PageAbove(new) /\ job.dir = KernelDir
  BY <1>3, <1>4 DEF NoJob
<1>8. \A e \in DOMAIN dirs : Mapped(e)' = Mapped(e)
  BY <1>3, MappedStands
<1>9. Accounted'
  <2>1. Loading = {} /\ Loading' = {d} /\ d \in DOMAIN dirs /\ d \in {procs[p].dir : p \in Live}
    BY <1>1, <1>2, <1>3, <1>4, <1>7, KernelIsNoDirectory DEF Loading, Standing
  <2>2. {procs[p].dir : p \in Live}' = {procs[p].dir : p \in Live}
    BY <1>3, DirsStand DEF Live
  <2> QED
    BY <1>1, <1>3, <2>1, <2>2, AccountedStands
<1>10. BreaksTight'
  <2> SUFFICES ASSUME NEW p \in Live
               PROVE  Mapped(procs[p].dir)' \subseteq Stack \cup 0 .. (IF p = current THEN PageAbove(old)
                                                                   ELSE PageAbove(procs[p].brk)) - 1
    BY <1>3, <1>7 DEF BreaksTight, Stack, PageAbove, Word, Live
  <2>1. PICK e : e = procs[p].dir
    OBVIOUS
  <2>2. e \in DOMAIN dirs
    BY <1>1, <2>1 DEF Standing
  <2>3. Mapped(e)' = Mapped(e)
    BY <1>8, <2>2
  <2>4. Mapped(procs[p].dir)' = Mapped(e)
    BY <1>3, <2>1, <2>3
  <2>5. Mapped(e) \subseteq Stack \cup 0 .. PageAbove(procs[p].brk) - 1
    BY <1>1, <1>3, <2>1 DEF BreaksTight
  <2> QED
    BY <1>2, <2>4, <2>5
<1> QED
  BY <1>3, <1>6, <1>7, <1>9, <1>10 DEF Tight, LoadTight, SbrkTight, Loads

LEMMA EndSbrkTight ==
    ASSUME Inv, Tidy, Tight, UNCHANGED machine, EndSbrk
    PROVE  Tight'
<1>1. TypeOK /\ MemoryOK /\ Standing /\ JobOK /\ Accounted /\ BreaksTight /\ SbrkTight
  BY DEF Inv, Tight
<1>2. PICK r, brk, d : r = current /\ brk = job.brk /\ d = job.dir
  OBVIOUS
<1>3. /\ UNCHANGED <<machine, used, kernel, dirs, tables, lent, current>>
      /\ pc = "sbrk" /\ job.page >= job.end
      /\ procs' = [procs EXCEPT ![r].brk = brk] /\ pc' = "user" /\ job' = NoJob
  BY <1>2 DEF EndSbrk, cpu, memory
<1>4. r \in Live /\ procs[r] \in Process /\ SbrkOK /\ job \in Job
  BY <1>1, <1>2, <1>3 DEF JobOK, TypeOK
<1>5. job.page = PageAbove(brk)
  <2>1. job.page \in Nat /\ job.end \in Nat /\ job.page <= job.end
    BY <1>1, <1>3, <1>4 DEF Job, SbrkTight
  <2> QED
    BY <1>2, <1>3, <1>4, <2>1 DEF SbrkOK
<1>6. /\ Live' = Live
      /\ \A p \in Live : /\ procs'[p].dir = procs[p].dir
                         /\ p # r => procs'[p] = procs[p]
      /\ procs'[r].brk = brk
  BY <1>3, <1>4 DEF Live, Process
<1>7. \A e \in DOMAIN dirs : Mapped(e)' = Mapped(e)
  BY <1>3, MappedStands
<1>8. Accounted'
  <2>1. d = procs[r].dir /\ d \in DOMAIN dirs
    BY <1>1, <1>2, <1>4 DEF SbrkOK, Standing
  <2>2. Loading = {d} /\ Loading' = {}
    BY <1>1, <1>2, <1>3, <2>1, KernelIsNoDirectory DEF Loading, NoJob
  <2>3. {procs[p].dir : p \in Live}' = {procs[p].dir : p \in Live}
    BY <1>6, DirsStand
  <2>4. d \in {procs[p].dir : p \in Live}
    BY <1>4, <2>1
  <2> QED
    BY <1>1, <1>3, <2>2, <2>3, <2>4, AccountedStands
<1>9. BreaksTight'
  <2> SUFFICES ASSUME NEW p \in Live
               PROVE  Mapped(procs[p].dir)' \subseteq Stack \cup 0 .. PageAbove(procs'[p].brk) - 1
    BY <1>3, <1>6 DEF BreaksTight, Stack, PageAbove, Word
  <2>1. PICK e : e = procs[p].dir
    OBVIOUS
  <2>2. e \in DOMAIN dirs
    BY <1>1, <2>1 DEF Standing
  <2>3. Mapped(e)' = Mapped(e)
    BY <1>7, <2>2
  <2>4. Mapped(procs[p].dir)' = Mapped(e)
    BY <1>6, <2>1, <2>3
  <2>5. Mapped(e) \subseteq Stack \cup 0 .. (IF p = r THEN job.page ELSE PageAbove(procs[p].brk)) - 1
    BY <1>1, <1>2, <1>3, <2>1 DEF BreaksTight
  <2>6. PageAbove(procs'[p].brk) = IF p = r THEN job.page ELSE PageAbove(procs[p].brk)
    BY <1>5, <1>6
  <2> QED
    BY <2>4, <2>5, <2>6
<1> QED
  BY <1>3, <1>8, <1>9 DEF Tight, LoadTight, SbrkTight, Loads

\* A step of the running process that maps and loads nothing.
LEMMA OtherTight ==
    ASSUME Inv, Tight, UNCHANGED <<machine, dirs, tables, lent>>,
           kernel \subseteq kernel', used' \subseteq used \cup kernel',
           pc \in {"user", "returned"}, pc' \in {"user", "prompt"},
           job.dir = KernelDir, job'.dir = KernelDir,
           Live' = Live, \A p \in Live : procs'[p].dir = procs[p].dir /\ procs'[p].brk = procs[p].brk
    PROVE  Tight'
<1>1. Standing /\ Accounted /\ BreaksTight
  BY DEF Inv, Tight
<1>2. \A e \in DOMAIN dirs : Mapped(e)' = Mapped(e)
  BY MappedStands
<1>3. Accounted'
  BY <1>1, AccountedStands, LoadingStands, DirsStand
<1>4. BreaksTight'
  BY <1>1, <1>2, BreaksTightStand
<1> QED
  BY <1>3, <1>4 DEF Tight, LoadTight, SbrkTight, Loads

LEMMA AfterExecuteTight ==
    ASSUME Inv, Tight, UNCHANGED machine, AfterExecute
    PROVE  Tight'
<1>1. /\ UNCHANGED <<dirs, tables, lent, kernel, used, procs>>
      /\ pc = "returned" /\ pc' \in {"user", "prompt"} /\ job' = NoJob
  BY DEF AfterExecute, memory
<1>2. job.dir = KernelDir /\ job'.dir = KernelDir
  BY <1>1 DEF Inv, JobOK, NoJob
<1> QED
  BY <1>1, <1>2, OtherTight DEF Live

LEMMA EnvironmentTight ==
    ASSUME Inv, Tight, UNCHANGED machine, NEW key \in machine.keys,
           SysSetEnv(key) \/ SysUnsetEnv(key), pc' # "wrecked"
    PROVE  Tight'
<1>1. TypeOK /\ MemoryOK /\ JobOK
  BY DEF Inv
<1>2. PICK env : /\ pc = "user" /\ UNCHANGED <<dirs, tables, lent, job>>
                 /\ procs' = [procs EXCEPT ![current].env = env]
                 /\ HeapGrowth("user") \/ (UNCHANGED <<used, kernel>> /\ pc' = "user")
  BY DEF SysSetEnv, SysUnsetEnv, KMalloc, memory
<1>3. current \in Live /\ procs[current] \in Process /\ job = NoJob
  BY <1>1, <1>2 DEF JobOK, TypeOK
<1>4. pc' = "user" /\ kernel \subseteq kernel' /\ used' \subseteq used \cup kernel'
  BY <1>1, <1>2, Growth
<1>5. Live' = Live /\ \A p \in Live : procs'[p].dir = procs[p].dir /\ procs'[p].brk = procs[p].brk
  BY <1>2, <1>3 DEF Live, Process
<1>6. job.dir = KernelDir /\ job'.dir = KernelDir
  BY <1>2, <1>3 DEF NoJob
<1> QED
  BY <1>2, <1>4, <1>5, <1>6, OtherTight

LEMMA InitTight == Init => Tight
<1> SUFFICES ASSUME Init PROVE Tight
  OBVIOUS
<1>1. used = kernel /\ dirs = << >> /\ tables = << >> /\ procs = << >> /\ pc = "boot"
  BY DEF Init
<1>2. DOMAIN dirs = {} /\ DOMAIN tables = {} /\ Live = {} /\ Loading = {}
  BY <1>1 DEF Live, Loading
<1> QED
  BY <1>1, <1>2 DEF Tight, Accounted, BreaksTight, LoadTight, SbrkTight, Loads

LEMMA StutterTight == Tight /\ UNCHANGED vars => Tight'
<1> SUFFICES ASSUME Tight, UNCHANGED vars PROVE Tight'
  OBVIOUS
<1>1. UNCHANGED <<used, kernel, dirs, tables, lent, procs, current, pc, job>>
  BY DEF vars, memory, cpu
<1>2. Accounted'
  BY <1>1 DEF Tight, Accounted, Loading, Live
<1>3. BreaksTight'
  BY <1>1 DEF Tight, BreaksTight, Live, Mapped, PageAbove, Word, Stack
<1>4. LoadTight'
  BY <1>1 DEF Tight, LoadTight, Unmapped, Plain, Mapped, PageAbove, Word, PagesIn, Stack
<1>5. SbrkTight'
  BY <1>1 DEF Tight, SbrkTight
<1> QED
  BY <1>2, <1>3, <1>4, <1>5 DEF Tight

\* The breaks stay below the stack.
LEMMA NextBreaksLow ==
    ASSUME Inv, Tight, BreaksLow, [Next]_vars
    PROVE  BreaksLow'
<1>1. TypeOK /\ JobOK /\ LoadTight
  BY DEF Inv, Tight
<1>2. CASE UNCHANGED procs
  BY <1>2 DEF BreaksLow, Live
<1>3. CASE ProcessExecute
  <2>1. PICK p, r : procs' = With(procs, r, p) /\ p.brk = job.brk
    BY <1>3 DEF ProcessExecute
  <2>2. job.brk < StackBase * PageUnits
    <3>1. job.brk \in Nat /\ job.brk <= Low
      BY <1>1, <1>3 DEF ProcessExecute, LoadTight, Loads, TypeOK, Job
    <3> QED
      BY <3>1, LowType, Sizes
  <2> QED
    BY <2>1, <2>2 DEF BreaksLow, Live, With
<1>4. CASE SysExit
  BY <1>4 DEF SysExit, BreaksLow, Live, Without
<1>5. CASE EndSbrk
  <2>1. job.brk < StackBase * PageUnits /\ procs' = [procs EXCEPT ![current].brk = job.brk]
    BY <1>1, <1>5 DEF EndSbrk, JobOK, SbrkOK, BreakAllowed
  <2> QED
    BY <1>1, <2>1 DEF BreaksLow, Live, TypeOK, Process
<1>6. ASSUME NEW key, SysSetEnv(key) \/ SysUnsetEnv(key)
      PROVE  BreaksLow'
  <2>1. PICK env : procs' = [procs EXCEPT ![current].env = env]
    BY <1>6 DEF SysSetEnv, SysUnsetEnv
  <2> QED
    BY <1>1, <2>1 DEF BreaksLow, Live, TypeOK, Process
<1>7. \/ UNCHANGED procs \/ ProcessExecute \/ SysExit \/ EndSbrk
      \/ \E key : SysSetEnv(key) \/ SysUnsetEnv(key)
  <2>1. CASE Kernel
    BY <2>1 DEF Kernel, ELFLoad, LoadSegment, ShortRead, MapNext, MapKernel, EndSegment, BeginStack,
                CreateRecord, CopyArgs, AfterExecute
  <2>2. CASE User
    BY <2>2 DEF User, ELFLoad, SysSbrk
  <2> QED
    BY <2>1, <2>2 DEF Next, Prompt, vars
<1> QED
  BY <1>2, <1>3, <1>4, <1>5, <1>6, <1>7

TidyOK == pc # "wrecked" /\ Tidy => Tight /\ BreaksLow

LEMMA NextTidy == Inv /\ TidyOK /\ [Next]_vars => TidyOK'
<1> SUFFICES ASSUME Inv, TidyOK, [Next]_vars, pc' # "wrecked", Tidy' PROVE Tight' /\ BreaksLow'
  BY DEF TidyOK
<1>1. UNCHANGED machine
  BY DEF Next, Kernel, User, Prompt, vars
<1>2. Tidy
  BY <1>1 DEF Tidy, Sound, PagesIn, PageAbove, Word
<1>3. CASE Kernel
  <2>1. pc # "wrecked"
    BY <1>3 DEF Kernel, ELFLoad, LoadSegment, ShortRead, MapNext, MapKernel, EndSegment, BeginStack,
                CreateRecord, CopyArgs, ProcessExecute, AfterExecute, EndSbrk
  <2>2. Tight /\ BreaksLow
    BY <1>2, <2>1 DEF TidyOK
  <2> SUFFICES Tight'
    BY <2>2, NextBreaksLow
  <2>3. CASE \E image \in machine.images : ELFLoad(image)
    BY <1>1, <1>2, <2>2, <2>3, ELFLoadTight
  <2>4. CASE LoadSegment
    BY <1>1, <1>2, <2>2, <2>4, LoadSegmentTight
  <2>5. CASE ShortRead
    BY <2>2, <2>5 DEF ShortRead, Tight, LoadTight
  <2>6. CASE MapNext
    BY <1>1, <1>2, <2>2, <2>6, MapNextTight
  <2>7. CASE EndSegment
    BY <1>1, <1>2, <2>2, <2>7, EndSegmentTight
  <2>8. CASE BeginStack
    BY <1>1, <1>2, <2>2, <2>8, BeginStackTight
  <2>9. CASE CreateRecord
    BY <1>1, <1>2, <2>2, <2>9, CreateRecordTight
  <2>10. CASE CopyArgs
    BY <1>1, <1>2, <2>2, <2>10, CopyArgsTight
  <2>11. CASE ProcessExecute
    BY <1>1, <1>2, <2>2, <2>11, ProcessExecuteTight
  <2>12. CASE AfterExecute
    BY <1>1, <2>2, <2>12, AfterExecuteTight
  <2>13. CASE EndSbrk
    BY <1>1, <1>2, <2>2, <2>13, EndSbrkTight
  <2>14. CASE MapKernel
    BY <2>14 DEF MapKernel, Wreck
  <2> QED
    BY <1>3, <2>3, <2>4, <2>5, <2>6, <2>7, <2>8, <2>9, <2>10, <2>11, <2>12, <2>13, <2>14 DEF Kernel
<1>4. CASE User
  <2>1. pc # "wrecked"
    BY <1>4 DEF User, SysExit, SysSbrk, SysSetEnv, SysUnsetEnv
  <2>2. Tight /\ BreaksLow
    BY <1>2, <2>1 DEF TidyOK
  <2> SUFFICES Tight'
    BY <2>2, NextBreaksLow
  <2>3. CASE \E image \in machine.images : ELFLoad(image)
    BY <1>1, <1>2, <2>2, <2>3, ELFLoadTight
  <2>4. CASE SysExit
    BY <1>1, <1>2, <2>2, <2>4, SysExitTight
  <2>5. CASE \E increment \in machine.increments : SysSbrk(increment)
    BY <1>1, <1>2, <2>2, <2>5, SysSbrkTight
  <2>6. ASSUME NEW key \in machine.keys, SysSetEnv(key) \/ SysUnsetEnv(key)
        PROVE  Tight'
    BY <1>1, <2>2, <2>6, EnvironmentTight
  <2> QED
    BY <1>4, <2>3, <2>4, <2>5, <2>6 DEF User
<1>5. CASE Prompt \/ UNCHANGED vars
  <2>1. UNCHANGED vars
    BY <1>5 DEF Prompt
  <2>2. pc # "wrecked"
    BY <2>1 DEF vars
  <2> QED
    BY <1>2, <2>1, <2>2, StutterTight, NextBreaksLow DEF TidyOK
<1> QED
  BY <1>3, <1>4, <1>5 DEF Next

LEMMA TightLosesNone == MemoryOK /\ TypeOK /\ Accounted =>
    used \ lent \subseteq
        kernel \cup UNION {FramesIn(d) : d \in {procs[p].dir : p \in Live} \cup Loading}
<1> SUFFICES ASSUME MemoryOK, TypeOK, Accounted, NEW f \in used \ lent, f \notin kernel
             PROVE  \E d \in {procs[p].dir : p \in Live} \cup Loading :
                        f \in {d} \cup TablesOf(d) \cup FramesAsPages(d)
  BY DEF Accounted, FramesIn
<1>1. DOMAIN dirs = {procs[p].dir : p \in Live} \cup Loading
  BY DEF Accounted
<1>2. CASE f \in DOMAIN dirs
  BY <1>1, <1>2
<1>3. ASSUME NEW t \in DOMAIN tables
      PROVE  \E d \in DOMAIN dirs : t \in TablesOf(d)
  BY DEF MemoryOK, TablesPlaced, TablesOf
<1>4. CASE f \in DOMAIN tables
  BY <1>1, <1>3, <1>4
<1>5. ASSUME NEW t \in DOMAIN tables, NEW s \in DOMAIN tables[t], tables[t][s].frame = f
      PROVE  \E d \in DOMAIN dirs : f \in FramesAsPages(d)
  <2>1. f # NoFrame
    BY ManagedIsMemory DEF MemoryOK, KindsApart, NoFrame
  <2>2. PICK d \in DOMAIN dirs : t \in TablesOf(d)
    BY <1>3
  <2>3. tables[t][s] \in Leaves(d)
    BY <2>2 DEF Leaves
  <2> QED
    BY <1>5, <2>1, <2>3 DEF FramesAsPages
<1>6. \/ f \in DOMAIN dirs \cup DOMAIN tables
      \/ \E t \in DOMAIN tables : \E s \in DOMAIN tables[t] : tables[t][s].frame = f
  BY DEF Accounted
<1>7. CASE \E t \in DOMAIN tables : \E s \in DOMAIN tables[t] : tables[t][s].frame = f
  BY <1>1, <1>5, <1>7
<1> QED
  BY <1>2, <1>4, <1>6, <1>7

\* When loads succeed and no break moves down, or wraps, every frame with a mark
\* is in use or was handed out by sbrk, over any sequence of loads, calls and exits
\* (kernel/elf.c:26-132, kernel/process.c:140-163, kernel/syscall.c:160-181).
THEOREM SpecNoFrameLost == Spec => []NoFrameLost
<1>1. Init => TidyOK
  <2> SUFFICES ASSUME Init PROVE Tight /\ BreaksLow
    BY DEF TidyOK
  <2>1. procs = << >>
    BY DEF Init
  <2>2. Live = {}
    BY <2>1 DEF Live
  <2> QED
    BY <2>2, InitTight DEF BreaksLow
<1>2. Inv /\ TidyOK /\ [Next]_vars => TidyOK'
  BY NextTidy
<1>3. Inv /\ TidyOK => NoFrameLost
  <2> SUFFICES ASSUME Inv, TidyOK, pc # "wrecked", Tidy PROVE NoFrameLost
    BY DEF NoFrameLost
  <2>1. MemoryOK /\ TypeOK /\ Accounted
    BY DEF Inv, TidyOK, Tight
  <2> QED
    BY <2>1, TightLosesNone DEF NoFrameLost
<1> QED
  BY <1>1, <1>2, <1>3, Invariance, PTL DEF Spec
=============================================================================
