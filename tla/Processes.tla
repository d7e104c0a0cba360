------------------------------ MODULE Processes ------------------------------
(***************************************************************************)
(* Processes and their address spaces: the loader (kernel/elf.c), the page *)
(* tables (mm/memory.c), kernel/process.c and the system calls exec, exit, *)
(* sbrk, setenv and unsetenv (kernel/syscall.c).  There is one CPU and no  *)
(* scheduler: a process that calls exec sleeps inside its system call, on  *)
(* its own kernel stack, until its child exits.                            *)
(*                                                                         *)
(* An address is counted in units, PageUnits to a page, and is a uint32_t:  *)
(* a sum wraps at AddressSize.  Of a page directory the user part is kept  *)
(* (entries below 768); the frames behind the kernel part are the set       *)
(* kernel, but for the page at 0xE0000000, which every address space has:  *)
(* window.  The kernel heap is the set of the objects allocated from it     *)
(* (KMalloc models the heap itself).                                       *)
(***************************************************************************)
EXTENDS Frames, FiniteSets, Sequences

CONSTANTS MemoryStart,             \* pageFrameMin
          PageUnits,               \* units of address in a page
          TableSize, DirSize,      \* entries of a page table; user entries of a directory
          Pages,                   \* of the address space: those no directory's user
                                   \* entries reach are the kernel's
          StackBase, StackTop,     \* first page of the user stack, first page above it
          MaxArgs,                 \* bound: strings of an argv
          MaxEnv,                  \* PROCESS_MAX_ENV
          Machines                 \* machines and what runs on them: see MachineType

UserPages == DirSize * TableSize
AddressSize == Pages * PageUnits
Addresses == 0 .. AddressSize - 1

\* A program header: where its memory begins, memSize and fileSize, each any
\* number at all, and whether it is PT_LOAD and its part of the file complete.
Kinds == {"load", "other", "short"}
Headers == [at : Addresses, size : Addresses, file : Addresses, kind : Kinds]
ImageType == Seq(Headers)
MachineType ==
    [memoryEnd : Nat,               \* pageFrameMax
     images : SUBSET ImageType,     \* the program files: sequences of segments
     increments : SUBSET Int,       \* what programs pass to sbrk
     keys : SUBSET STRING,          \* the environment variables they set
     records : Nat,                 \* bound: Process structures allocated
     growth : Nat]                  \* bound: frames the kernel heap grows by

ASSUME ProcessesAssumption ==
    /\ MemoryStart \in Nat \ {0}
    /\ PageUnits \in Nat \ {0} /\ TableSize \in Nat \ {0} /\ DirSize \in Nat
    /\ Pages \in Nat /\ UserPages < Pages
    /\ StackBase \in Nat \ {0} /\ StackTop \in StackBase .. UserPages
    /\ MaxArgs \in Nat /\ MaxEnv \in Nat
    /\ Machines \subseteq MachineType

VARIABLES
    machine,  \* which of Machines this is
    used,     \* physMemBitmap
    kernel,   \* frames of the kernel heap and of the kernel's page tables
    window,   \* the frame at 0xE0000000; NoFrame until it has a page table
    dirs,     \* page directories: present entry -> frame of the page table
    tables,   \* page tables: present entry -> [frame, owner]
    heap,     \* live objects of the kernel heap
    procs,    \* the processes executing or waiting for a child; base is the
              \* break they began with, for BreakMapped only
    current,  \* currentProcess
    cr3,      \* frame of the page directory the CPU uses
    tss,      \* whose kernel stack a trap will switch to
    pc,       \* where the kernel, or the current process, is
    job,      \* the locals of ELFLoad and SysSbrk
    lent      \* the frames sbrk has handed out, for NoFrameLost only

memory == <<used, kernel, window, dirs, tables, lent>>
cpu == <<current, cr3, tss>>
vars == <<machine, memory, heap, procs, cpu, pc, job>>

Nobody == 0          \* NULL for currentProcess and parent
KernelDir == 0       \* initialPageDir
Records == 1 .. machine.records
NoJob == [dir |-> KernelDir, record |-> Nobody, segments |-> << >>,
          page |-> 0, end |-> 0, brk |-> 0, argc |-> 0]

ManagedFrames == Managed(MemoryStart, machine.memoryEnd)
Answers == ManagedFrames \cup {NoFrame}

Marked(u, f) == u \cup ({f} \ {NoFrame})

With(f, x, v) == [y \in DOMAIN f \cup {x} |-> IF y = x THEN v ELSE f[y]]
Without(f, S) == [y \in DOMAIN f \ S |-> f[y]]

Word(n) == n % AddressSize

\* Of an address in the last page it is page 0.
PageAbove(address) == Word(address + PageUnits - 1) \div PageUnits
EntryOf(page) == page \div TableSize
SlotOf(page) == page % TableSize

Init ==
    /\ machine \in Machines
    /\ \E f, t \in ManagedFrames :   \* KMallocInit: a page, and its page table
           /\ NextFrame(ManagedFrames, {}, f)
           /\ NextFrame(ManagedFrames, {f}, t)
           /\ kernel = {f, t}
    /\ used = kernel
    /\ window = NoFrame
    /\ dirs = << >>
    /\ tables = << >>
    /\ heap = {}
    /\ procs = << >>
    /\ current = Nobody
    /\ cr3 = KernelDir
    /\ tss = Nobody
    /\ pc = "boot"
    /\ job = NoJob
    /\ lent = {}

\* What a page directory, a page table or a page of the kernel heap at
\* physical address 0 does to the machine is outside the model, as is what a
\* program header does that reaches into the kernel: it stops there.
Wreck == pc' = "wrecked"

\* A call of kmalloc may need frames for the heap and for its page tables,
\* which the scan takes from the lowest one on.
HeapGrowth(next) ==
    \E n \in 0 .. machine.growth :
        LET free == ManagedFrames \ used
            taken == {f \in free : Cardinality({g \in free : g < f}) < n}
        IN /\ Cardinality(kernel) + n <= machine.growth + 3
           /\ used' = used \cup taken
           /\ kernel' = kernel \cup taken
           /\ IF Cardinality(free) < n THEN Wreck ELSE pc' = next

KMalloc(objects, next) ==
    /\ heap' = heap \cup objects
    /\ HeapGrowth(next)

EnvOf(p, keys) == {<<"env", p, k>> : k \in keys}
Strings(p, n) == {<<"argv", p, i>> : i \in 1 .. n}

-----------------------------------------------------------------------------
(* ELFLoad, kernel/elf.c *)

\* The address kmalloc gives the next Process structure.
NewRecord(r) ==
    /\ <<"proc", r>> \notin heap
    /\ \A q \in Records : q < r => <<"proc", q>> \in heap

\* The load of a file with a valid header: the first one, of 1:/bin/init, is
\* kmain's, the others are SysExec's.  The new directory is filled through the
\* window, which goes on showing it until the next load: in every address
\* space, and also when the directory has been released.
ELFLoad(image) ==
    /\ pc \in {"boot", "user"}
    /\ \E r \in Records : NewRecord(r)
    /\ \E d, t \in Answers :   \* ProcessCreateAddressSpace
           /\ NextFrame(ManagedFrames, used, d)
           /\ IF window = NoFrame THEN NextFrame(ManagedFrames, Marked(used, d), t)
                                  ELSE t = d
           /\ used' = Marked(Marked(used, d), t)
           /\ kernel' = IF window = NoFrame THEN Marked(kernel, t) ELSE kernel
           /\ window' = d
           /\ IF NoFrame \in {d, t}
              THEN Wreck /\ UNCHANGED <<dirs, job>>
              ELSE /\ pc' = "segment"
                   /\ dirs' = With(dirs, d, << >>)
                   /\ job' = [NoJob EXCEPT !.dir = d, !.segments = image]
    /\ UNCHANGED <<tables, heap, procs, cpu, lent>>

\* return NULL: to kmain, or as -1 to the program.  The address space stays.
GiveUp ==
    /\ pc' = IF current = Nobody THEN "prompt" ELSE "user"
    /\ job' = NoJob

\* The next program header; a PT_LOAD one gets a buffer for its file part.
LoadSegment ==
    /\ pc = "segment" /\ job.segments # << >>
    /\ LET s == Head(job.segments)
       IN \/ /\ s.kind = "other" \/ s.size = 0   \* continue
             /\ job' = [job EXCEPT !.segments = Tail(@)]
             /\ UNCHANGED <<used, kernel, heap, pc>>
          \/ /\ s.kind # "other" /\ s.size # 0 /\ s.file = 0   \* kmalloc(0) is NULL
             /\ GiveUp
             /\ UNCHANGED <<used, kernel, heap>>
          \/ /\ s.kind # "other" /\ s.size # 0 /\ s.file # 0
             /\ KMalloc({<<"kbuf">>}, IF s.kind = "load" THEN "map" ELSE "short")
             /\ job' = [job EXCEPT !.page = s.at \div PageUnits,
                                   !.end = PageAbove(s.at + s.size)]
    /\ UNCHANGED <<window, dirs, tables, procs, cpu, lent>>

\* bytesRead != ph.fileSize.
ShortRead ==
    /\ pc = "short"
    /\ heap' = heap \ {<<"kbuf">>}
    /\ GiveUp
    /\ UNCHANGED <<memory, procs, cpu>>

\* Mutant: the page goes into the directory in use.
Target_Current(dir) == IF cr3 = KernelDir THEN dir ELSE cr3

\* ProcessMapPage switches to the directory it is given.
Target(dir) == dir

\* One turn of the loop of AllocUserRange, or of that of SysSbrk: a frame for
\* the page, then one for the page table if MemMapPage finds none.
MapNext ==
    /\ pc \in {"map", "stack", "sbrk"} /\ job.page < job.end /\ job.page < UserPages
    /\ \E f, t \in Answers :
           LET d == Target(job.dir)
               entry == EntryOf(job.page)
               present == entry \in DOMAIN dirs[d]
               table == IF present THEN tables[t] ELSE << >>
               leaf == [frame |-> f, owner |-> pc # "sbrk"]
           IN /\ NextFrame(ManagedFrames, used, f)
              /\ IF present THEN t = dirs[d][entry]
                            ELSE NextFrame(ManagedFrames, Marked(used, f), t)
              /\ used' = Marked(Marked(used, f), t)
              /\ lent' = IF pc = "sbrk" THEN Marked(lent, f) ELSE lent
              /\ IF t = NoFrame
                 THEN Wreck /\ UNCHANGED <<dirs, tables, job>>
                 ELSE /\ dirs' = [dirs EXCEPT ![d] = With(@, entry, t)]
                      /\ tables' = With(tables, t, With(table, SlotOf(job.page), leaf))
                      /\ job' = [job EXCEPT !.page = @ + 1]
                      /\ UNCHANGED pc
    /\ UNCHANGED <<kernel, window, heap, procs, cpu>>

\* Nothing keeps a segment out of the kernel's pages: MemMapPage maps them
\* anew, for everybody.
MapKernel ==
    /\ pc = "map" /\ job.page < job.end /\ job.page >= UserPages
    /\ Wreck
    /\ UNCHANGED <<memory, heap, procs, cpu, job>>

Mapped(d) == {page \in 0 .. UserPages - 1 :
                  /\ EntryOf(page) \in DOMAIN dirs[d]
                  /\ SlotOf(page) \in DOMAIN tables[dirs[d][EntryOf(page)]]}


Following(segments) == Tail(segments)

\* The pages memcpy and memset write: more than were mapped for the segment
\* when fileSize exceeds memSize or the end of the segment wrapped.
Larger(a, b) == IF a > b THEN a ELSE b
Written(s) == s.at \div PageUnits .. (s.at + Larger(s.size, s.file) - 1) \div PageUnits

\* The segment is copied into its pages and the buffer released.  A write to
\* a page that is not there halts the machine, one to a page of the kernel
\* overwrites it.
EndSegment ==
    /\ pc = "map" /\ job.page >= job.end
    /\ LET s == Head(job.segments)
           segEnd == Word(s.at + s.size)
       IN \/ /\ Written(s) \subseteq Mapped(job.dir)
             /\ job' = [job EXCEPT !.segments = Following(@), !.brk = Larger(segEnd, @)]
             /\ heap' = heap \ {<<"kbuf">>}
             /\ pc' = "segment"
          \/ /\ ~(Written(s) \subseteq Mapped(job.dir))
             /\ Wreck
             /\ UNCHANGED <<job, heap>>
    /\ UNCHANGED <<memory, procs, cpu>>

\* After the last header: the break is rounded up, the stack follows.
BeginStack ==
    /\ pc = "segment" /\ job.segments = << >>
    /\ job' = [job EXCEPT !.brk = PageAbove(@) * PageUnits,
                          !.page = StackBase, !.end = StackTop]
    /\ pc' = "stack"
    /\ UNCHANGED <<memory, heap, procs, cpu>>

\* EnvInherit copies every entry.
Inherited(r) == IF current = Nobody THEN {} ELSE EnvOf(r, procs[current].env)

CreateRecord ==
    /\ pc = "stack" /\ job.page = job.end
    /\ \E r \in Records :
           /\ NewRecord(r)
           /\ KMalloc({<<"proc", r>>} \cup Inherited(r), "args")
           /\ job' = [job EXCEPT !.record = r]
    /\ UNCHANGED <<window, dirs, tables, procs, cpu, lent>>

-----------------------------------------------------------------------------
(* SysExec, ProcessExecute, SysExit *)

\* SysExec copies the argv of its caller; kmain passes none.
CopyArgs ==
    /\ pc = "args"
    /\ \E n \in 0 .. (IF current = Nobody THEN 0 ELSE MaxArgs) :
           /\ KMalloc(Strings(job.record, n), "execute")
           /\ job' = [job EXCEPT !.argc = n]
    /\ UNCHANGED <<window, dirs, tables, procs, cpu, lent>>

CallerOf(r) == current

\* A kernel stack, the new process on the CPU, its arguments moved from the
\* heap to its user stack, and the jump to user mode.
ProcessExecute ==
    /\ pc = "execute"
    /\ LET r == job.record
           env == IF current = Nobody THEN {} ELSE procs[current].env
           args == Strings(r, job.argc)
       IN /\ HeapGrowth("user")
          /\ heap' = (heap \cup {<<"kstack", r>>}) \ args
          /\ procs' = With(procs, r, [dir |-> job.dir, parent |-> CallerOf(r),
                                      base |-> job.brk, brk |-> job.brk,
                                      env |-> env])
          /\ current' = r
          /\ cr3' = job.dir
          /\ tss' = r
          /\ job' = NoJob
    /\ UNCHANGED <<window, dirs, tables, lent>>

TablesOf(dir) == {dirs[dir][e] : e \in DOMAIN dirs[dir]}
Leaves(dir) == UNION {{tables[t][s] : s \in DOMAIN tables[t]} : t \in TablesOf(dir)}
OwnedBy(dir) == {leaf.frame : leaf \in {l \in Leaves(dir) : l.owner}}

\* Mutant: the loop over the directory runs to 1024, into the kernel part.
Released_Kernel(dir) == {dir} \cup TablesOf(dir) \cup OwnedBy(dir) \cup kernel

\* Mutant: the page tables themselves are kept.
Released_KeepTables(dir) == {dir} \cup OwnedBy(dir)

\* What ProcessFreePages releases: the pages marked as the loader's, the page
\* tables and the directory.
Released(dir) == {dir} \cup TablesOf(dir) \cup OwnedBy(dir)

\* Mutant: the kernel stack is kept.
FreedAtExit_NoStack(p) == EnvOf(p, procs[p].env)

FreedAtExit(p) == {<<"kstack", p>>} \cup EnvOf(p, procs[p].env)

\* Mutant: the kernel stack of the parent is not set.
StackFor_Unchanged(parent) == tss

\* kmain runs on the boot stack and sets none.
StackFor(parent) == IF parent = Nobody THEN tss ELSE parent

SysExit ==
    /\ pc = "user"
    /\ LET dir == procs[current].dir
           parent == procs[current].parent
       IN /\ used' = used \ Released(dir)
          /\ dirs' = Without(dirs, {dir})
          /\ tables' = Without(tables, TablesOf(dir))
          /\ heap' = heap \ FreedAtExit(current)
          /\ procs' = Without(procs, {current})
          /\ current' = parent
          /\ cr3' = IF parent = Nobody THEN KernelDir ELSE procs[parent].dir
          /\ tss' = StackFor(parent)
          /\ pc' = "returned"
          /\ job' = [NoJob EXCEPT !.record = current]
    /\ UNCHANGED <<kernel, window, lent>>

\* What follows the call of ProcessExecute, in SysExec and in kmain.
AfterExecute ==
    /\ pc = "returned"
    /\ IF current = Nobody
       THEN /\ heap' = heap \ {<<"proc", job.record>>}
            /\ pc' = "prompt"
            /\ UNCHANGED <<cr3, tss>>
       ELSE /\ cr3' = procs[current].dir
            /\ tss' = current
            /\ pc' = "user"
            /\ UNCHANGED heap
    /\ job' = NoJob
    /\ UNCHANGED <<memory, procs, current>>

-----------------------------------------------------------------------------
(* sbrk, setenv, unsetenv *)

\* The one test there is: a sum that wrapped passes it or not, like any other.
BreakAllowed(brk) == brk < StackBase * PageUnits

\* Mutant: the page the new break is in is left out.
NewPage_Below(newBrk) == newBrk \div PageUnits

\* Where the loop ends.
NewPage(newBrk) == PageAbove(newBrk)

\* Giving memory back only moves the break: its pages stay mapped.
SysSbrk(increment) ==
    /\ pc = "user"
    /\ LET oldBrk == procs[current].brk
           newBrk == Word(oldBrk + increment)
       IN /\ BreakAllowed(newBrk)
          /\ job' = [NoJob EXCEPT !.dir = procs[current].dir, !.brk = newBrk,
                                  !.page = PageAbove(oldBrk), !.end = NewPage(newBrk)]
    /\ pc' = "sbrk"
    /\ UNCHANGED <<memory, heap, procs, cpu>>

EndSbrk ==
    /\ pc = "sbrk" /\ job.page >= job.end
    /\ procs' = [procs EXCEPT ![current].brk = job.brk]
    /\ pc' = "user"
    /\ job' = NoJob
    /\ UNCHANGED <<memory, heap, cpu>>

\* EnvSet: an old entry is freed before the new one is made; a full table
\* takes no other key.
SysSetEnv(key) ==
    /\ pc = "user"
    /\ key \in procs[current].env \/ Cardinality(procs[current].env) < MaxEnv
    /\ KMalloc(EnvOf(current, {key}), pc)
    /\ procs' = [procs EXCEPT ![current].env = @ \cup {key}]
    /\ UNCHANGED <<window, dirs, tables, cpu, job, lent>>

SysUnsetEnv(key) ==
    /\ pc = "user"
    /\ heap' = heap \ EnvOf(current, {key})
    /\ procs' = [procs EXCEPT ![current].env = @ \ {key}]
    /\ UNCHANGED <<memory, cpu, pc, job>>

-----------------------------------------------------------------------------
\* The steps of the kernel; it is not preempted, so they follow one another.
Kernel ==
    /\ \/ pc = "boot" /\ \E image \in machine.images : ELFLoad(image)
       \/ LoadSegment \/ ShortRead \/ MapNext \/ MapKernel \/ EndSegment \/ BeginStack
       \/ CreateRecord \/ CopyArgs \/ ProcessExecute \/ AfterExecute \/ EndSbrk
    /\ UNCHANGED machine

\* The system calls a program may make.
User ==
    /\ \/ pc = "user" /\ \E image \in machine.images : ELFLoad(image)
       \/ SysExit
       \/ \E increment \in machine.increments : SysSbrk(increment)
       \/ \E key \in machine.keys : SysSetEnv(key) \/ SysUnsetEnv(key)
    /\ UNCHANGED machine

\* kmain's prompt, after the last process, reads lines for ever.
Prompt == pc \in {"prompt", "wrecked"} /\ UNCHANGED vars

Next == Kernel \/ User \/ Prompt

Spec == Init /\ [][Next]_vars

\* With nobody to preempt it the kernel goes on until it is done; a program
\* need never make another system call.
FairSpec == Spec /\ WF_vars(Kernel)

-----------------------------------------------------------------------------
Live == DOMAIN procs

AllTables == UNION {TablesOf(d) : d \in DOMAIN dirs}
FramesAsPages(d) == {leaf.frame : leaf \in Leaves(d)} \ {NoFrame}
AllPages == UNION {FramesAsPages(d) : d \in DOMAIN dirs}
FramesIn(d) == {d} \cup TablesOf(d) \cup FramesAsPages(d)

\* A frame in an address space is marked in the bitmap, so that it cannot be
\* handed out again, and has one use.
OneUse ==
    /\ DOMAIN dirs \cup DOMAIN tables \cup AllPages \cup kernel \subseteq used
    /\ AllTables = DOMAIN tables
    /\ DOMAIN dirs \cap (AllTables \cup AllPages \cup kernel) = {}
    /\ AllTables \cap (AllPages \cup kernel) = {}
    /\ AllPages \cap kernel = {}
    /\ \A d, e \in DOMAIN dirs : \A i \in DOMAIN dirs[d], j \in DOMAIN dirs[e] :
           dirs[d][i] = dirs[e][j] => d = e /\ i = j
    /\ \A t, u \in DOMAIN tables : \A i \in DOMAIN tables[t], j \in DOMAIN tables[u] :
           tables[t][i].frame = tables[u][j].frame /\ tables[t][i].frame # NoFrame
           => t = u /\ i = j

\* The window shows no frame of a process that waits.
WindowApart == \A p \in Live \ {current} : window \notin FramesIn(procs[p].dir)

\* Whatever is loaded, aborted, executed and released: a frame in the user
\* part of an address space is marked in the bitmap and has one use; it is one
\* page of one address space, or one page table of one directory, or one
\* directory, or the kernel's.  Two frames are the exception.  Frame 0, the
\* page a program gets when memory is exhausted, is shared; and the one the
\* window shows, in all address spaces and for the program to write: the
\* directory loaded last.  It stays there when it is released, so it may be
\* free, or the kernel's, or of the process that runs; never does it belong to
\* a process that waits for its child
\* (mm/memory.c:76-110, kernel/elf.c:11-21, kernel/process.c:12-19, 140-163).
Isolation == OneUse /\ WindowApart

Space(d) == [page \in Mapped(d) |-> tables[dirs[d][EntryOf(page)]][SlotOf(page)].frame]

\* The CPU is always set up for currentProcess, also after a child's exit and
\* after an aborted load: its directory is in CR3 and its kernel stack in the
\* TSS.  Nothing it or a sleeping ancestor needs has been released, and every
\* ancestor waits for exactly one child: the chain of parents is the stack of
\* calls (kernel/syscall.c:21-64, 89-99, kernel/process.c:107-108).
ContextIntact ==
    /\ current = Nobody => cr3 = KernelDir
    /\ current # Nobody => cr3 = procs[current].dir /\ tss = current
    /\ \A p \in Live : /\ <<"kstack", p>> \in heap /\ <<"proc", p>> \in heap
                       /\ procs[p].dir \in DOMAIN dirs
                       /\ StackBase .. StackTop - 1 \subseteq Mapped(procs[p].dir)
                       /\ Cardinality({q \in Live : procs[q].parent = p})
                             = IF p = current THEN 0 ELSE 1

\* However the break moves, up, down and up again, by parts of pages, and by
\* increments so far below zero that the sum wraps and the break rises: what
\* lies between where it began and where it is now is mapped, and once it has
\* moved it is below the stack, where it may not have begun if a segment lies
\* above (kernel/syscall.c:160-181).
BreakMapped ==
    \A p \in Live :
        /\ procs[p].brk = procs[p].base \/ procs[p].brk < StackBase * PageUnits
        /\ \A address \in procs[p].base .. procs[p].brk - 1 :
               address \div PageUnits \in Mapped(procs[p].dir)

Loading == IF job.dir \in DOMAIN dirs THEN {job.dir} ELSE {}

\* A program that loads without fault, and of which no page belongs to two
\* segments, or to a segment and the stack, the first of which would lose its
\* frame.
PagesIn(s) == s.at \div PageUnits .. PageAbove(s.at + s.size) - 1

Sound(image) ==
    /\ \A i \in DOMAIN image :
           /\ image[i].kind # "short" /\ image[i].file # 0
           /\ image[i].at + image[i].size < (StackBase - 1) * PageUnits
    /\ \A i, j \in DOMAIN image : PagesIn(image[i]) \cap PagesIn(image[j]) # {} => i = j

\* When every load succeeds and no program gives memory back, or asks for so
\* much that the sum wraps, frames are not lost: one that is marked has a use,
\* unless sbrk handed it out; those are not released at exit
\* (kernel/syscall.c:175-176, kernel/process.c:150).  A break that moved down
\* and up again maps its pages anew, over the frames they had.
Tidy ==
    /\ machine.increments \subseteq 0 .. AddressSize - StackBase * PageUnits
    /\ \A image \in machine.images : Sound(image)

NoFrameLost ==
    pc # "wrecked" /\ Tidy =>
        used \ lent \subseteq
            kernel \cup UNION {FramesIn(d) : d \in {procs[p].dir : p \in Live} \cup Loading}

\* What the live processes hold of the kernel heap, and what a load does.
Owned == UNION {{<<"kstack", p>>} \cup EnvOf(p, procs[p].env) : p \in Live}
Passing == (IF pc \in {"map", "short"} THEN {<<"kbuf">>} ELSE {})
           \cup (IF pc \in {"args", "execute"} THEN Inherited(job.record) ELSE {})
           \cup (IF pc = "execute" THEN Strings(job.record, job.argc) ELSE {})

\* The kernel heap holds the stacks and environments of the live processes,
\* what a load in progress has allocated and nothing else, but for Process
\* structures: only kmain releases one (kernel/syscall.c:68-102, kernel/kernel.c:109-110).
HeapExact == pc # "wrecked" => {o \in heap : o[1] # "proc"} = Owned \cup Passing

Callers == [p \in Live |-> procs[p].parent]
SpaceOf == [d \in DOMAIN dirs |-> Space(d)]
Spaces == [p \in Live |-> SpaceOf[procs[p].dir]]

Abstract == INSTANCE ProcessSpec
    WITH running <- current,
         Stack <- StackBase .. StackTop - 1,
         caller <- Callers,
         space <- Spaces

\* A process keeps its memory while a child runs, a new one gets frames
\* nobody has, and the caller goes on when its child is over.
Implements == Abstract!Spec

=============================================================================
