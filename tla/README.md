# cyOS in TLA+

cyOS is a small 32-bit x86 operating system: a kernel with a physical frame
allocator, a heap, per-process address spaces, an ELF loader, a trap-based
system call interface, a terminal, ATA disks with FAT32 volumes (through FatFs, whose source is in the tree),
and a handful of user programs with a small C library. One CPU, no scheduler:
a process runs until it calls `exec`, whose child runs to its `exit` before the
parent continues, so processes form a stack. Concurrency comes from interrupts
(keyboard, timer), which stay enabled in system calls because the system call
gate is a trap gate (`arch/x86/idt.c`), and from the disk, which works while the
CPU polls it.

## Inventory

| component | state | operations | hard parts | what makes it correct |
|---|---|---|---|---|
| Frame allocator, `mm/memory.c` | bitmap of frames, count | PMMAllocPageFrame, PMMFreePageFrame | rounding of the managed range to bytes, exhaustion returns frame 0, no check of double release | a frame handed out is memory, above the kernel, and nobody else's |
| Page tables, `mm/memory.c` | directory in CR3, kernel directory | MemMapPage, MemChangePageDir, SyncPageDirs | overwriting a mapping, kernel entries copied once per process | a frame has one use |
| Kernel heap, `mm/kmalloc.c` | list of block headers, heap size | kmalloc, kfree, krealloc, ChangeHeapSize | splitting, growth, coalescing | blocks partition mapped memory; callers' bytes are apart |
| Processes, `kernel/process.c`, `elf.c`, `syscall.c` | `currentProcess`, process records, kernel stacks, TSS, CR3 | ELFLoad, ProcessExecute, exec, exit, sbrk | resources released while in use, aborted loads, nested processes, headers nobody checks, a break that wraps | isolation; after a child the parent runs on, unchanged |
| Descriptors, `kernel/fd.c`, `filefd.c`, `dirfd.c` | table of 16 descriptors per process | open, opendir, read, write, seek, close, inheritance | a child inherits pointers to the parent's file objects | no descriptor points to a freed object |
| Keyboard, `dev/ps2.c`, `kernel/inbuffer.c` | modifier keys, ring of 128 characters | interrupt handler, InBufferPutC, InBufferGetC | two reads of the port, interrupt against reader, ring without a full test | characters as meant, in order, none twice |
| Terminal, `kernel/tty.c` | line being read | TTYRead, TTYWrite | backspace over wrapped and scrolled text | the echo is the line |
| Console, `kernel/ansi.c`, `dev/vga.c` | escape-sequence parser, cursor, cells | ANSIPutC, VGA operations | break pending at the last column, numbers from programs | the screen shows what was printed |
| Environment, `kernel/env.c`, `usr/lib/stdlib.c` | a table in the kernel and a list in the library | setenv, unsetenv, getenv, inheritance | two copies, a fixed-size table | what was set is read, here and in a child |
| Disks, `dev/ata.c`, `kernel/blockdev.c` | drives | detection, read, write, flush | polling with a timeout, commands of 255 sectors, late errors | a call that succeeds has moved exactly its sectors |
| Files, `fs/fatfs/ff.c` under `kernel/filefd.c`, `dirfd.c` | window of one sector, counts of free clusters, a FIL per open file, a DIR per open directory; on disk the FATs, directories, clusters | f_open, f_read, f_write, f_lseek, f_sync, f_close, f_opendir, f_readdir, f_stat | many writes for one call, any of which fails or is the last before a power cut; short names made from long ones; a full volume | chains are apart and end, names are apart, a file that was closed is safe |
| Volumes, `kernel/mbr.c`, `fs/fatfs.c`, mounting in `ff.c` | `VolToPart`, next number, place of each mounted volume | registration of partitions, f_mount, mount on demand | numbers run out, a first sector that cannot be read, a partition without a volume, a mount at boot whose failure nobody looks at | a number means one partition, the same for ever |
| Paths and names, `kernel/path.c`, path calls of `syscall.c`, `usr/src/cysh.c` | `cwd` of each process | PathResolve, chdir, opendir, stat, open, exec; search along PATH | texts of 255 characters, 32 parts of 63, an array that is not initialised, text written past an array | a path leads where a walk from the current directory leads |
| C library, `usr/lib` | heap, environ | malloc, free, realloc, setenv, qsort, printf | second heap, second environment | as for the kernel's |
| Programs, `usr/src` | BASIC program, shell line | interpreter, shell, utilities | sorted list of lines on the heap, GOTO | the list is the program |
| Start, `kernel/kernel.c` | | drives, volumes, first program, prompt | each step may fail and the next goes on | the first program runs, or the prompt does |
| Boot, GDT, IDT, timer, clock, PCI, serial | hardware tables | initialisation | none that a model adds to | |

They interact in three ways. System calls (`kernel/syscall.c`) lead from a
program to processes, descriptors, environment and terminal, on the kernel
stack of the process. These call the heap and the frame allocator, or resolve
a path and call FatFs, which calls the disk. Interrupts
share the keyboard ring with whoever reads, and the disk shares its registers
with the driver.

## Modules

| module | models | composed with |
|---|---|---|
| `BlockList` | operators on a list of block headers, common to both heaps | |
| `KMalloc` | `mm/kmalloc.c`; one action per call, `kreallocMove` is the whole call with its `kmalloc` and `kfree` | EXTENDS `BlockList`, implements `HeapSpec` |
| `Frames`, `PageFrames` | `mm/memory.c:1-50, 130-140`: range of frames, bitmap, allocation, release | `PageFrames` EXTENDS `Frames`; `Processes` uses `Frames` |
| `Processes` | `kernel/process.c`, `elf.c`, the process calls of `syscall.c`, page tables of `mm/memory.c`; one action per place where an allocation may fail or memory changes hands | implements `ProcessSpec` |
| `Descriptors` | `kernel/fd.c`, `filefd.c`, `dirfd.c` | |
| `InputRing` | `kernel/inbuffer.c`, load by load | implements `KeyQueue` |
| `Keyboard` | the handler of `dev/ps2.c`, with its two reads of the port | EXTENDS `InputRing`: the handler interrupts the reader |
| `Disk` | `dev/ata.c:1-30, 90-245`, `kernel/blockdev.c`, and a drive that works on its own | |
| `Screen`, `Console` | `dev/vga.c`; the parser of `kernel/ansi.c` | `Console` EXTENDS `Screen` |
| `Terminal` | `kernel/tty.c` | EXTENDS `Console`, implements `Paper` |
| `FatTable` | the single transfers of `fs/fatfs.c` and `ff.c`: window, FAT entries, chains, FSInfo | |
| `FatNames`, `FatDirectory` | long and short names; directory search, registration and reading of `ff.c` | each EXTENDS the one before |
| `FatFiles` | f_open, f_read, f_write, f_lseek, f_sync, f_close, f_opendir, f_readdir, f_stat | EXTENDS `FatDirectory` |
| `Files` | `kernel/filefd.c`, `dirfd.c` and SysStat on one volume, power cuts and the next mount | EXTENDS `FatFiles`, implements `FileSpec` |
| `Paths` | `kernel/path.c`, on the pieces of a text, with its three limits | |
| `Volumes` | registration in `fs/fatfs.c` and `kernel/mbr.c`, find_volume and mount_volume of `ff.c` | |
| `Naming` | `kernel/kernel.c` from the drives to the first program, the calls of `syscall.c` that take a path, the command search of `usr/src/cysh.c` | EXTENDS `Paths` and `Volumes`, implements `NameSpec` |
| `Environment` | `kernel/env.c`, `setenv`, `unsetenv`, `getenv` of `usr/lib/stdlib.c`, `usr/lib/libc.c` | |
| `UserMalloc` | `malloc` and `free` of `usr/lib/stdlib.c` | EXTENDS `BlockList` |
| `Basic` | `usr/src/basic.c` | EXTENDS `UserMalloc`, implements `BasicSpec` |

The abstract specifications say what a client sees. `HeapSpec`: a pointer is
aligned, not null and its bytes are nobody else's. `ProcessSpec`: processes are
a stack; each keeps its memory while a child runs. `KeyQueue`: characters come
in order, none twice, none passed over unless the reader was a whole buffer
behind. `Paper`: an endless strip of lines of which the screen shows the last.
`BasicSpec`: a program is a function from numbers to texts, run in their order.
`FileSpec`: a write-behind store, where each file exists as programs see it, as
the next to open it will, and as a power cut leaves it; each of the three only
follows the ones above it, and a close that succeeds makes them equal.
`NameSpec`: every process stands in a directory and walks from there, a child
starts where its parent stands and moves alone, a number of a volume keeps its
meaning; names beyond a limit may lead elsewhere or end everything.

Variables have the names of the code where it has one (`hdr` is the list from
`heapHead`, `procs` the Process records, `inputBuffer`, `bufferStart`,
`parser`, `ttyLine`, `envp`, `environ`, `programHead`). Auxiliary variables,
which no guard of the code reads, are `held` (pointers callers have), `lent` (frames of
sbrk), `opened` and `orphans` (who opened what), `typed` and `last` (numbers of
characters), `held`, `lock`, `expected`, `crowded` of the keyboard, and the
record of a disk call, `view` of `Files` (the three stores of `FileSpec`), the names a listing has
returned, and `call` and `misread` of `Naming`.

In `Files` one call is one action, since no other program runs in a system
call; its intermediate states are what a power cut leaves: `cut` is the number
of the write before which the power goes, `kept` the disk as of that write, and
`fails` which single transfer of the call fails.

## Runs

| run | what it asks | bounds |
|---|---|---|
| `kmalloc` | every sequence of calls: partition, complete coalescing, used blocks are the callers', all mapped (`HeapSound`), `HeapSpec` | header 16, split at 32 as in the code, requests 8, 41, 80, heap up to 224 bytes, pages of 64 |
| `page_frames` | frames are memory above the kernel, bitmap exact, at most 22 frames wasted | memories with every end modulo 8, several ends of the kernel |
| `processes` | isolation, CPU context, break mapped, no frame lost (where loads succeed and breaks move up), kernel heap exact, `ProcessSpec`, every kernel path ends | machine `Nested`: three processes deep, good programs, break moved up, one variable; `Faults`: two processes, programs that do not load, too little memory at every point, break moved both ways; `Wild`: headers with any numbers, breaks that wrap; `Full`: a full environment, a heap that grows to the last frame; eight pages in all, six of them a process's |
| `descriptors` | no dangling descriptor, every object has one owner who reaches it | two free numbers, three objects, three processes, each closes what it opened |
| `descriptors_shared` | the finding below | the same, and a process may close what it inherited |
| `disk` | a successful read or write is exact, nothing outside its range changes, a success leaves the drive at rest, calls return | three sectors, commands of two, calls of three, errors and timeouts at every poll |
| `terminal` | the echo is the line, the prompt stays, erases erase their side, movements as typed, `Paper` | screen 2 x 3, lines of three characters, four programs of characters and sequences, int of 47 |
| `keyboard` | characters as meant, `KeyQueue`, delivery | four presses and releases, ring of two |
| `environment` | the kernel's copy follows (of keys no other answers for, and all of it if it never was full), what is set is read, a child is apart | table of two, list of three, three keys that begin alike, two processes |
| `basic` | the list on the heap is the program, `BasicSpec`, a straight run ends | three line numbers, eight texts, sizes of the code |
| `files` | chains apart and as long as their files, on the disk at every write too; no cluster lost; names apart; listings complete and without repeats; writes and seeks that stop short only where no cluster is left; `FileSpec` | six clusters, three of them free, two files open at once, four mixes of calls (`Data`, `Again`, `Troubled`, `Names`) of up to seven calls |
| `naming` | the current directory stands, numbers mean their partitions, `NameSpec` | four arrangements of two drives, two processes deep, texts of twelve characters and their end, parts of three characters, four parts, three volumes |

Bounds are chosen by the case that must happen: two neighbours that merge on
both sides of a release and a remainder too small to split (`kmalloc`), a page
shared by two segments, a load that fails at each allocation, a segment whose
end wraps, one above the stack, one with more in the file than in memory, an
increment far enough below zero to raise the break, and a grandchild
(`processes`), a command boundary
within a call (`disk`), a full line at the bottom of a full screen
(`terminal`), a write that ends inside a sector, spans a cluster and finds the
volume full, a transfer that fails and a power cut at each of the writes of a
call (`files`), three long names that want the same short name in a directory
that has to grow while it is listed (`files`), a text, a part and a number of
parts at and just past each limit (`naming`), a ring gone round twice (`keyboard`), a full table
(`environment`), a node removed between two others and its place reused
(`basic`). Each property is known to fail when one definition of its model is
replaced by a variant with a plausible bug, the operators named
`<definition>_<variant>`. For both heaps, frames, processes, descriptors, ring and keyboard, disk,
environment, BASIC and naming the proofs remove the bounds.

`CHECK_DEADLOCK FALSE` stands where the system stops: the machine is reset or
all keys are typed (`keyboard`), BASIC ends, crashes or loops (`basic`), and
the calls of a mix are all made (`files`).

Two assumptions bound what programs do. In `descriptors` a program closes only
what it opened. In `files` a file that is open for writing is not opened a
second time: FatFs is built without its lock (`ffconf.h:265`, `FF_FS_LOCK` 0),
and FatFs leaves that case to its caller.

`naming` also covers what happens past the limits. A text that does not fit is cut,
and the rest may be another path (`../../..` cut before its last dots); a part
that fills its place is read on into what the stack held (`Leftovers`, empty
or one character); a text written past its array loses everything (result
`lost`). `NameSpec` allows these for such names only.

### Fairness

`processes`: kernel code that is not waiting goes on; programs need
never make a call. `disk`: the CPU goes on polling, and the drive ends what it
has begun; a poll that gives up needs no such help, but the wait for the flush
has no bound. `keyboard`: an interrupt is taken and returns, and the reader
runs in between. `basic`: the interpreter goes on while it is not at its
prompt. With one CPU and no scheduler nothing competes with these.

### Finding

`descriptors_shared`: a child inherits the parent's descriptors as copies of
its pointers (`kernel/fd.c:24`); its `close` frees the object, and the parent's
descriptor points to freed memory. The comment at `kernel/fd.c:25-26` regrets
the missing reference count. `descriptors` shows that programs which close
only what they opened are safe.

## Proofs

All proofs are for every value of the constants under the ASSUMEs of the modules.
The modules are `BlockListProofs` (lemmas for both heaps), `KernelMemoryProofs`
(`KMalloc`, `PageFrames`), `KeyboardProofs` (`InputRing`, `Keyboard`),
`TablesProofs` (`Environment`, `Descriptors`), `ProcessesProofs`, `DiskProofs`,
`BasicProofs` and `NamingProofs` (`Paths`, `Volumes`, `Naming`).

- `KernelMemoryProofs!Safety`: the heap is a partition without free neighbours, its
  used blocks are what callers hold, all mapped. The invariant adds to
  the parts of `HeapSound` the types of headers, the alignment of blocks and the
  exact number of pages: a growth keeps up only if the pages were exact before.
  `BlockListProofs` has a lemma per list operation: split, extend, append and
  absorb each keep the partition; `Release` is two absorptions.
- `KernelMemoryProofs!Refinement`: every step is a step of `HeapSpec`. That a new
  pointer is apart from all others follows from the partition: different used
  blocks have no common byte, and a caller's bytes fit in its block.
- `KernelMemoryProofs!FramesSafety`, `Waste`: frames are memory above the kernel,
  bitmap, count and callers agree; the waste of rounding is at most 22 frames.
  The invariant adds that the used frames are a finite set, whose cardinality the
  count is.
- `KeyboardProofs!RingImplementsQueue`: the ring implements `KeyQueue` for
  every size and every interleaving. The invariant: both indices are the
  places of the next character, even after the reader was overrun, and
  each place has the newest character of that place. A character found at the
  start index is then congruent to the one expected, so it is that one or one
  a whole round later. The arithmetic is in lemmas on division.
- `KeyboardProofs!KeyboardImplementsQueue`: the same under the keyboard, since
  every step of it is a step of the ring or none of the ring's business.
- `KeyboardProofs!KeyboardTypesAsMeant`: the characters put are the ones
  meant. The invariant relates the modifiers the driver remembers to the keys
  held, with the one code between the two reads of the port taken into account;
  it speaks of behaviours in which no code has queued up behind another.
- `TablesProofs!NothingDangles`, `Ownership`: under the assumption of the
  run, no process closes what it did not open. The invariant says that what a
  waiting process uses, every process started after it has unchanged and has not
  opened itself, so a close never hits a descriptor of another process; and that what a
  process uses without having opened it, its parent uses too, so an exit loses
  no object but those it leaves open.
- `ProcessesProofs!SpecIsolation`, `SpecContextIntact`, `SpecBreakMapped`,
  `SpecHeapExact`: for any amount of memory, any programs (their headers hold any
  numbers, their loads fail at any place, their breaks wrap), any depth of
  processes. One invariant serves all four. `MemoryOK`
  partitions the used frames into directories, page tables, pages and the
  kernel's, and every table hangs in one place; `Standing` says what a process
  has, and that the live processes are in one order of calls (`CallChain`), from
  which it follows that each ancestor waits for one child; `JobOK` and
  `LoadOK` say what a load has built so far, so that each way it may be given
  up leaves the rest as it was. `WindowApart` follows from the order of calls: a
  process begins to wait when its child is loaded, and then the page shows the
  child's directory, which has no other use. That a break which wraps stays
  mapped needs only the test of the sum (`BreakAllowed`): whatever the sum is, the
  loop maps every page from the old break's to the new one's, if there are any,
  and all of them lie below the stack. An exit takes a directory, its tables and its
  pages out of the partition at once; a mapping adds at most one of each.
- `ProcessesProofs!SpecImplements`: the same invariant shows that each step is
  a step of `ProcessSpec` or none of its business: the memory of a process is
  the function from its pages to frames, and a page mapped for a child is none
  of its ancestors' since the frame came out of the bitmap.
- `ProcessesProofs!SpecNoFrameLost`: an invariant of its own (`Tight`), on
  machines whose programs load without fault and move the break only up, by sums
  that do not wrap: a page is
  mapped only where none was, since segments have no page in common, the
  stack is above them, and the pages above the break are not mapped.
- `DiskProofs!SpecTransferExact`, `SpecQuietAfterSuccess`,
  `SpecChangesOnlyInRange`: for any disk, any length of commands, and a drive
  that is late or fails at any sector. The invariant keeps driver and drive in
  step (`InStep`): what the driver counts as done has moved, the drive is at
  the next sector of the same command or still writes the last one, or has
  failed and is at rest. A command ends at a multiple of its length or at the
  end of the call (`Boundary`); there alone may an error show up late.
- `TablesProofs!SpecKernelFollows`, `SpecSetIsRead`, `SpecChildApart`: for
  any keys and values, one beginning another or with separators in it, and any
  size of the kernel's table. An entry answers to two keys only if one goes on
  from the other with a separator (`OneKey`); of a key of which no other does, each
  table has one entry at most (`Once`), and the kernel's is the library's.
- `BasicProofs!Safety`: for any line numbers and texts, the list of nodes is
  sorted, without repeats, and with the environment it is what is in use on
  the heap. `Heap` is the partition of `BlockListProofs`, shared with the kernel;
  `Owned` says that the used blocks are the nodes and the environment; `Chain` says where
  the list begins, how it goes on, that it reaches every node and no node
  twice; `Iterators` that the lines a run holds on to are nodes.
- `BasicProofs!Refinement`: every step is a step of `BasicSpec`. The list stands
  for the function from its numbers to its texts (`ProgramOf`), whose next number
  in the list is the least greater one; `Reading` adds that a run reads on in a text
  of its line from the start of a statement.
- `NamingProofs!SpecVolumesAsNumbered`: for any drives, tables, failing reads
  and calls. The invariant `VolumesInv` says who was found (`Registry`), that a number is
  the rank of its partition among those of the drives so far (`Numbering`: a
  drive adds the ranks of its own), and that what is mounted under a number is
  that partition (`Mounting`). What the last answer said of a root then follows
  from what the mount found (`RootAnswered`).
- `NamingProofs!SpecCwdStands`: for any texts and limits. `MountsInv`: what is
  mounted is a volume; nothing is unmounted. `CwdInv`: each process stands in a
  text that PathResolve gave (`Formed`: a slash, then parts of which only
  the last can have come to nothing), and that text led to a directory
  when it was entered. FatFs finds nothing under a dot, so a directory
  that was entered has none, whatever was cut off on the way; and a path
  of such names resolves to its own text.
- `NamingProofs!Refinement`: every step is a step of `NameSpec`. The core is
  `WalkResolves`: a path that fits resolves, in whatever the stack left in the
  array of parts, to the text of the names its walk ends at. On a relative path the
  join has room because `Fits` counts the directory too. The shell's
  candidates are the places along the search path when those fit, so the first
  candidate that is there is the first place that is. `StepSettles`: a number
  keeps its files.

Two properties were stronger once, and the attempt to prove them showed why
they were wrong. `NoFrameLost` was said of every machine whose programs load
without fault, and held in the run, where the break of such machines moves only
up. A break that moves down a page and up
again loses a frame: pages are not unmapped on the way down, and are mapped anew
on the way up (`kernel/syscall.c:160-181`). And the kernel's table of the environment
need not be a part of the library's: with the keys `a` and `a=`, once the
kernel has refused an entry, the two tables may hold the entries in opposite
orders, `setenv("a")` replaces the first that matches `a=`, and that is a
different one in each (`kernel/env.c:15-29`, `usr/lib/stdlib.c:22-63`).

The assumptions are the ASSUMEs of the modules: sizes are positive, the stack lies above
page 0, strings are sequences of characters and not empty, keys that print nothing are no
modifiers. For `Naming`: `PathAssumption` (a text has room for a volume and a
slash, a part for a character), `TextsAssumption` (a text has at least one piece),
`VolumeAssumption` (there are at least the two volumes kmain mounts) and
`MachinesAssumption` (an entry of a partition table that starts nowhere holds
nothing; no file is found under the name `.` or `..`, since create_name of `ff.c`
takes these for no name).

Recursive functions and lists are reasoned about by induction over a set of
numbers (`Climb` in `NamingProofs`, from the well-founded order of the
naturals): `Recursion` shows that a function defined step by step exists, and
one lemma for each function of `Paths` and `NameSpec` says what its steps are.
The lemmas with an operator parameter, which the provers cannot use, are not needed.

Only model-checked are: liveness, since the prover does not reason
about fairness; the properties of `Terminal` and `Paper`, and with them the parser of
`Console`, whose folds over escape sequences rewrite the whole screen; the
chains of clusters, names and listings in `Files`, and `FileSpec`, whose steps are
whole calls of many transfers on a disk that is kept at every write.

## Abstractions and what is left out

Contents of memory and messages are left out where no property is about
them. `Processes` keeps the kernel half of every directory constant but for the page
at 0xE0000000 (`window`), through which a new directory is filled. Nobody unmaps
it: until the next load it shows the directory loaded last, in every address
space, also after an exit has released it, so the frame behind it may be free,
the kernel's, or a page of the running process. `Isolation` names it as
the exception it is (`OneUse` speaks of the user parts) and says what holds of it,
`WindowApart`: it is nothing of a process that waits. What programs write, there
or elsewhere, is not modelled. Four things lead to `wrecked`, a state that stops:
a directory, a page table or a page of the kernel heap at frame 0, which is what
an exhausted memory gives; a segment that reaches into the kernel's pages,
which `MemMapPage` would map anew; a copy of a segment to a page that is not mapped
(a fault halts the machine); and one to a page of the kernel. A call of `kmalloc`
takes any number of frames, lowest first, up to the bound `growth` of the machine.
Addresses are `uint32_t`, so sums wrap at `AddressSize`; nothing is
assumed of the segments of a program. `KMalloc` assumes that there is a frame for each
page the heap grows by. `Disk` models LBA28 polling of one drive;
a call that begins while the drive is still at work is
modelled, but promises nothing. `Console` takes bytes from programs given as
sequences; numbers are bounded by the int of the run. `Keyboard` promises
nothing once codes queue up behind another, since the second read of the
port may then take the next code. `Basic` reads tokens, not characters, and only
LETs with a variable; LIST changes nothing.

`Files` has files made of units smaller than a sector, clusters of two sectors,
and characters that are ASCII. No file is read-only, as no call of cyOS makes one
so. It begins with the volume mounted; `Naming` has
the mount. A call of `Files` meets one kind of trouble, a failing transfer or a
power cut, and a sector is written as a whole or not at all. `Naming` looks
files up in a fixed tree, since what f_open and f_opendir find is the subject
of `Files`; its programs all load, since loads that fail are in `Processes`; on a disk with
one partition volume 1 has no partition and FatFs searches drive 0 for one, as
the code does; the empty path is not given. `Naming` parts the text it hands to
FatFs at slashes and compares names as they are, though FatFs also parts it at backslashes,
ignores case and drops dots at the end. The cell counts of
an erase in `Screen` do not wrap.

## Not modelled

- FatFs beyond what cyOS calls: f_unlink, f_mkdir, f_rename, f_truncate,
  f_mkfs, f_expand and others have no caller. FAT12, FAT16 and exFAT: the
  `Makefile` formats FAT32, and the build has `FF_FS_EXFAT` 0 (the repository's
  README lists exFAT). `ffunicode.c` is 15593 lines, nearly all code page tables and more
  than half of the lines in the tree; `FatNames` has ff_wtoupper on ASCII. get_fattime and disk_ioctl return what
  a clock and constants say, which no property is about.
- `UserMalloc` has no `realloc`, which only a test program calls, and a break
  that never fails: `malloc` (`usr/lib/stdlib.c:134`) does not ask.
- SyncPageDirs (`mm/memory.c:67`) updates directories that no process uses,
  so a page table made for the kernel while a process runs is not in that process's
  directory. The page table of the first 4 MB of heap is made by KMallocInit,
  before any process; the models stay within it, and the kernel half of a
  directory is constant there.
- Boot, descriptor tables, IDT, timer, clock, PCI and serial port set registers
  once and keep no state the rest uses; an exception stops the machine. Drive
  detection reads what there is; which drives are found is in `Volumes`.
- Formatting, string functions and qsort are functions of their arguments. The
  small programs are callers without state of their own: the actions of
  `Processes`, `Descriptors`, `Files` and `Naming` allow what they do. The prompt of
  the kernel does nothing with a line.
- Four hazards have no property and say so in the list of hazards: a failing `sbrk`,
  a line of spaces in BASIC, which reads address 0, a file opened again while it
  is written (`filefd.c:63`), and SyncPageDirs.

## What is left

The models that the code supports are written, and each property of a run that
is not liveness is proved, but for `Terminal` and `Files`. In the order of
their use:

1. `Files`: that chains are apart and as long as their files (`ChainsSound`,
   `Accounted`). `ChainOf` is a recursive function like those of `Paths`; the proof
   needs `Snip` and `Hex` of `FatNames` as such functions too, and lemmas on a FAT
   where one entry changes.
2. `Terminal`: the echo, by a relation between the line and the cells that each
   character keeps.
3. `UserMalloc` with `realloc`, which only a test program calls.
