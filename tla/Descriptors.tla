---------------------------- MODULE Descriptors ----------------------------
(***************************************************************************)
(* The descriptor tables of the processes: kernel/fd.c, filefd.c, dirfd.c, *)
(* the terminal's descriptors (tty.c) and their system calls.  The         *)
(* processes form a stack, the last one runs.  A file or directory         *)
(* descriptor points to an object of the kernel heap; an object is an      *)
(* address, given again after it was freed.  Calls that fail leave         *)
(* everything as it was and are no action.                                 *)
(***************************************************************************)
EXTENDS Integers, Sequences

CONSTANTS FDMax,           \* descriptors of a process
          MaxObjects,      \* bound: objects the heap has room for
          MaxDepth,        \* bound: nested processes
          ClosesInherited  \* whether programs close what they did not open

ASSUME DescriptorsAssumption ==
    /\ FDMax \in Nat /\ FDMax > 3
    /\ MaxObjects \in Nat /\ MaxDepth \in Nat \ {0}
    /\ ClosesInherited \in BOOLEAN

VARIABLES tables,   \* of each process, its descriptors
          opened,   \* of each process, the descriptors it opened itself
          objects,  \* what is at each address of the heap
          orphans   \* objects left open by processes that are over

vars == <<tables, opened, objects, orphans>>

Slots == 0 .. FDMax - 1
Addresses == 1 .. MaxObjects
Null == 0

\* A descriptor; ops names the table of functions it has.
Unused == [type |-> "none", ops |-> "none", readable |-> FALSE, writable |-> FALSE, data |-> Null]
TTY(r, w) == [type |-> "tty", ops |-> "tty", readable |-> r, writable |-> w, data |-> Null]
Opened(kind, r, w, a) == [type |-> kind, ops |-> kind, readable |-> r, writable |-> w, data |-> a]

FDInitProcess ==
    [i \in Slots |-> IF i = 0 THEN TTY(TRUE, FALSE)
                     ELSE IF i \in {1, 2} THEN TTY(FALSE, TRUE) ELSE Unused]

\* The table of the first process, made by kmain.
Init ==
    /\ tables = <<FDInitProcess>>
    /\ opened = <<{}>>
    /\ objects = [a \in Addresses |-> "free"]
    /\ orphans = {}

Running == Len(tables)
Table == tables[Running]

FDAlloc(i) ==
    /\ i \in Slots /\ i >= 3 /\ Table[i].type = "none"
    /\ \A j \in 3 .. i - 1 : Table[j].type # "none"

\* kmalloc takes the first free address.
Allocated(a) == objects[a] = "free" /\ \A b \in Addresses : b < a => objects[b] # "free"

Open(kind, r, w) ==
    \E i \in 0 .. FDMax, a \in Addresses :
        /\ FDAlloc(i)
        /\ Allocated(a)
        /\ objects' = [objects EXCEPT ![a] = kind]
        /\ tables' = [tables EXCEPT ![Running][i] = Opened(kind, r, w, a)]
        /\ opened' = [opened EXCEPT ![Running] = @ \cup {i}]
        /\ orphans' = orphans \ {a}

\* FDOpenFile with any access, also with none; FDOpenDir for reading.
SysOpen == \E r, w \in BOOLEAN : Open("file", r, w)
SysOpenDir == Open("dir", TRUE, FALSE)

\* Mutant: the descriptor keeps its type.
Closed_KeepsType(d) == [d EXCEPT !.data = Null]

\* Its functions stay in a closed descriptor.
Closed(d) == [d EXCEPT !.type = "none", !.data = Null]

\* Mutant: the object is not freed.
Released_Kept(d) == objects

\* kfree marks the block free whatever it is.
Released(d) == IF d.data = Null THEN objects ELSE [objects EXCEPT ![d.data] = "free"]

FDClose(i) ==
    /\ i \in Slots /\ i >= 3 /\ Table[i].type # "none"
    /\ ClosesInherited \/ i \in opened[Running]
    /\ objects' = Released(Table[i])
    /\ tables' = [tables EXCEPT ![Running][i] = Closed(Table[i])]
    /\ opened' = [opened EXCEPT ![Running] = @ \ {i}]
    /\ UNCHANGED orphans

\* FDInherit copies the table of the caller of exec.
SysExec ==
    /\ Running < MaxDepth
    /\ tables' = Append(tables, Table)
    /\ opened' = Append(opened, {})
    /\ UNCHANGED <<objects, orphans>>

\* Nothing is closed.  When the first process exits, kmain starts no other.
SysExit ==
    /\ Running > 1
    /\ tables' = SubSeq(tables, 1, Running - 1)
    /\ opened' = SubSeq(opened, 1, Running - 1)
    /\ orphans' = orphans \cup {Table[i].data : i \in opened[Running]}
    /\ UNCHANGED objects

Next == SysOpen \/ SysOpenDir \/ (\E i \in Slots : FDClose(i)) \/ SysExec \/ SysExit

Spec == Init /\ [][Next]_vars

-----------------------------------------------------------------------------
Processes == DOMAIN tables
Used(p) == {i \in Slots : tables[p][i].type \in {"file", "dir"}}

\* A descriptor in use points to a live object of its kind: read, write,
\* seek and close through it touch no freed memory and no other kind of
\* object, in the running process and in those that wait (kernel/fd.c:29-52).
\* seek asks neither type nor data, only whether the functions left in a
\* descriptor include one (kernel/syscall.c:250-255): it finds a file or NULL.
NoDangling ==
    \A p \in Processes :
        /\ \A i \in Used(p) :
               /\ tables[p][i].data \in Addresses
               /\ objects[tables[p][i].data] = tables[p][i].type
        /\ \A i \in Slots :
               tables[p][i].ops = "file" /\ tables[p][i].data # Null
               => objects[tables[p][i].data] = "file"

\* Within a process no two descriptors share an object, and a parent and a
\* child share one only under the same number (kernel/fd.c:23-27).
OneOwner ==
    \A p, q \in Processes : \A i \in Used(p), j \in Used(q) :
        tables[p][i].data = tables[q][j].data => i = j

\* An object is freed by its close: the live ones are those a process can
\* reach, and those a process that is over has left open (kernel/filefd.c:26-33).
ObjectsReachable ==
    \A a \in Addresses :
        objects[a] # "free" =>
            a \in orphans \/ \E p \in Processes : \E i \in Used(p) : tables[p][i].data = a

\* However programs open, close, start others and end, every object has its
\* owner, and one within a process (kernel/fd.c:23-52, kernel/filefd.c:26-33).
ObjectsOwned == OneOwner /\ ObjectsReachable
=============================================================================
