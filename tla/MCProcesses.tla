---------------------------- MODULE MCProcesses ----------------------------
(***************************************************************************)
(* Program files for the runs of Processes.  A page is two units; a page   *)
(* table has two entries; the user part is three entries of a directory,   *)
(* pages 0 to 5, the third one for the stack in page 4; pages 6 and 7 are  *)
(* the kernel's, and addresses wrap at 16.                                 *)
(***************************************************************************)
EXTENDS Processes

Segment(at, size, file, kind) == [at |-> at, size |-> size, file |-> file, kind |-> kind]

Small == <<Segment(2, 1, 1, "load")>>

\* Two segments that meet inside a page, after a header of another type.
Meeting == <<Segment(0, 1, 1, "other"), Segment(2, 1, 1, "load"), Segment(3, 2, 1, "load")>>

\* A second segment without anything in the file, or cut short.
Bss == <<Segment(2, 1, 1, "load"), Segment(4, 1, 0, "load")>>
Cut == <<Segment(2, 1, 1, "load"), Segment(4, 1, 1, "short")>>

Two == <<Segment(2, 2, 2, "load"), Segment(4, 1, 1, "load")>>

\* A segment with more in the file than in memory, once within its page and
\* once past it; one under and above the stack; one that goes on into the
\* kernel; and one whose end wraps to 2, so that nothing is mapped for it.
Long == <<Segment(2, 1, 2, "load")>>
Longer == <<Segment(2, 1, 3, "load")>>
Above == <<Segment(8, 3, 1, "load")>>
Kernelwards == <<Segment(10, 4, 1, "load")>>
Round == <<Segment(14, 4, 1, "load")>>

\* Three processes, one inside the other, with memory enough for what they do.
Nested == [memoryEnd |-> 32, images |-> {Small, Two}, increments |-> {3}, keys |-> {"PATH"},
           records |-> 3, growth |-> 1]

\* Two, programs that do not load, a break that moves both ways, and memory
\* that runs out at every point.
Faults == [memoryEnd |-> 24, images |-> {Small, Meeting, Bss, Cut}, increments |-> {-2, 3},
           keys |-> {}, records |-> 2, growth |-> 0]

\* Two, headers with any numbers and a break that wraps.
Wild == [memoryEnd |-> 24, images |-> {Long, Longer, Above, Kernelwards, Round},
         increments |-> {-13, -5, 1}, keys |-> {}, records |-> 2, growth |-> 0]

\* Two, with a full environment and a kernel heap that grows until the memory
\* is exhausted.
Full == [memoryEnd |-> 24, images |-> {Small}, increments |-> {}, keys |-> {"PATH", "HOME"},
         records |-> 2, growth |-> 4]

MCMachines == {Nested, Faults, Wild, Full}
=============================================================================
