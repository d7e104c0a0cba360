----------------------------- MODULE PageFrames -----------------------------
(***************************************************************************)
(* The physical memory manager, mm/memory.c: a bitmap of frames that is    *)
(* allocated from the bottom.  taken is what its callers know: the frames  *)
(* they were given and have not released.                                  *)
(***************************************************************************)
EXTENDS Frames, FiniteSets

CONSTANTS FrameSize,    \* bytes of a frame
          LowAddresses, \* where the kernel image may end, memLow of PMMInit
          MemorySizes   \* what the boot loader may report, memHigh of PMMInit

ASSUME PageFramesAssumption ==
    /\ FrameSize \in Nat \ {0}
    /\ LowAddresses \subseteq Nat \ {0}
    /\ MemorySizes \subseteq Nat
    /\ \A memHigh \in MemorySizes : memHigh \div FrameSize >= 8

VARIABLES pageFrameMin, pageFrameMax, totalAlloc,
          used,         \* physMemBitmap: the frames whose bit is set
          taken         \* the frames the callers hold

pmmVars == <<pageFrameMin, pageFrameMax, totalAlloc, used, taken>>

CeilDiv(a, b) == (a + b - 1) \div b

\* PMMInit, as MemInit calls it.
PMMInit ==
    /\ \E memLow \in LowAddresses : pageFrameMin = CeilDiv(memLow, FrameSize)
    /\ \E memHigh \in MemorySizes : pageFrameMax = memHigh \div FrameSize
    /\ totalAlloc = 0
    /\ used = {}
    /\ taken = {}

Frames == Managed(pageFrameMin, pageFrameMax)

PMMAllocPageFrame ==
    \E f \in Frames \cup {NoFrame} :
        /\ NextFrame(Frames, used, f)
        /\ IF f = NoFrame
           THEN UNCHANGED pmmVars
           ELSE /\ used' = used \cup {f}
                /\ taken' = taken \cup {f}
                /\ totalAlloc' = totalAlloc + 1
                /\ UNCHANGED <<pageFrameMin, pageFrameMax>>

ClearBit(u, f) == u \ {f}

PMMFreePageFrame(f) ==
    /\ used' = ClearBit(used, f)
    /\ taken' = taken \ {f}
    /\ totalAlloc' = totalAlloc - 1
    /\ UNCHANGED <<pageFrameMin, pageFrameMax>>

PMMNext == PMMAllocPageFrame \/ \E f \in taken : PMMFreePageFrame(f)

PMMSpec == PMMInit /\ [][PMMNext]_pmmVars

-----------------------------------------------------------------------------
\* The memory the boot loader reported, above the kernel image.
Memory == pageFrameMin .. pageFrameMax - 1

PMMTypeOK ==
    /\ pageFrameMin \in Nat \ {0} /\ pageFrameMax \in Nat
    /\ totalAlloc \in Nat
    /\ used \subseteq Nat /\ taken \subseteq Nat

\* Whatever the alignment of the kernel's end and of the memory's end, a
\* frame handed out is memory and not part of the kernel image, hence never
\* frame 0, the answer for "none left" (mm/memory.c:28-29, 49).
TakenIsMemory == taken \subseteq Memory

\* As long as callers release only what they hold, the bitmap and the count
\* agree with them: no frame is lost, none is free while somebody has it, and
\* none is given to a second caller, which the count would show (mm/memory.c:38-44, 133-140).
BitmapExact == used = taken /\ totalAlloc = Cardinality(used)

\* Whatever is allocated and released, whatever the ends of the kernel and of
\* the memory: both of these (mm/memory.c:19-50, 133-140).
FramesSound == TakenIsMemory /\ BitmapExact

\* Rounding to bytes wastes at most 7 frames at the bottom of the memory and
\* 15 at its top: when nothing is found, no more than 22 frames are unused
\* (mm/memory.c:28-29).
WasteBounded ==
    Frames \subseteq used => Cardinality(Memory \ used) <= 22
=============================================================================
