------------------------------- MODULE Frames -------------------------------
(***************************************************************************)
(* The physical frames PMMAllocPageFrame hands out (mm/memory.c).  The     *)
(* bitmap is scanned byte by byte, so the range from pageFrameMin to       *)
(* pageFrameMax is cut down to whole bytes, eight frames each.             *)
(***************************************************************************)
EXTENDS Integers

\* What PMMAllocPageFrame returns when it finds no frame.
NoFrame == 0

\* Mutant: the byte the range begins in is scanned from its first bit.
FirstByte_RoundedDown(min) == min \div 8

FirstByte(min) == min \div 8 + (IF min % 8 # 0 THEN 1 ELSE 0)

\* Mutant: the last whole byte is left out as well.
EndByte_TwoShort(max) == max \div 8 - (IF max % 8 # 0 THEN 2 ELSE 1)

EndByte(max) == max \div 8 - (IF max % 8 # 0 THEN 1 ELSE 0)

Managed(min, max) == FirstByte(min) * 8 .. EndByte(max) * 8 - 1

\* f is what the scan finds when the frames in used have their bit set.
NextFrame(managed, used, f) ==
    \/ f \in managed \ used /\ \A g \in managed \ used : f <= g
    \/ managed \subseteq used /\ f = NoFrame
=============================================================================
