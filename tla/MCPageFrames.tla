---------------------------- MODULE MCPageFrames ----------------------------
(***************************************************************************)
(* Every residue modulo eight of both ends of a memory of a few bytes of   *)
(* the bitmap, kernel ends that are and are not at a frame's start.        *)
(***************************************************************************)
EXTENDS PageFrames

MCLow == {4, 5, 30, 32, 33}
MCHigh == {4 * n : n \in 16 .. 23} \cup {4 * n + 3 : n \in 25 .. 31}
=============================================================================
