----------------------------- MODULE MCKMalloc ------------------------------
(***************************************************************************)
(* A small kernel heap: headers and the split threshold as in the code,    *)
(* one size that leaves a remainder too small to split, one that is not a  *)
(* multiple of four and one that fills a page.                             *)
(***************************************************************************)
EXTENDS KMalloc

MCRequests == {8, 41, 80}
=============================================================================
