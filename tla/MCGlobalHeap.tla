---------------------------- MODULE MCGlobalHeap ----------------------------
(* An area of eleven units, which holds up to five nodes with data, two   *)
(* threads and requests of one to three units: one and two are powers of  *)
(* two, for which Upper and Lower agree; for three AllocLower may find    *)
(* what AllocUpper did not.                                               *)
EXTENDS GlobalHeap, TLC

CONSTANTS t1, t2

MCThread == {t1, t2}
MCRequest == {1, 2, 3}
Symmetry == Permutations(MCThread)
=============================================================================
