----------------------------- MODULE MCReserver -----------------------------
(* Two threads.  Realm 0 has small blocks, which the heap can give and of *)
(* which a thread keeps one; realm 1 large ones, which come from the      *)
(* system and of which a thread keeps none.  The shared stacks hold one.  *)
(* With cnRealm = 1 and mnRevolver = 2 the threads move round a ring.     *)
EXTENDS Reserver, TLC

CONSTANTS t1, t2

MCThread == {t1, t2}
MCBlock == 1 .. 3
MCSize(r) == r + 1
MCLocalNum(r) == 1 - r
MCGlobalNum(r) == 1
Symmetry == Permutations(MCThread)
=============================================================================
