---------------------------- MODULE MCLocalPool ----------------------------
(***************************************************************************)
(* LocalPool on small instances.                                           *)
(***************************************************************************)
EXTENDS LocalPool, TLC

CONSTANTS o, t1, t2

MCThread == {o, t1, t2}
MCParcel == 1 .. cnRevolver

(* The owner is told from the others, the others not from each other.      *)
Symmetry == Permutations({t1, t2})
=============================================================================
