---------------------------- MODULE MCLocalCram ----------------------------
(***************************************************************************)
(* LocalCram on small instances.                                           *)
(***************************************************************************)
EXTENDS LocalCram, TLC

CONSTANTS o, t1, t2

MCThread == {o, t1, t2}
MCOneThread == {o}

(* The owner is told from the others, the others not from each other.      *)
Symmetry == Permutations({t1, t2})

MCParcel == 0 .. bitB * cnRevolver - 1
=============================================================================
