---------------------------- MODULE MCInterface -----------------------------
(* Sizes on both sides of the limits: the smallest and the largest pool,   *)
(* a cram whose size carries into the next power of two, the largest cram, *)
(* the smallest block of its own.                                          *)
EXTENDS Interface

MCRequest == {0, 9, 1024, 1025, 2047, 1048577}
MCAlignment == {24, 4096}
MCResidue == {0, 4080}
=============================================================================
