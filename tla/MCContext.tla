----------------------------- MODULE MCContext ------------------------------
(* The main thread and one that it starts.                                 *)
EXTENDS Context, TLC

CONSTANTS main, t1

MCThread == {main, t1}
=============================================================================
