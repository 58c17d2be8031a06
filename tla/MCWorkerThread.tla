--------------------------- MODULE MCWorkerThread ---------------------------
(* A caller that hands over up to MaxCall functions, waits and destroys    *)
(* the Thread, and constructs the next one.                                *)
EXTENDS WorkerThread
=============================================================================
