----------------------------- MODULE Allocator -----------------------------
(***************************************************************************)
(* What a parcel allocator promises its users, without caches, counts or   *)
(* threads: a parcel has one holder at a time, nothing is handed out once  *)
(* the allocator is closed, and its memory is reclaimed only when nobody   *)
(* holds a parcel any more.                                                *)
(***************************************************************************)
CONSTANT Parcel

VARIABLES
  live,       \* parcels in the application's hands
  open,       \* parcels may still be handed out
  reclaimed   \* the memory has been given back

Init == live = {} /\ open = TRUE /\ reclaimed = FALSE

Alloc(p) ==
  /\ open /\ p \notin live
  /\ live' = live \cup {p}
  /\ UNCHANGED <<open, reclaimed>>

Free(p) ==
  /\ p \in live /\ ~reclaimed
  /\ live' = live \ {p}
  /\ UNCHANGED <<open, reclaimed>>

Close ==
  /\ open
  /\ open' = FALSE
  /\ UNCHANGED <<live, reclaimed>>

Reclaim ==
  /\ ~open /\ live = {}
  /\ reclaimed' = TRUE
  /\ UNCHANGED <<live, open>>

Next == Close \/ Reclaim \/ \E p \in Parcel : Alloc(p) \/ Free(p)

Spec == Init /\ [][Next]_<<live, open, reclaimed>>
=============================================================================
