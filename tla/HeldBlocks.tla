----------------------------- MODULE HeldBlocks -----------------------------
(***************************************************************************)
(* What a heap promises its callers: the blocks they hold lie in its area, *)
(* are as large as was asked for and never overlap.  Which free block an   *)
(* allocation gets, and when it gets none, is left open.                   *)
(***************************************************************************)
EXTENDS Integers

CONSTANTS
  csArea,    \* size of the area
  Request    \* the sizes that are asked for

VARIABLE held   \* the blocks in the callers' hands: [at, size, asked]

Disjoint(b, c) == b.at + b.size <= c.at \/ c.at + c.size <= b.at

Block == [at : 0 .. csArea, size : 0 .. csArea, asked : Request]

Init == held = {}

Alloc(b) ==
  /\ b.size >= b.asked /\ b.at + b.size <= csArea
  /\ \A c \in held : Disjoint(b, c)
  /\ held' = held \cup {b}

Free(b) == held' = held \ {b}

Next ==
  \/ \E b \in Block : b \notin held /\ Alloc(b)
  \/ \E b \in held : Free(b)

Spec == Init /\ [][Next]_held
=============================================================================
