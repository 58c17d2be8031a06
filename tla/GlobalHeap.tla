----------------------------- MODULE GlobalHeap -----------------------------
(***************************************************************************)
(* GlobalHeap (src/src/GlobalHeap.cpp): an area of memory cut into nodes.  *)
(* A node is a header of one unit, Node::SizeofT(), followed by its data.  *)
(* Every node is on the order list, which follows the addresses; a free    *)
(* node is also on the free list of its size class, and a mask tells which *)
(* of these lists are not empty.  A critical section of the mutex is one   *)
(* action; GlobalCntx::HeapAlloc goes through two of them.                 *)
(*                                                                         *)
(* Addresses and sizes are in units of a cache line, to which the code     *)
(* rounds all of them; a node is named by its address.                     *)
(***************************************************************************)
EXTENDS Integers, Sequences, FiniteSets, FiniteSetsExt, SequencesExt

CONSTANTS
  Thread,     \* the threads of the process
  csHeap,     \* size of the area, the first header included
  Request,    \* the sizes that are asked for
  cnFree,     \* number of free lists
  NULL        \* no node, no list

(* bit (src/src/Util.h): one, shifted left by k.                           *)
bit[k \in 0 .. cnFree] == IF k = 0 THEN 1 ELSE 2 * bit[k - 1]

ASSUME HeapAssumption ==
  /\ csHeap \in Nat \ {0}
  /\ Request \subseteq 1 .. csHeap
  /\ cnFree \in Nat \ {0} /\ bit[cnFree - 1] > csHeap
  /\ NULL \notin Int

VARIABLES
  mOrder,    \* [node -> [pPrev, pNext]], defined for the nodes there are
  ms,        \* [node -> size of its data]
  mpFree,    \* [node -> the free list it is on, or NULL]
  maFree,    \* [size class -> free list], head first
  mabFree,   \* the lists that are marked as not empty
  pc,        \* where each thread is
  sRequest,  \* the size a thread asks for between the two sections
  pNode,     \* the node a thread is freeing
  sFree,     \* its size, read before the mutex is taken
  live,      \* the nodes whose data the callers hold
  asked,     \* history: [node that is not free -> the size its caller asked for]
  alone      \* history: threads between their two sections, nobody in between

heap == <<mOrder, ms, mpFree, maFree, mabFree>>
freeing == <<pNode, sFree>>
vars == <<heap, pc, sRequest, freeing, live, asked, alone>>

SizeofT == 1

Class == 0 .. cnFree - 1

Node == DOMAIN ms

IsFree(n) == mpFree[n] # NULL

-----------------------------------------------------------------------------
(* The heap as a value, so that a critical section is a composition.       *)
Heap == [order |-> mOrder, size |-> ms, on |-> mpFree, list |-> maFree, mask |-> mabFree]

Becomes(h) ==
  /\ mOrder' = h.order
  /\ ms' = h.size
  /\ mpFree' = h.on
  /\ maFree' = h.list
  /\ mabFree' = h.mask

(* Lower: the class of size s, Msb(s) + 1; the subtraction in Msb wraps    *)
(* for 0, whose class is 0.                                                *)
Lower(s) == Cardinality({k \in Class : bit[k] <= s})

(* Variant: the class of s itself.                                         *)
UpperAsLower(s) == Lower(s)

(* Upper: the first class all of whose nodes have size s at least.         *)
Upper(s) == IF s = 0 THEN 0 ELSE Lower(2 * s - 1)

(* Variant: a list that gets empty keeps its bit.                          *)
FreeOffNever(h, b) == h

(* FreeOff: clear the bit of a list that is empty now.                     *)
FreeOff(h, b) == IF h.list[b] = <<>> THEN [h EXCEPT !.mask = @ \ {b}] ELSE h

(* The list without n, which is on it once.                                *)
Without(list, n) == RemoveAt(list, CHOOSE k \in DOMAIN list : list[k] = n)

(* Node::FreeCut                                                           *)
FreeCut(h, n) ==
  IF h.on[n] = NULL THEN h
  ELSE [h EXCEPT !.list[h.on[n]] = Without(@, n), !.on[n] = NULL]

(* AddFree: put the node, which may be on another list, on the list of s.  *)
AddFree(h, n, s) ==
  LET cut == FreeCut(h, n)
  IN [cut EXCEPT !.list[Lower(s)] = <<n>> \o @,
                 !.on[n] = Lower(s),
                 !.size[n] = s,
                 !.mask = @ \cup {Lower(s)}]

(* Variant: the node that follows still points back to the destroyed one.  *)
DestroyHalf(h, n) ==
  LET cut == FreeCut(h, n)
      rest == DOMAIN h.size \ {n}
      prev == h.order[n].pPrev
      next == h.order[n].pNext
  IN [cut EXCEPT
       !.order = [m \in rest |->
                    IF m = prev THEN [h.order[m] EXCEPT !.pNext = next] ELSE h.order[m]],
       !.size = [m \in rest |-> h.size[m]],
       !.on = [m \in rest |-> cut.on[m]]]

(* Node::~Node: OrderCut and FreeCut; the node is no more.                 *)
Destroy(h, n) ==
  LET cut == FreeCut(h, n)
      rest == DOMAIN h.size \ {n}
      prev == h.order[n].pPrev
      next == h.order[n].pNext
  IN [cut EXCEPT
       !.order = [m \in rest |->
                    [pPrev |-> IF m = next THEN prev ELSE h.order[m].pPrev,
                     pNext |-> IF m = prev THEN next ELSE h.order[m].pNext]],
       !.size = [m \in rest |-> h.size[m]],
       !.on = [m \in rest |-> cut.on[m]]]

(* Variant: the node that follows still points back to n.                  *)
ConstructHalf(h, m, n) ==
  LET all == DOMAIN h.size \cup {m}
  IN [h EXCEPT
       !.order = [k \in all |->
                    CASE k = m -> [pPrev |-> n, pNext |-> h.order[n].pNext]
                      [] k = n -> [h.order[n] EXCEPT !.pNext = m]
                      [] k \notin {m, n} -> h.order[k]],
       !.size = [k \in all |-> IF k = m THEN 0 ELSE h.size[k]],
       !.on = [k \in all |-> IF k = m THEN NULL ELSE h.on[k]]]

(* Node::Node with OrderJoinNode: a new node after n.                      *)
Construct(h, m, n) ==
  LET next == h.order[n].pNext
      all == DOMAIN h.size \cup {m}
  IN [h EXCEPT
       !.order = [k \in all |->
                    CASE k = m -> [pPrev |-> n, pNext |-> next]
                      [] k # m -> [pPrev |-> IF k = next THEN m ELSE h.order[k].pPrev,
                                   pNext |-> IF k = n THEN m ELSE h.order[k].pNext]],
       !.size = [k \in all |-> IF k = m THEN 0 ELSE h.size[k]],
       !.on = [k \in all |-> IF k = m THEN NULL ELSE h.on[k]]]

-----------------------------------------------------------------------------
(* Alloc: take n off its list and split what is left over.                 *)
Taken(h, n, s) ==
  LET cut == FreeOff(FreeCut(h, n), h.on[n])
      rest == h.size[n] - s
      new == n + SizeofT + s
  IN IF rest >= SizeofT
     THEN AddFree(Construct([cut EXCEPT !.size[n] = s], new, n), new, rest - SizeofT)
     ELSE cut

(* Variant: the node that follows is swallowed whether it is free or not.  *)
MergedNextHeld(h, n, s) ==
  LET next == h.order[n].pNext
  IN IF next # NULL
     THEN [heap |-> Destroy(h, next), size |-> s + SizeofT + h.size[next]]
     ELSE [heap |-> h, size |-> s]

(* Free, first half: swallow the node that follows, if it is free.         *)
MergedNext(h, n, s) ==
  LET next == h.order[n].pNext
  IN IF next # NULL /\ h.on[next] # NULL
     THEN [heap |-> FreeOff(Destroy(h, next), h.on[next]),
           size |-> s + SizeofT + h.size[next]]
     ELSE [heap |-> h, size |-> s]

(* Variant: never swallowed by the node before.                            *)
MergedPrevNot(h, n, s) == AddFree(h, n, s)

(* Free, second half: be swallowed by the node before, if it is free.      *)
MergedPrev(h, n, s) ==
  LET prev == h.order[n].pPrev
  IN IF prev # NULL /\ h.on[prev] # NULL
     THEN FreeOff(Destroy(AddFree(h, prev, s + SizeofT + h.size[prev]), n), h.on[prev])
     ELSE AddFree(h, n, s)

Goto(t, label) == pc' = [pc EXCEPT ![t] = label]

Init ==
  /\ mOrder = [n \in {0} |-> [pPrev |-> NULL, pNext |-> NULL]]
  /\ ms = [n \in {0} |-> csHeap - SizeofT]
  /\ mpFree = [n \in {0} |-> Lower(csHeap - SizeofT)]
  /\ maFree = [b \in Class |-> IF b = Lower(csHeap - SizeofT) THEN <<0>> ELSE <<>>]
  /\ mabFree = {Lower(csHeap - SizeofT)}
  /\ pc = [t \in Thread |-> "idle"]
  /\ sRequest = [t \in Thread |-> 0]
  /\ pNode = [t \in Thread |-> NULL]
  /\ sFree = [t \in Thread |-> 0]
  /\ live = {}
  /\ asked = <<>>
  /\ alone = {}

(* The node goes to the caller.                                            *)
Give(t, n, s) ==
  /\ Becomes(Taken(Heap, n, s))
  /\ live' = live \cup {n}
  /\ asked' = [m \in DOMAIN asked \cup {n} |-> IF m = n THEN s ELSE asked[m]]
  /\ Goto(t, "idle")
  /\ sRequest' = [sRequest EXCEPT ![t] = 0]
  /\ alone' = {}
  /\ UNCHANGED freeing

Marked(b) == {c \in mabFree : c >= b}

(* AllocUpper: the head of the first list all of whose nodes are large     *)
(* enough.                                                                 *)
AllocUpper(t, s) ==
  /\ pc[t] = "idle"
  /\ \/ /\ Marked(Upper(s)) # {}
        /\ Give(t, Head(maFree[Min(Marked(Upper(s)))]), s)
     \/ /\ Marked(Upper(s)) = {}
        /\ Goto(t, "lower")
        /\ sRequest' = [sRequest EXCEPT ![t] = s]
        /\ alone' = alone \cup {t}
        /\ UNCHANGED <<heap, freeing, live, asked>>

(* Variant: a node that fits exactly is passed over.                       *)
FittingMore(list, s) == {k \in DOMAIN list : ms[list[k]] > s}

(* Where in a list there are nodes that are large enough.                  *)
Fitting(list, s) == {k \in DOMAIN list : ms[list[k]] >= s}

(* AllocLower: the first node of the first list that is not empty, from    *)
(* the class of s on, that is large enough; the other lists are not tried. *)
AllocLower(t) ==
  LET s == sRequest[t]
      marked == Marked(Lower(s))
      list == IF marked = {} THEN <<>> ELSE maFree[Min(marked)]
      fit == Fitting(list, s)
  IN /\ pc[t] = "lower"
     /\ \/ fit # {} /\ Give(t, list[Min(fit)], s)
        \/ /\ fit = {}
           /\ Goto(t, "idle")
           /\ sRequest' = [sRequest EXCEPT ![t] = 0]
           /\ alone' = alone \ {t}
           /\ UNCHANGED <<heap, freeing, live, asked>>

(* Free, before the mutex: the size is read from the node.                 *)
FreeRead(t, n) ==
  /\ pc[t] = "idle" /\ n \in live
  /\ live' = live \ {n}
  /\ pNode' = [pNode EXCEPT ![t] = n]
  /\ sFree' = [sFree EXCEPT ![t] = ms[n]]
  /\ Goto(t, "free")
  /\ UNCHANGED <<heap, sRequest, asked, alone>>

(* Free, under the mutex.                                                  *)
FreeLocked(t) ==
  LET merged == MergedNext(Heap, pNode[t], sFree[t])
  IN /\ pc[t] = "free"
     /\ Becomes(MergedPrev(merged.heap, pNode[t], merged.size))
     /\ pNode' = [pNode EXCEPT ![t] = NULL]
     /\ sFree' = [sFree EXCEPT ![t] = 0]
     /\ Goto(t, "idle")
     /\ asked' = [m \in DOMAIN asked \ {pNode[t]} |-> asked[m]]
     /\ alone' = {}
     /\ UNCHANGED <<sRequest, live>>

Next == \E t \in Thread :
  \/ \E s \in Request : AllocUpper(t, s)
  \/ AllocLower(t)
  \/ \E n \in live : FreeRead(t, n)
  \/ FreeLocked(t)

Spec == Init /\ [][Next]_vars

-----------------------------------------------------------------------------
Freeing == {n \in Node : \E t \in Thread : pNode[t] = n}

TypeOK ==
  /\ Node \subseteq 0 .. csHeap - 1
  /\ ms \in [Node -> 0 .. csHeap]
  /\ mOrder \in [Node -> [pPrev : Node \cup {NULL}, pNext : Node \cup {NULL}]]
  /\ mpFree \in [Node -> Class \cup {NULL}]
  /\ maFree \in [Class -> Seq(Node)]
  /\ mabFree \subseteq Class
  /\ pc \in [Thread -> {"idle", "lower", "free"}]
  /\ sRequest \in [Thread -> Request \cup {0}]
  /\ pNode \in [Thread -> Node \cup {NULL}]
  /\ sFree \in [Thread -> 0 .. csHeap]
  /\ asked \in [live \cup Freeing -> Request]
  /\ live \subseteq Node /\ alone \subseteq Thread

End(n) == n + SizeofT + ms[n]

(* The nodes tile the area, in the order of the order list: no unit is in  *)
(* two nodes and none is lost, however often nodes are split and merged.   *)
Tiling ==
  /\ 0 \in Node /\ mOrder[0].pPrev = NULL
  /\ \A n \in Node :
       /\ mOrder[n].pNext = IF End(n) = csHeap THEN NULL ELSE End(n)
       /\ mOrder[n].pNext # NULL => mOrder[mOrder[n].pNext].pPrev = n

(* The mask, the lists, mpFree and the sizes agree: a node is on the list  *)
(* of its size, once, and the mask marks the lists that are not empty.     *)
ListsAgree ==
  /\ \A b \in Class :
       /\ IsInjective(maFree[b])
       /\ Range(maFree[b]) = {n \in Node : mpFree[n] = b}
  /\ \A n \in Node : IsFree(n) => mpFree[n] = Lower(ms[n])
  /\ mabFree = {b \in Class : maFree[b] # <<>>}

(* No two free nodes are neighbours: merging is complete.                  *)
Merged == \A n \in Node : IsFree(n) /\ mOrder[n].pNext # NULL => ~IsFree(mOrder[n].pNext)

(* What is not free is held by a caller or on its way back, and nobody     *)
(* else changes the size of a node that is being freed, which Free has     *)
(* read before it took the mutex.                                          *)
Holders ==
  /\ {n \in Node : ~IsFree(n)} = live \cup Freeing
  /\ live \cap Freeing = {}
  /\ \A t \in Thread : pNode[t] # NULL => sFree[t] = ms[pNode[t]]
  /\ \A t, u \in Thread : t # u /\ pNode[t] # NULL => pNode[t] # pNode[u]

(* An allocation fails only when nothing fits, unless somebody else used   *)
(* the heap between its two sections.                                      *)
FailsOnlyIfFull ==
  [][\A t \in alone : pc[t] = "lower" /\ pc'[t] = "idle" /\ live' = live =>
       \A n \in Node : IsFree(n) => ms[n] < sRequest[t]]_vars

(* Data the callers hold, or are freeing, is as large as they asked for    *)
(* and never overlaps, however Alloc splits and Free merges the nodes.     *)
B == INSTANCE HeldBlocks WITH
       csArea <- csHeap,
       held <- {[at |-> n + SizeofT, size |-> ms[n], asked |-> asked[n]] : n \in live \cup Freeing}

ImplementsHeldBlocks == B!Spec
=============================================================================
