----------------------------- MODULE LocalPool -----------------------------
(***************************************************************************)
(* LocalPool (src/src/LocalPool.cpp): the allocator of one thread for one  *)
(* size of at most 1 KiB.  It owns cnPoolParcel parcels of that size, all  *)
(* of them on mListST when it is constructed, and one cache of as many     *)
(* slots.  Only the owner allocates; every thread may free.                *)
(***************************************************************************)
EXTENDS CachedLocal

(* Cache<cnPoolParcel>: the ring has one slot for every parcel.            *)
cnPoolParcel == cnRevolver

ASSUME PoolAssumption ==
  /\ LastRealm = 0
  /\ Parcel = 1 .. cnPoolParcel

(* The constructor lists the parcels in address order, so that the last    *)
(* one is the head.                                                        *)
Constructed == [r \in Realm |-> [i \in 1 .. cnPoolParcel |-> cnPoolParcel + 1 - i]]

Init == CacheInit(Constructed) /\ LocalInit(cnPoolParcel)

(* LocalPool::Alloc                                                        *)
PoolAlloc == AllocCached(0) \/ AllocExhausted(0)

(* LocalPool::Free, from any thread, of any parcel the application holds.  *)
PoolFree(t) == \E p \in live : Free(t, p, 0)

(* What a thread does without being asked: finish a Free.                  *)
PoolStep(t) == ListMT(t, 0) \/ FreeDec(t) \/ Delete(t)

Next ==
  \/ PoolAlloc
  \/ Clearance
  \/ ThreadExit
  \/ \E t \in Thread : PoolFree(t) \/ PoolStep(t)
  \/ Finished

Spec == Init /\ [][Next]_vars

(* A thread inside the allocator keeps running: there is no lock in this   *)
(* code to wait for.  Nothing makes the application allocate, free or end. *)
Fairness ==
  /\ WF_vars(Clearance)
  /\ \A t \in Thread : WF_vars(PoolStep(t))

FairSpec == Spec /\ Fairness

-----------------------------------------------------------------------------
(* A slot that a free has drawn stays empty until that free pushes on it   *)
(* or finds it closed, whatever the owner and the other threads do: the    *)
(* compare-and-swap loop of ListMT fails only because of Clearance, and    *)
(* then stops.                                                             *)
DrawnSlotIsFree == \A t \in Thread : Reserved(t, 0)

(* The pool implements the abstract allocator: whatever the caches, the    *)
(* ring and the count do, the application sees single holders, no          *)
(* allocation after Clearance, no reclaiming under a live parcel.          *)
A == INSTANCE Allocator WITH open <- mbCache, reclaimed <- nDelete > 0

ImplementsAllocator == A!Spec

-----------------------------------------------------------------------------
(* The inductive invariant behind these properties.                        *)

(* Which thread can be where, and what each place says of the allocator.   *)
Phase ==
  /\ \A t \in Thread \ {Owner} :
       pc[t] \in {"idle", "fetch", "load", "cas", "dec", "delete"}
  /\ pc[Owner] \notin {"fetch", "load", "cas"}
  /\ mbCache => mapped /\ pc[Owner] \in {"idle", "clear"}
  /\ ~mbCache => pc[Owner] # "clear"
  /\ ~mbCache /\ mapped => pc[Owner] \notin {"idle", "dec"}
  /\ pc[Owner] = "delete" /\ mapped => bExit
  /\ pc[Owner] = "sweep" => nSwept < cnRevolver
  /\ \A t \in Thread : pc[t] \in {"dec", "delete"} => ~mbCache
  /\ \A t \in Thread : pParcel[t] # NULL <=> t \in InFlight

(* A slot of the ring is empty, closed, or holds a single parcel.          *)
SlotShape ==
  \A i \in SlotIndex :
    /\ maListMT[0][i] \in {<<>>, <<Invalid>>} \cup {<<p>> : p \in Parcel}
    /\ maListMT[0][i] = <<Invalid>> => ~mbCache

(* The parcels of the owner's list, which the list keeps after Clearance.  *)
OwnList == Range(mListST[0])

(* No parcel is in two places, said parcel by parcel.                      *)
Apart ==
  /\ \A j, k \in 1 .. Len(mListST[0]) : mListST[0][j] = mListST[0][k] => j = k
  /\ live \cap OwnList = {}
  /\ \A t \in Thread : pParcel[t] \notin live \cup OwnList
  /\ \A t, u \in Thread : t # u /\ pParcel[t] # NULL => pParcel[t] # pParcel[u]
  /\ \A i \in SlotIndex, p \in Parcel : maListMT[0][i] = <<p>> =>
       /\ p \notin live \cup OwnList
       /\ \A t \in Thread : pParcel[t] # p
       /\ \A k \in SlotIndex : maListMT[0][k] = <<p>> => i = k

(* Parcels that do not have a slot of the ring yet.                        *)
Unclaimed ==
  live \cup OwnList \cup {p \in Parcel : \E t \in Thread : pc[t] = "fetch" /\ pParcel[t] = p}

Drawing == {t \in Thread : pc[t] \in {"load", "cas"}}

(* How far behind the slot that is allocated from next slot i is.          *)
Offset(i) ==
  IF i >= AllocSlot(0) THEN i - AllocSlot(0) ELSE i - AllocSlot(0) + cnRevolver

(* The slots that are claimed, by a parcel on them or by a free that has   *)
(* drawn them, are among the c slots from the one that is allocated from   *)
(* next up to the one that is drawn next, and there are not enough other   *)
(* parcels to go all the way round the ring.                               *)
Window(c) ==
  /\ Slot(mRevolverFree[0]) =
       IF AllocSlot(0) + c < cnRevolver THEN AllocSlot(0) + c
                                        ELSE AllocSlot(0) + c - cnRevolver
  /\ c + Cardinality(Unclaimed) <= cnRevolver
  /\ \A i \in SlotIndex, p \in Parcel : maListMT[0][i] = <<p>> => Offset(i) < c
  /\ \A t \in Drawing : Offset(oRevolver[t]) < c

DrawnOnce == \A t, u \in Drawing : oRevolver[t] = oRevolver[u] => t = u

RingInv ==
  /\ SlotShape
  /\ Apart
  /\ DrawnSlotIsFree
  /\ DrawnOnce
  /\ \E c \in 0 .. cnRevolver : Window(c)

(* Clearance closes the slots in the order in which they would have been   *)
(* allocated from, each of them once.                                      *)
Closing ==
  \A i \in SlotIndex : maListMT[0][i] = <<Invalid>> =>
    /\ pc[Owner] # "walk"
    /\ pc[Owner] = "sweep" => Offset(i) < nSwept

(* Whoever is about to delete, or has deleted, found the count at zero.    *)
CountInv ==
  /\ Accounting
  /\ \A t \in Thread : pc[t] = "delete" => mnCache = 0
  /\ nDelete > 0 => mnCache = 0 /\ ~mbCache
  /\ dangling \cap {"idle", "fetch", "load", "cas", "dec"} = {}

(* Once Clearance has subtracted a parcel, one thread deletes at most, and *)
(* nobody is left inside but the owner on its way out.                     *)
LoneDelete ==
  /\ nDelete = 0 => dangling = {}
  /\ nCache > 0 => pc[Owner] \in {"walk", "sweep", "sub"}
  /\ nReturned > 0 =>
       /\ ~mbCache /\ pc[Owner] \notin {"walk", "sweep", "sub"}
       /\ \A t, u \in Thread : pc[t] = "delete" /\ pc[u] = "delete" => t = u
       /\ nDelete > 0 => \A t \in Thread : pc[t] # "delete"
       /\ nDelete <= 1
       /\ dangling \subseteq {"renew"}

IInv == TypeOK /\ Phase /\ RingInv /\ Closing /\ CountInv /\ LoneDelete
=============================================================================
