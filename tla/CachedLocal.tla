---------------------------- MODULE CachedLocal ----------------------------
(***************************************************************************)
(* What LocalPool and LocalCram share: freeing a parcel from any thread,   *)
(* the Clearance state an allocator enters when it is full or its thread   *)
(* ends, the count mnCache of parcels still to come back, and destruction  *)
(* by whoever brings that count to zero (src/src/LocalPool.cpp, with the   *)
(* same code again in src/src/LocalCram.cpp).  How parcels are handed out  *)
(* is left to the two modules that extend this one.                        *)
(*                                                                         *)
(* The application is the environment: `live' is what it holds, any thread *)
(* may free any live parcel, and no parcel is freed twice.                 *)
(***************************************************************************)
EXTENDS Cache

VARIABLES
  mbCache,    \* FALSE from Clearance on
  mnCache,    \* parcels that still have to be counted off
  oCache,     \* owner: cache Clearance is working on
  live,       \* parcels in the application's hands
  mapped,     \* the owner's LocalCntx still points to this allocator
  bExit,      \* the owner's LocalCntx is being destroyed
  nReturned,  \* history: parcels Clearance found and counted off
  nDelete,    \* history: calls of Delete that have run
  dangling    \* history: where (pc) the memory was used after a Delete

state   == <<mbCache, mnCache, oCache, live, mapped, bExit>>
history == <<nReturned, nDelete, dangling>>

vars == <<lists, ring, pc, freeing, clearing, state, history>>

LocalInit(n) ==
  /\ mbCache = TRUE
  /\ mnCache = n
  /\ oCache = 0
  /\ live = {}
  /\ mapped = TRUE
  /\ bExit = FALSE
  /\ nReturned = 0
  /\ nDelete = 0
  /\ dangling = {}

(* Every access to the object goes through Uses: once Delete has given     *)
(* the memory back, the access is recorded.                                *)
Uses(t) == dangling' = IF nDelete > 0 THEN dangling \cup {pc[t]} ELSE dangling

Touch(t) == Uses(t) /\ UNCHANGED <<nReturned, nDelete>>

-----------------------------------------------------------------------------
(* The head of the allocator's own free list, or of the next slot of the   *)
(* ring, goes to the application.                                          *)
AllocCached(r) ==
  /\ pc[Owner] = "idle" /\ mapped
  /\ \/ TakeST(r) /\ live' = live \cup {Head(mListST[r])}
     \/ TakeMT(r) /\ live' = live \cup {Head(maListMT[r][AllocSlot(r)])}
  /\ Touch(Owner)
  /\ UNCHANGED <<pc, freeing, clearing, mbCache, mnCache, oCache, mapped, bExit>>

(* Nothing is cached: Clearance begins.                                    *)
AllocExhausted(r) ==
  /\ pc[Owner] = "idle" /\ mapped
  /\ Exhausted(r)
  /\ Goto(Owner, "clear")
  /\ Touch(Owner)
  /\ UNCHANGED <<lists, ring, freeing, clearing, state>>

-----------------------------------------------------------------------------
(* The application frees p, which belongs to cache r.  The owner's push is *)
(* complete at once: nobody else uses mListST or writes mbCache.           *)
Free(t, p, r) ==
  /\ pc[t] = "idle" /\ p \in live
  /\ live' = live \ {p}
  /\ \/ /\ mbCache /\ t = Owner
        /\ ListST(r, p)
        /\ UNCHANGED <<pc, pParcel>>
     \/ /\ mbCache /\ t # Owner
        /\ Goto(t, "fetch")
        /\ pParcel' = [pParcel EXCEPT ![t] = p]
        /\ UNCHANGED <<lists, ring>>
     \/ /\ ~mbCache
        /\ Goto(t, "dec")
        /\ pParcel' = [pParcel EXCEPT ![t] = p]
        /\ UNCHANGED <<lists, ring>>
  /\ Touch(t)
  /\ UNCHANGED <<oRevolver, pListMT, clearing>>
  /\ UNCHANGED <<mbCache, mnCache, oCache, mapped, bExit>>

(* The three atomics of Cache::ListMT.                                     *)
ListMT(t, r) ==
  /\ Fetch(t, r) \/ Load(t, r) \/ Cas(t, r)
  /\ Touch(t)
  /\ UNCHANGED state

(* Variant: deletes one parcel too early.                                  *)
AfterDecEarly(n) == IF n <= 1 THEN "delete" ELSE "idle"

(* Variant: nobody deletes after a Free.                                   *)
AfterDecNever(n) == "idle"

(* if (DecCache(1) == 0) Delete()                                          *)
AfterDec(n) == IF n = 0 THEN "delete" ELSE "idle"

(* DecCache(1) == 0: the parcel is counted off, the last one deletes.      *)
FreeDec(t) ==
  /\ pc[t] = "dec"
  /\ mnCache' = mnCache - 1
  /\ Goto(t, AfterDec(mnCache - 1))
  /\ pParcel' = [pParcel EXCEPT ![t] = NULL]
  /\ oRevolver' = [oRevolver EXCEPT ![t] = 0]
  /\ pListMT' = [pListMT EXCEPT ![t] = NULL]
  /\ Touch(t)
  /\ UNCHANGED <<lists, ring, clearing, mbCache, oCache, live, mapped, bExit>>

(* Delete: run the destructor and give the memory to a reserver.           *)
Delete(t) ==
  /\ pc[t] = "delete"
  /\ nDelete' = nDelete + 1
  /\ Uses(t)
  /\ Goto(t, IF t = Owner /\ bExit THEN "exited" ELSE "idle")
  /\ UNCHANGED <<lists, ring, freeing, clearing, state, nReturned>>

-----------------------------------------------------------------------------
(* The owner's thread ends: ~LocalCntx clears the allocators it still maps. *)
ThreadExit ==
  /\ pc[Owner] = "idle" /\ ~bExit
  /\ bExit' = TRUE
  /\ Goto(Owner, IF mapped THEN "clear" ELSE "exited")
  /\ UNCHANGED <<lists, ring, freeing, clearing, history>>
  /\ UNCHANGED <<mbCache, mnCache, oCache, live, mapped>>

(* Variant: the allocator is left open.                                    *)
ClearanceBeginOpen ==
  /\ pc[Owner] = "clear"
  /\ Goto(Owner, "walk")
  /\ Touch(Owner)
  /\ UNCHANGED <<lists, ring, freeing, clearing, state>>

(* Clearance: from here on parcels are counted off one by one.             *)
ClearanceBegin ==
  /\ pc[Owner] = "clear"
  /\ mbCache' = FALSE
  /\ Goto(Owner, "walk")
  /\ Touch(Owner)
  /\ UNCHANGED <<lists, ring, freeing, clearing>>
  /\ UNCHANGED <<mnCache, oCache, live, mapped, bExit>>

(* One own-thread list after the other, each followed by its ring.         *)
ClearanceWalk ==
  /\ Walk(oCache)
  /\ Touch(Owner)
  /\ UNCHANGED state

ClearanceSweep ==
  LET last == AllSwept(nSwept + 1)
  IN /\ Sweep(oCache, IF oCache = LastRealm THEN "sub" ELSE "walk")
     /\ oCache' = IF last /\ oCache < LastRealm THEN oCache + 1 ELSE oCache
     /\ Touch(Owner)
     /\ UNCHANGED <<mbCache, mnCache, live, mapped, bExit>>

(* Variant: ~LocalCntx deletes whatever the count is.                      *)
AfterClearanceAlways(rest) == IF bExit THEN "delete" ELSE "renew"

(* Variant: ~LocalCntx does not delete.                                    *)
AfterClearanceNever(rest) == IF bExit THEN "exited" ELSE "renew"

(* Alloc goes on with a new allocator; ~LocalCntx deletes this one when no *)
(* parcel is out.                                                          *)
AfterClearance(rest) ==
  CASE ~bExit -> "renew"
    [] bExit /\ rest = 0 -> "delete"
    [] bExit /\ rest # 0 -> "exited"

(* DecCache(nCache), the end of Clearance.  ~LocalCntx deletes when the    *)
(* count is zero; Alloc does not look at it.  On memory that has been      *)
(* given back the fetch_sub returns whatever is there by now: zero as it   *)
(* was left, or anything else.                                             *)
ClearanceEnd ==
  /\ pc[Owner] = "sub"
  /\ \E rest \in IF nDelete = 0 THEN {mnCache - nCache} ELSE {0, 1} :
       /\ mnCache' = IF nDelete = 0 THEN rest ELSE mnCache
       /\ Goto(Owner, AfterClearance(rest))
  /\ nReturned' = nCache
  /\ nCache' = 0 /\ nSwept' = 0 /\ oCache' = 0
  /\ Uses(Owner) /\ UNCHANGED nDelete
  /\ UNCHANGED <<lists, ring, freeing, mbCache, live, mapped, bExit>>

(* Variant: the owner goes on with this allocator.                         *)
RenewNot ==
  /\ pc[Owner] = "renew"
  /\ Goto(Owner, "idle")
  /\ Touch(Owner)
  /\ UNCHANGED <<lists, ring, freeing, clearing, state>>

(* return mpOwner->NewPool(mo) / NewCram(mb, s): the request is served by  *)
(* a new allocator, which replaces this one in the owner's LocalCntx.      *)
Renew ==
  /\ pc[Owner] = "renew"
  /\ mapped' = FALSE
  /\ Goto(Owner, "idle")
  /\ Touch(Owner)
  /\ UNCHANGED <<lists, ring, freeing, clearing, mbCache, mnCache, oCache, live, bExit>>

(* The owner is gone and no Free is under way: what the application still  *)
(* holds it may keep.                                                      *)
Finished ==
  /\ pc[Owner] = "exited"
  /\ \A t \in Thread \ {Owner} : pc[t] = "idle"
  /\ UNCHANGED vars

Clearance ==
  ClearanceBegin \/ ClearanceWalk \/ ClearanceSweep \/ ClearanceEnd \/ Renew

-----------------------------------------------------------------------------
(* Where a parcel can be while it still has to be counted off.             *)

Sweeping == pc[Owner] \in {"walk", "sweep"}

(* The owner's list of cache r is part of nCache already.                  *)
Walked(r) ==
  /\ ~mbCache
  /\ Sweeping => \/ r < oCache
                 \/ r = oCache /\ pc[Owner] = "sweep"

InFlight == {t \in Thread : pc[t] \in {"fetch", "load", "cas", "dec"}}

Freeing == {p \in Parcel : \E t \in InFlight : pParcel[t] = p}

ListedST == {p \in Parcel : \E r \in Realm : ~Walked(r) /\ p \in Range(mListST[r])}

ListedMT == {p \in Parcel : \E r \in Realm, i \in SlotIndex : p \in Range(maListMT[r][i])}

Outstanding == live \cup Freeing \cup ListedST \cup ListedMT

-----------------------------------------------------------------------------
Label == {"idle", "fetch", "load", "cas", "dec", "delete",
          "clear", "walk", "sweep", "sub", "renew", "exited"}

(* Every variable has its type; the two uint16_t counters of the ring stay *)
(* in their range (that mnCache never wraps below zero is Accounting).     *)
TypeOK ==
  /\ mListST \in [Realm -> Seq(Parcel)]
  /\ maListMT \in [Realm -> [SlotIndex -> Seq(Parcel \cup {Invalid})]]
  /\ mRevolverFree \in [Realm -> 0 .. cnCounter - 1]
  /\ mRevolverAlloc \in [Realm -> 0 .. cnRevolver]
  /\ pc \in [Thread -> Label]
  /\ pParcel \in [Thread -> Parcel \cup {NULL}]
  /\ oRevolver \in [Thread -> SlotIndex]
  /\ pListMT \in [Thread -> Parcel \cup {NULL, Invalid}]
  /\ nCache \in Nat /\ nSwept \in 0 .. cnRevolver
  /\ oCache \in Realm
  /\ mbCache \in BOOLEAN /\ mapped \in BOOLEAN /\ bExit \in BOOLEAN
  /\ mnCache \in Int
  /\ live \subseteq Parcel
  /\ nReturned \in Nat /\ nDelete \in Nat /\ dangling \subseteq Label

(* The ring never makes two parcels share a slot.  Alloc hands out the     *)
(* head of a slot and drops what is chained behind it, and Clearance       *)
(* counts a slot as one parcel: both lose parcels unless every list of     *)
(* maListMT has at most one.                                               *)
SlotHoldsOne == \A r \in Realm, i \in SlotIndex : Len(maListMT[r][i]) <= 1

(* A slot that t has drawn is empty or closed, and t expects it empty.     *)
Reserved(t, r) ==
  pc[t] \in {"load", "cas"} =>
    /\ maListMT[r][oRevolver[t]] \in {<<>>, <<Invalid>>}
    /\ pc[t] = "cas" => pListMT[t] = NULL

(* No parcel is in two places: in the application's hands, in a Free that  *)
(* has not finished, on a list of the owner, on a list of the ring.        *)
OnePlace ==
  /\ LET inST == ListedST
         inMT == ListedMT
     IN /\ live \cap (Freeing \cup inST \cup inMT) = {}
        /\ Freeing \cap (inST \cup inMT) = {}
        /\ inST \cap inMT = {}
  /\ \A t, u \in InFlight : t # u => pParcel[t] # pParcel[u]

(* mnCache is the number of parcels that have not been counted off, those  *)
(* Clearance has found and not yet subtracted included: no parcel is lost  *)
(* between an Alloc, a Free and Clearance, however they interleave.        *)
Accounting == mnCache = Cardinality(Outstanding) + nCache

(* Nobody destroys the allocator under a parcel that is still out, so that *)
(* no Alloc and no Free ever finds the memory gone.                        *)
DeleteWhenIdle ==
  /\ nDelete > 0 => Outstanding = {}
  /\ dangling \cap {"idle", "fetch", "load", "cas", "dec"} = {}

(* When Clearance finds a parcel, its count keeps everybody else from      *)
(* reaching zero before the owner has subtracted it: the allocator is      *)
(* deleted once at most, and all that is left to go wrong is the owner's   *)
(* read of mpOwner after Clearance.                                        *)
DeletedOnceIfCached ==
  nCache + nReturned > 0 => nDelete <= 1 /\ dangling \subseteq {"renew"}

(* Once the allocator is closed it stays closed and every step only brings *)
(* its count down.                                                         *)
ClosedForGood ==
  [][~mbCache => ~mbCache' /\ mnCache' <= mnCache /\ live' \subseteq live]_vars

(* README: "Lock-Free" but not "Wait-Free".  Free does come back, because  *)
(* a drawn slot is never contended.                                        *)
FreeReturns == \A t \in Thread : t \in InFlight ~> t \notin InFlight

(* Once Clearance is over with parcels still out, freeing the last of them *)
(* destroys the allocator.                                                 *)
LastFreeDeletes ==
  ~mbCache /\ pc[Owner] \notin {"walk", "sweep", "sub"} /\ mnCache > 0 /\ live = {}
    ~> nDelete > 0

(* An allocator that its thread still maps when it ends is destroyed as    *)
(* soon as the application holds none of its parcels.                      *)
ExitReclaims == bExit /\ mapped /\ live = {} ~> nDelete > 0

(* README: in the Clearance state, when all areas are freed, the allocator *)
(* destroys itself; here: it does so sooner or later.                      *)
ClearanceReclaims == ~mbCache /\ live = {} ~> nDelete > 0

(* The same sentence of the README: it destroys itself, once.              *)
DestroyedOnce == nDelete <= 1
=============================================================================
