------------------------------- MODULE Cache -------------------------------
(***************************************************************************)
(* The free lists of src/src/Cache.h: a list that only the owner thread    *)
(* touches (mListST, no atomics) and a ring of lists that every other      *)
(* thread pushes on with compare-and-swap (maListMT), each request going   *)
(* to the next slot of the ring ("revolver").                              *)
(*                                                                         *)
(* An allocator holds one cache per realm: LocalPool one, LocalCram        *)
(* seventeen.  One action is one access to a shared atomic; what a thread  *)
(* does on memory nobody else reads is part of the next atomic access.     *)
(* A list is the sequence of its parcels, head first, which abstracts the  *)
(* chain of Parcel::mpNext pointers.                                       *)
(***************************************************************************)
EXTENDS Integers, Sequences, FiniteSets, Functions

CONSTANTS
  Thread,       \* the threads of the process
  Owner,        \* the thread that created the allocator (mId)
  Parcel,       \* the parcels of the allocator's memory
  LastRealm,    \* its caches are numbered 0 .. LastRealm
  cnRevolver,   \* slots of a ring (cnPoolParcel, cnCramParcel)
  cnCounter,    \* values of the ring's counter: 2^16 for a uint16_t
  NULL,         \* the null Parcel pointer
  Invalid       \* Parcel::cpInvalid, which closes a slot for good

ASSUME CacheAssumption ==
  /\ Owner \in Thread
  /\ IsFiniteSet(Parcel)
  /\ LastRealm \in Nat
  /\ NULL \notin Parcel /\ Invalid \notin Parcel /\ NULL # Invalid
  /\ cnRevolver \in Nat \ {0}
  /\ cnCounter \in Nat \ {0}
  /\ cnCounter % cnRevolver = 0

VARIABLES
  mListST,         \* [Realm -> list]           free list of the owner thread
  maListMT,        \* [Realm -> [slot -> list]] free lists of the other threads
  mRevolverFree,   \* [Realm -> counter]        next slot a free pushes on
  mRevolverAlloc,  \* [Realm -> counter]        next slot the owner allocates from
  pc,              \* where each thread is
  pParcel,         \* the parcel a thread is freeing
  oRevolver,       \* the slot ListMT drew for it
  pListMT,         \* the head ListMT expects in that slot
  nCache,          \* owner: parcels counted so far by Clearance
  nSwept           \* owner: slots of the current cache already closed

lists  == <<mListST, maListMT>>
ring   == <<mRevolverFree, mRevolverAlloc>>
freeing == <<pParcel, oRevolver, pListMT>>
clearing == <<nCache, nSwept>>

Realm == 0 .. LastRealm

SlotIndex == 0 .. cnRevolver - 1

(* RevolverMask: cnRevolver is a power of two in the code, % is the mask.  *)
Slot(o) == o % cnRevolver

Top(list) == IF list = <<>> THEN NULL ELSE Head(list)

Goto(t, label) == pc' = [pc EXCEPT ![t] = label]

CacheInit(st) ==
  /\ mListST = st
  /\ maListMT = [r \in Realm |-> [i \in SlotIndex |-> <<>>]]
  /\ mRevolverFree = [r \in Realm |-> 0]
  /\ mRevolverAlloc = [r \in Realm |-> 0]
  /\ pc = [t \in Thread |-> "idle"]
  /\ pParcel = [t \in Thread |-> NULL]
  /\ oRevolver = [t \in Thread |-> 0]
  /\ pListMT = [t \in Thread |-> NULL]
  /\ nCache = 0
  /\ nSwept = 0

-----------------------------------------------------------------------------
(* Free.                                                                   *)

(* Cache::ListST: the owner pushes without synchronisation.                *)
ListST(r, p) ==
  /\ mListST' = [mListST EXCEPT ![r] = <<p>> \o @]
  /\ UNCHANGED <<maListMT, ring>>

(* Variant: a load and a store instead of the fetch_add, the store lost.   *)
CountedLost(n) == n

(* fetch_add on a uint16_t                                                 *)
Counted(n) == (n + 1) % cnCounter

(* Cache::ListMT, first atomic: draw the next slot of the ring.            *)
Fetch(t, r) ==
  /\ pc[t] = "fetch"
  /\ oRevolver' = [oRevolver EXCEPT ![t] = Slot(mRevolverFree[r])]
  /\ mRevolverFree' = [mRevolverFree EXCEPT ![r] = Counted(@)]
  /\ Goto(t, "load")
  /\ UNCHANGED <<lists, mRevolverAlloc, pParcel, pListMT, clearing>>

(* Variant: a closed slot is read again and again.                         *)
AfterReadSpin(head) == IF head = Invalid THEN "load" ELSE "cas"

(* Where ListMT goes with the head it has just read: a closed slot makes   *)
(* it return false, and its caller then counts the parcel off.             *)
AfterRead(head) == IF head = Invalid THEN "dec" ELSE "cas"

(* Cache::ListMT, second atomic: read the head of the slot.                *)
Load(t, r) ==
  LET head == Top(maListMT[r][oRevolver[t]])
  IN /\ pc[t] = "load"
     /\ pListMT' = [pListMT EXCEPT ![t] = head]
     /\ Goto(t, AfterRead(head))
     /\ UNCHANGED <<lists, ring, pParcel, oRevolver, clearing>>

(* Cache::ListMT, third atomic: link the parcel before the head it read    *)
(* and swap it in, or read the head again.                                 *)
Cas(t, r) ==
  LET i == oRevolver[t]
      head == Top(maListMT[r][i])
  IN /\ pc[t] = "cas"
     /\ \/ /\ head = pListMT[t]
           /\ maListMT' = [maListMT EXCEPT ![r][i] = <<pParcel[t]>> \o @]
           /\ Goto(t, "idle")
           /\ pParcel' = [pParcel EXCEPT ![t] = NULL]
           /\ oRevolver' = [oRevolver EXCEPT ![t] = 0]
           /\ pListMT' = [pListMT EXCEPT ![t] = NULL]
        \/ /\ head # pListMT[t]
           /\ pListMT' = [pListMT EXCEPT ![t] = head]
           /\ Goto(t, AfterRead(head))
           /\ UNCHANGED <<maListMT, pParcel, oRevolver>>
     /\ UNCHANGED <<mListST, ring, clearing>>

-----------------------------------------------------------------------------
(* Alloc, by the owner.                                                    *)

(* The head of the owner's own list.                                       *)
TakeST(r) ==
  /\ mListST[r] # <<>>
  /\ mListST' = [mListST EXCEPT ![r] = Tail(@)]
  /\ UNCHANGED <<maListMT, ring>>

(* The slot the owner looks at when its own list is empty.                 *)
AllocSlot(r) == Slot(mRevolverAlloc[r])

(* Variant: the slot is read with a load instead of an exchange.           *)
ExchangedLoad(list) == list

(* What exchange(nullptr) leaves in the slot.                              *)
Exchanged(list) == <<>>

(* Variant: the ring does not advance.                                     *)
AdvancedNot(i) == i

(* The slot after i, masked when it is used.                               *)
Advanced(i) == i + 1

(* Exchange that slot with null: the head of the list is allocated and the *)
(* ring advances; whatever is chained behind the head is dropped.          *)
TakeMT(r) ==
  /\ mListST[r] = <<>>
  /\ maListMT[r][AllocSlot(r)] # <<>>
  /\ maListMT' = [maListMT EXCEPT ![r][AllocSlot(r)] = Exchanged(@)]
  /\ mRevolverAlloc' = [mRevolverAlloc EXCEPT ![r] = Advanced(AllocSlot(r))]
  /\ UNCHANGED <<mListST, mRevolverFree>>

Exhausted(r) == mListST[r] = <<>> /\ maListMT[r][AllocSlot(r)] = <<>>

-----------------------------------------------------------------------------
(* Cache::Clearance, by the owner.                                         *)

(* Count the owner's own list; mListST.p itself is left as it is.          *)
Walk(r) ==
  /\ pc[Owner] = "walk"
  /\ nCache' = nCache + Len(mListST[r])
  /\ nSwept' = 0
  /\ Goto(Owner, "sweep")
  /\ UNCHANGED <<lists, ring, freeing>>

(* Variant: every slot counts, empty or not.                               *)
CountAnySlot(list) == 1

(* A slot that holds a list counts one, however long the list is.          *)
CountSlot(list) == IF list = <<>> THEN 0 ELSE 1

(* Variant: one slot too many.                                             *)
AllSweptLate(n) == n = cnRevolver + 1

(* The loop over the slots ends after n of them.                           *)
AllSwept(n) == n = cnRevolver

(* Close the next slot of the ring: after the last one, go to next.        *)
Sweep(r, next) ==
  LET i == Slot(mRevolverAlloc[r] + nSwept)
  IN /\ pc[Owner] = "sweep"
     /\ maListMT' = [maListMT EXCEPT ![r][i] = <<Invalid>>]
     /\ nCache' = nCache + CountSlot(maListMT[r][i])
     /\ nSwept' = nSwept + 1
     /\ Goto(Owner, IF AllSwept(nSwept + 1) THEN next ELSE "sweep")
     /\ UNCHANGED <<mListST, ring, freeing>>
=============================================================================
