-------------------------- MODULE LocalPool_proofs --------------------------
(***************************************************************************)
(* Proofs about LocalPool.  First types, phases and the ring, that is      *)
(* TypeOK /\ Phase /\ RingInv is inductive.  The heart is Window: claimed  *)
(* slots of the ring and parcels without a slot are together no more than  *)
(* cnRevolver, so that a free never draws a slot that is still in use.     *)
(*                                                                         *)
(* Then where the parcels are, the count mnCache, and destruction: what    *)
(* every action does to Outstanding, that the count follows, who may       *)
(* delete, and the theorems.                                               *)
(***************************************************************************)
EXTENDS LocalPool, CachedLocal_proofs

(* A pool has one realm; what the assumptions say of the constants.        *)
LEMMA Constants ==
  /\ Realm = {0}
  /\ cnRevolver \in Nat \ {0}
  /\ SlotIndex = 0 .. cnRevolver - 1
  /\ 0 \in SlotIndex
  /\ IsFiniteSet(Parcel)
  /\ Owner \in Thread
  /\ NULL \notin Parcel /\ Invalid \notin Parcel /\ NULL # Invalid
  BY CacheAssumption, PoolAssumption DEF Realm, SlotIndex

(* The slot to allocate from next is a slot.                               *)
LEMMA AllocSlotType ==
  ASSUME TypeOK
  PROVE  AllocSlot(0) \in SlotIndex
  BY Constants, SlotRange DEF AllocSlot, TypeOK

(* What an assignment to a slot of the ring, or to the owner's list, does. *)
LEMMA SetSlot ==
  ASSUME TypeOK, NEW i \in SlotIndex, NEW list \in Seq(Parcel \cup {Invalid}),
         maListMT' = [maListMT EXCEPT ![0][i] = list]
  PROVE  /\ maListMT' \in [Realm -> [SlotIndex -> Seq(Parcel \cup {Invalid})]]
         /\ \A k \in SlotIndex :
              maListMT'[0][k] = IF k = i THEN list ELSE maListMT[0][k]
  <1> DEFINE slots == [maListMT[0] EXCEPT ![i] = list]
  <1>1. slots \in [SlotIndex -> Seq(Parcel \cup {Invalid})]
    BY Constants DEF TypeOK
  <1>2. maListMT' = [maListMT EXCEPT ![0] = slots]
    OBVIOUS
  <1>3. \A k \in SlotIndex : slots[k] = IF k = i THEN list ELSE maListMT[0][k]
    BY Constants DEF TypeOK
  <1> HIDE DEF slots
  <1>4. maListMT'[0] = slots
    BY <1>2, Constants DEF TypeOK
  <1>5. maListMT' \in [Realm -> [SlotIndex -> Seq(Parcel \cup {Invalid})]]
    BY <1>1, <1>2, Constants DEF TypeOK
  <1> QED BY <1>3, <1>4, <1>5

(* What an assignment to the owner's list does.                            *)
LEMMA SetList ==
  ASSUME TypeOK, NEW list \in Seq(Parcel),
         mListST' = [mListST EXCEPT ![0] = list]
  PROVE  mListST' \in [Realm -> Seq(Parcel)] /\ mListST'[0] = list
  BY Constants DEF TypeOK

(* TakeST leaves the tail of the owner's list.                             *)
LEMMA TakeSTList ==
  ASSUME TypeOK, TakeST(0)
  PROVE  /\ mListST' \in [Realm -> Seq(Parcel)]
         /\ mListST'[0] = Tail(mListST[0])
         /\ Head(mListST[0]) \in Parcel
  <1>1. mListST[0] \in Seq(Parcel) /\ mListST[0] # <<>>
    BY Constants DEF TypeOK, TakeST
  <1>2. Tail(mListST[0]) \in Seq(Parcel) /\ Head(mListST[0]) \in Parcel
    BY <1>1
  <1>3. mListST' = [mListST EXCEPT ![0] = Tail(mListST[0])]
    BY DEF TakeST
  <1> QED BY <1>2, <1>3, SetList

(* TakeMT empties the slot it takes from and no other.                     *)
LEMMA TakeMTList ==
  ASSUME TypeOK, TakeMT(0)
  PROVE  /\ maListMT' \in [Realm -> [SlotIndex -> Seq(Parcel \cup {Invalid})]]
         /\ \A k \in SlotIndex :
              maListMT'[0][k] = IF k = AllocSlot(0) THEN <<>> ELSE maListMT[0][k]
  <1>1. maListMT' = [maListMT EXCEPT ![0][AllocSlot(0)] = <<>>]
    BY DEF TakeMT, Exchanged
  <1>2. <<>> \in Seq(Parcel \cup {Invalid})
    OBVIOUS
  <1> QED BY <1>1, <1>2, AllocSlotType, SetSlot

(* ListST puts the parcel at the head of the owner's list.                 *)
LEMMA ListSTList ==
  ASSUME TypeOK, NEW p \in Parcel, ListST(0, p)
  PROVE  /\ mListST' \in [Realm -> Seq(Parcel)]
         /\ mListST'[0] = <<p>> \o mListST[0]
  <1>1. mListST[0] \in Seq(Parcel)
    BY Constants DEF TypeOK
  <1>2. <<p>> \o mListST[0] \in Seq(Parcel)
    BY <1>1
  <1>3. mListST' = [mListST EXCEPT ![0] = <<p>> \o mListST[0]]
    BY DEF ListST
  <1> QED BY <1>2, <1>3, SetList

(* A thread that goes to a label leaves pc well-typed.                     *)
LEMMA GotoType ==
  ASSUME TypeOK, NEW t \in Thread, NEW l \in Label, Goto(t, l)
  PROVE  pc' \in [Thread -> Label]
  <1> HIDE DEF Label
  <1> QED BY DEF TypeOK, Goto

-----------------------------------------------------------------------------
(* Types and phases: Alloc from a list.                                    *)
LEMMA AllocCachedType ==
  ASSUME TypeOK, Phase, SlotShape, AllocCached(0)
  PROVE  TypeOK' /\ Phase'
  <1> USE Constants
  <1>1. mbCache
    BY DEF AllocCached, Phase
  <1>2. mListST' \in [Realm -> Seq(Parcel)]
    BY TakeSTList DEF TypeOK, AllocCached, TakeMT
  <1>3. maListMT' \in [Realm -> [SlotIndex -> Seq(Parcel \cup {Invalid})]]
    BY TakeMTList DEF TypeOK, AllocCached, TakeST
  <1>4. mRevolverFree' \in [Realm -> 0 .. cnCounter - 1]
    BY DEF TypeOK, AllocCached, TakeST, TakeMT, ring
  <1>5. mRevolverAlloc' \in [Realm -> 0 .. cnRevolver]
    <2>1. CASE TakeST(0)
      BY <2>1 DEF TypeOK, TakeST, ring
    <2>2. CASE TakeMT(0)
      <3>1. Advanced(AllocSlot(0)) \in 0 .. cnRevolver
        BY AllocSlotType, CacheAssumption DEF Advanced, SlotIndex
      <3>2. mRevolverAlloc' = [mRevolverAlloc EXCEPT ![0] = Advanced(AllocSlot(0))]
        BY <2>2 DEF TakeMT
      <3> QED BY <3>1, <3>2 DEF TypeOK
    <2> QED BY <2>1, <2>2 DEF AllocCached
  <1>6. live' \subseteq Parcel
    <2>1. CASE TakeST(0) /\ live' = live \cup {Head(mListST[0])}
      BY <2>1 DEF TypeOK, TakeST
    <2>2. CASE TakeMT(0) /\ live' = live \cup {Head(maListMT[0][AllocSlot(0)])}
      <3>1. PICK p \in Parcel : maListMT[0][AllocSlot(0)] = <<p>>
        BY <1>1, <2>2, AllocSlotType DEF SlotShape, TakeMT
      <3> QED BY <2>2, <3>1 DEF TypeOK
    <2> QED BY <2>1, <2>2 DEF AllocCached
  <1>7. TypeOK'
    BY <1>2, <1>3, <1>4, <1>5, <1>6
    DEF TypeOK, AllocCached, Touch, Uses, freeing, clearing, Label
  <1>8. Phase'
    BY DEF Phase, AllocCached, freeing, clearing, InFlight
  <1> QED BY <1>7, <1>8

(* Types and phases: the start of Free.                                    *)
LEMMA FreeType ==
  ASSUME TypeOK, Phase, NEW t \in Thread, NEW p \in live, Free(t, p, 0)
  PROVE  TypeOK' /\ Phase'
  <1> USE Constants
  <1>1. p \in Parcel /\ p # NULL
    BY DEF TypeOK
  <1>2. mListST' \in [Realm -> Seq(Parcel)]
    BY <1>1, ListSTList DEF TypeOK, Free, lists
  <1>3. TypeOK'
    <2>1. pc' \in [Thread -> Label] /\ pParcel' \in [Thread -> Parcel \cup {NULL}]
      <3>1. pParcel' \in [Thread -> Parcel \cup {NULL}]
        BY <1>1 DEF TypeOK, Free
      <3>2. "fetch" \in Label /\ "dec" \in Label
        BY DEF Label
      <3>3. UNCHANGED pc \/ Goto(t, "fetch") \/ Goto(t, "dec")
        BY DEF Free
      <3> QED BY <3>1, <3>2, <3>3, GotoType DEF TypeOK
    <2>2. UNCHANGED <<maListMT, ring>>
      BY DEF Free, ListST, lists
    <2>3. dangling' \subseteq Label
      BY DEF TypeOK, Free, Touch, Uses
    <2>4. live' \subseteq Parcel
      BY DEF TypeOK, Free
    <2> QED BY <1>2, <2>1, <2>2, <2>3, <2>4 DEF TypeOK, Free, ring, Touch, clearing
  <1>4. Phase'
    <2>1. UNCHANGED <<mbCache, mapped, bExit, nSwept>> /\ pc[t] = "idle"
      BY DEF Free, clearing
    <2>2. CASE UNCHANGED <<pc, pParcel>>
      BY <2>1, <2>2 DEF Phase, InFlight
    <2>3. ASSUME NEW l \in {"fetch", "dec"}, Goto(t, l),
                 pParcel' = [pParcel EXCEPT ![t] = p],
                 l = "fetch" => t # Owner, l = "dec" => ~mbCache
          PROVE  Phase'
      <3>1. /\ \A u \in Thread : pc'[u] = IF u = t THEN l ELSE pc[u]
            /\ \A u \in Thread : pParcel'[u] = IF u = t THEN p ELSE pParcel[u]
        BY <2>3 DEF TypeOK, Goto
      <3>2. l = "dec" /\ t = Owner => ~mapped
        BY <2>1, <2>3 DEF Phase
      <3> QED BY <1>1, <2>1, <2>3, <3>1, <3>2 DEF Phase, InFlight
    <2> QED BY <2>2, <2>3 DEF Free
  <1> QED BY <1>3, <1>4

(* Types and phases: drawing a slot.                                       *)
LEMMA FetchType ==
  ASSUME TypeOK, Phase, NEW t \in Thread,
         Fetch(t, 0), Touch(t), UNCHANGED state
  PROVE  TypeOK' /\ Phase'
  <1> USE Constants
  <1>1. mRevolverFree' \in [Realm -> 0 .. cnCounter - 1]
    BY CountedType DEF TypeOK, Fetch
  <1>2. oRevolver' \in [Thread -> SlotIndex]
    <2>1. mRevolverFree[0] \in Nat
      BY DEF TypeOK
    <2> QED BY <2>1, SlotRange DEF TypeOK, Fetch
  <1>3. TypeOK'
    BY <1>1, <1>2
    DEF TypeOK, Fetch, lists, clearing, state, Touch, Uses, Label, Goto
  <1>4. Phase'
    BY DEF TypeOK, Phase, Fetch, clearing, state, InFlight, Goto
  <1> QED BY <1>3, <1>4

(* Types and phases: reading the slot, which is empty or closed.           *)
LEMMA LoadType ==
  ASSUME TypeOK, Phase, DrawnSlotIsFree, SlotShape, NEW t \in Thread,
         Load(t, 0), Touch(t), UNCHANGED state
  PROVE  TypeOK' /\ Phase'
  <1> USE Constants
  <1> DEFINE list == maListMT[0][oRevolver[t]]
  <1>1. list \in {<<>>, <<Invalid>>} /\ (list = <<Invalid>> => ~mbCache)
    BY DEF DrawnSlotIsFree, Reserved, Load, SlotShape, TypeOK
  <1>2. Top(list) \in {NULL, Invalid} /\ (Top(list) = Invalid => ~mbCache)
    BY <1>1 DEF Top
  <1>3. TypeOK'
    BY <1>2 DEF TypeOK, Load, lists, ring, clearing, state, Touch, Uses, Label,
                Goto, AfterRead
  <1>4. Phase'
    BY <1>2 DEF TypeOK, Phase, Load, clearing, state, InFlight, Goto, AfterRead
  <1> QED BY <1>3, <1>4

(* Types and phases: the compare-and-swap, on a slot that is empty or      *)
(* closed.                                                                 *)
LEMMA CasType ==
  ASSUME TypeOK, Phase, DrawnSlotIsFree, SlotShape, NEW t \in Thread,
         Cas(t, 0), Touch(t), UNCHANGED state
  PROVE  TypeOK' /\ Phase'
  <1> USE Constants
  <1> DEFINE list == maListMT[0][oRevolver[t]]
  <1>1. list \in {<<>>, <<Invalid>>} /\ (list = <<Invalid>> => ~mbCache)
    BY DEF DrawnSlotIsFree, Reserved, Cas, SlotShape, TypeOK
  <1>2. Top(list) \in {NULL, Invalid} /\ (Top(list) = Invalid => ~mbCache)
    BY <1>1 DEF Top
  <1>3. pListMT[t] = NULL /\ pParcel[t] \in Parcel
    BY DEF DrawnSlotIsFree, Reserved, Cas, Phase, InFlight, TypeOK
  <1>4. maListMT' \in [Realm -> [SlotIndex -> Seq(Parcel \cup {Invalid})]]
    <2>1. oRevolver[t] \in SlotIndex
      BY DEF TypeOK
    <2>2. <<pParcel[t]>> \o list \in Seq(Parcel \cup {Invalid})
      <3>1. <<pParcel[t]>> \in Seq(Parcel \cup {Invalid})
        BY <1>3
      <3>2. list \in Seq(Parcel \cup {Invalid})
        BY <2>1, Constants DEF TypeOK
      <3> HIDE DEF list
      <3> QED BY <3>1, <3>2
    <2>3. \/ maListMT' = maListMT
          \/ maListMT' = [maListMT EXCEPT ![0][oRevolver[t]] = <<pParcel[t]>> \o list]
      BY DEF Cas
    <2> QED BY <2>1, <2>2, <2>3, SetSlot DEF TypeOK
  <1>5. TypeOK'
    <2>1. /\ pc' \in [Thread -> Label]
          /\ pParcel' \in [Thread -> Parcel \cup {NULL}]
          /\ oRevolver' \in [Thread -> SlotIndex]
          /\ pListMT' \in [Thread -> Parcel \cup {NULL, Invalid}]
      <3>1. "idle" \in Label /\ AfterRead(Top(list)) \in Label
        BY DEF Label, AfterRead
      <3>2. Goto(t, "idle") \/ Goto(t, AfterRead(Top(list)))
        BY DEF Cas
      <3>3. pc' \in [Thread -> Label]
        BY <3>1, <3>2, GotoType
      <3>4. pParcel' \in [Thread -> Parcel \cup {NULL}]
        BY DEF TypeOK, Cas
      <3>6. oRevolver' \in [Thread -> SlotIndex]
        <4>1. oRevolver' = oRevolver \/ oRevolver' = [oRevolver EXCEPT ![t] = 0]
          BY DEF Cas
        <4>2. 0 \in SlotIndex /\ oRevolver \in [Thread -> SlotIndex]
          BY CacheAssumption DEF SlotIndex, TypeOK
        <4> QED BY <4>1, <4>2
      <3>5. pListMT' \in [Thread -> Parcel \cup {NULL, Invalid}]
        BY <1>2 DEF TypeOK, Cas
      <3> QED BY <3>3, <3>4, <3>5, <3>6
    <2>2. dangling' \subseteq Label
      BY DEF TypeOK, Touch, Uses
    <2> QED BY <1>4, <2>1, <2>2 DEF TypeOK, Cas, ring, clearing, state, Touch
  <1>6. Phase'
    <2>1. t # Owner /\ pc[t] = "cas"
      BY DEF Cas, Phase
    <2>2. UNCHANGED <<mbCache, mapped, bExit, nSwept>>
      BY DEF Cas, clearing, state
    <2>3. ASSUME Top(list) = pListMT[t] PROVE Phase'
      <3>1. /\ pc' = [pc EXCEPT ![t] = "idle"]
            /\ pParcel' = [pParcel EXCEPT ![t] = NULL]
        BY <2>3 DEF Cas, Goto
      <3> QED BY <2>1, <2>2, <3>1 DEF TypeOK, Phase, InFlight
    <2>4. ASSUME Top(list) # pListMT[t] PROVE Phase'
      <3>1. /\ pc' = [pc EXCEPT ![t] = AfterRead(Top(list))]
            /\ pParcel' = pParcel
        BY <2>4 DEF Cas, Goto
      <3>2. /\ AfterRead(Top(list)) \in {"cas", "dec"}
            /\ AfterRead(Top(list)) = "dec" => ~mbCache
        BY <1>2 DEF AfterRead
      <3> QED BY <2>1, <2>2, <3>1, <3>2 DEF TypeOK, Phase, InFlight
    <2> QED BY <2>3, <2>4
  <1> QED BY <1>5, <1>6

(* Types and phases: counting a parcel off.                                *)
LEMMA FreeDecType ==
  ASSUME TypeOK, Phase, NEW t \in Thread, FreeDec(t)
  PROVE  TypeOK' /\ Phase'
  <1> USE Constants
  <1>1. TypeOK'
    BY DEF TypeOK, FreeDec, lists, ring, clearing, Touch, Uses, Label, Goto, AfterDec
  <1>2. Phase'
    BY DEF TypeOK, Phase, FreeDec, clearing, InFlight, Goto, AfterDec
  <1> QED BY <1>1, <1>2

(* Types and phases: closing a slot; nSwept never passes cnRevolver.       *)
LEMMA SweepType ==
  ASSUME TypeOK, Phase, ClearanceSweep
  PROVE  TypeOK' /\ Phase'
  <1> USE Constants
  <1>1. oCache = 0 /\ LastRealm = 0
    BY PoolAssumption DEF TypeOK
  <1> DEFINE i == Slot(mRevolverAlloc[0] + nSwept)
  <1>2. i \in SlotIndex
    <2>1. mRevolverAlloc[0] + nSwept \in Nat
      BY DEF TypeOK
    <2> QED BY <2>1, SlotRange
  <1>3. maListMT' = [maListMT EXCEPT ![0][i] = <<Invalid>>]
    BY <1>1 DEF ClearanceSweep, Sweep
  <1>4. maListMT' \in [Realm -> [SlotIndex -> Seq(Parcel \cup {Invalid})]]
    <2>1. <<Invalid>> \in Seq(Parcel \cup {Invalid})
      OBVIOUS
    <2> QED BY <1>2, <1>3, <2>1, SetSlot
  <1>5. TypeOK'
    <2>1. nCache' \in Nat /\ nSwept' \in 0 .. cnRevolver
      BY <1>1 DEF TypeOK, Phase, ClearanceSweep, Sweep, CountSlot
    <2>2. pc' \in [Thread -> Label]
      <3>1. Goto(Owner, "sub") \/ Goto(Owner, "sweep")
        BY <1>1 DEF ClearanceSweep, Sweep
      <3>2. "sub" \in Label /\ "sweep" \in Label
        BY DEF Label
      <3> QED BY <3>1, <3>2, GotoType
    <2>3. oCache' \in Realm
      BY <1>1 DEF TypeOK, ClearanceSweep
    <2>4. dangling' \subseteq Label /\ UNCHANGED <<nReturned, nDelete>>
      BY DEF TypeOK, ClearanceSweep, Touch, Uses
    <2>5. /\ UNCHANGED <<mListST, ring, freeing>>
          /\ UNCHANGED <<mbCache, mnCache, live, mapped, bExit>>
      BY DEF ClearanceSweep, Sweep
    <2> QED BY <1>4, <2>1, <2>2, <2>3, <2>4, <2>5 DEF TypeOK, ring, freeing
  <1>6. Phase'
    BY <1>1 DEF TypeOK, Phase, ClearanceSweep, Sweep, freeing, Goto, AllSwept, InFlight
  <1> QED BY <1>5, <1>6

(* Types and phases: the steps that touch no list.                         *)
LEMMA OtherTypes ==
  ASSUME TypeOK, Phase,
         \/ AllocExhausted(0) \/ ThreadExit \/ ClearanceBegin \/ ClearanceWalk
         \/ ClearanceEnd \/ Renew \/ \E t \in Thread : Delete(t)
  PROVE  TypeOK' /\ Phase'
  <1> USE Constants DEF TypeOK, Phase, lists, ring, freeing, clearing, state, history,
                        Touch, Uses, Label, Goto, InFlight
  <1>1. CASE AllocExhausted(0)
    BY <1>1 DEF AllocExhausted
  <1>2. CASE ThreadExit
    BY <1>2 DEF ThreadExit
  <1>3. CASE ClearanceBegin
    BY <1>3 DEF ClearanceBegin
  <1>4. CASE ClearanceWalk
    BY <1>4 DEF ClearanceWalk, Walk
  <1>5. CASE ClearanceEnd
    <2>1. PICK rest \in IF nDelete = 0 THEN {mnCache - nCache} ELSE {0, 1} :
            /\ mnCache' = IF nDelete = 0 THEN rest ELSE mnCache
            /\ pc' = [pc EXCEPT ![Owner] = AfterClearance(rest)]
      BY <1>5 DEF ClearanceEnd
    <2>2. AfterClearance(rest) \in IF bExit THEN {"delete", "exited"} ELSE {"renew"}
      BY DEF AfterClearance
    <2>3. TypeOK'
      BY <1>5, <2>1, <2>2 DEF ClearanceEnd
    <2>4. Phase'
      BY <1>5, <2>1, <2>2 DEF ClearanceEnd
    <2> QED BY <2>3, <2>4
  <1>6. CASE Renew
    BY <1>6 DEF Renew
  <1>7. CASE \E t \in Thread : Delete(t)
    BY <1>7 DEF Delete
  <1> QED BY <1>1, <1>2, <1>3, <1>4, <1>5, <1>6, <1>7

-----------------------------------------------------------------------------
-----------------------------------------------------------------------------
(* A step that leaves the lists, the ring, the frees under way and the     *)
(* application's parcels alone keeps what is said of the ring.             *)
LEMMA Quiet ==
  ASSUME RingInv, TypeOK, Phase,
         UNCHANGED <<lists, ring, freeing, live>>,
         \A t \in Thread : pc'[t] # pc[t] =>
            /\ pc[t] \notin {"fetch", "load", "cas"}
            /\ pc'[t] \notin {"fetch", "load", "cas"},
         mbCache' => mbCache
  PROVE  RingInv'
  <1> USE DEF lists, ring, freeing
  <1>1. SlotShape'
    BY DEF RingInv, SlotShape
  <1>2. Apart'
    BY DEF RingInv, Apart, OwnList
  <1>3. DrawnSlotIsFree'
    BY DEF RingInv, DrawnSlotIsFree, Reserved
  <1>4. DrawnOnce'
    BY DEF RingInv, DrawnOnce, Drawing
  <1>5. ASSUME NEW c \in 0 .. cnRevolver, Window(c) PROVE Window(c)'
    <2>1. Unclaimed' = Unclaimed
      BY DEF Unclaimed, OwnList
    <2> QED BY <1>5, <2>1 DEF Window, Offset, AllocSlot, Slot, Drawing
  <1> QED BY <1>1, <1>2, <1>3, <1>4, <1>5 DEF RingInv

(* The parcels without a slot are finitely many.                           *)
LEMMA UnclaimedFinite ==
  ASSUME TypeOK
  PROVE  IsFiniteSet(Unclaimed) /\ Unclaimed \subseteq Parcel
  <1>1. OwnList \subseteq Parcel
    BY Constants DEF OwnList, Range, TypeOK
  <1>2. Unclaimed \subseteq Parcel
    BY <1>1 DEF Unclaimed, TypeOK
  <1> QED BY <1>2, Constants, FS_Subset

(* Offsets run from 0 to cnRevolver - 1.                                   *)
LEMMA OffsetRange ==
  ASSUME TypeOK, NEW i \in SlotIndex
  PROVE  Offset(i) \in 0 .. cnRevolver - 1
  BY AllocSlotType, Constants DEF Offset

(* Alloc from the owner's list moves a parcel from it to the application.  *)
LEMMA AllocSTRing ==
  ASSUME TypeOK, Phase, RingInv, AllocCached(0), TakeST(0),
         live' = live \cup {Head(mListST[0])}
  PROVE  RingInv'
  <1> DEFINE p == Head(mListST[0])
  <1>1. mListST[0] \in Seq(Parcel) /\ mListST[0] # <<>>
    BY Constants DEF TypeOK, TakeST
  <1>2. mListST'[0] = Tail(mListST[0]) /\ p \in Parcel
    BY TakeSTList
  <1>3. /\ p \in OwnList
        /\ OwnList' = OwnList \ {p}
        /\ \A j, k \in 1 .. Len(mListST'[0]) : mListST'[0][j] = mListST'[0][k] => j = k
    BY <1>1, <1>2, TailRange DEF OwnList, RingInv, Apart
  <1>4. UNCHANGED <<maListMT, ring, freeing, pc, mbCache>>
    BY DEF TakeST, AllocCached
  <1> HIDE DEF p
  <1>5. live' = live \cup {p}
    BY DEF p
  <1>6. SlotShape' /\ DrawnSlotIsFree' /\ DrawnOnce'
    BY <1>4 DEF RingInv, SlotShape, DrawnSlotIsFree, Reserved, DrawnOnce, Drawing, freeing
  <1>7. live' \cup OwnList' = live \cup OwnList /\ live' \cap OwnList' = {}
    BY <1>3, <1>5 DEF RingInv, Apart
  <1>8. Apart'
    BY <1>3, <1>4, <1>7 DEF RingInv, Apart, freeing
  <1>9. ASSUME NEW c \in 0 .. cnRevolver, Window(c) PROVE Window(c)'
    <2>1. Unclaimed' = Unclaimed
      BY <1>4, <1>7 DEF Unclaimed, freeing
    <2> QED BY <1>4, <1>9, <2>1 DEF Window, Offset, AllocSlot, Slot, Drawing, ring, freeing
  <1> QED BY <1>6, <1>8, <1>9 DEF RingInv

(* Alloc from the ring empties the first slot of the window, which gets    *)
(* shorter at that end while one more parcel is without a slot.            *)
LEMMA AllocMTRing ==
  ASSUME TypeOK, Phase, RingInv, AllocCached(0), TakeMT(0),
         live' = live \cup {Head(maListMT[0][AllocSlot(0)])}
  PROVE  RingInv'
  <1> DEFINE a == AllocSlot(0)
  <1>1. a \in SlotIndex
    BY AllocSlotType
  <1>2. mbCache
    BY DEF AllocCached, Phase
  <1>3. PICK p \in Parcel : maListMT[0][a] = <<p>>
    BY <1>1, <1>2 DEF RingInv, SlotShape, TakeMT
  <1>4. live' = live \cup {p}
    BY <1>3
  <1>5. \A k \in SlotIndex : maListMT'[0][k] = IF k = a THEN <<>> ELSE maListMT[0][k]
    BY TakeMTList
  <1>6. UNCHANGED <<mListST, mRevolverFree, freeing, pc, mbCache>>
    BY DEF TakeMT, AllocCached
  <1>7. AllocSlot(0)' = IF a = cnRevolver - 1 THEN 0 ELSE a + 1
    <2>1. mRevolverAlloc'[0] = a + 1
      BY Constants DEF TakeMT, Advanced, TypeOK
    <2>2. CASE a = cnRevolver - 1
      <3>1. mRevolverAlloc'[0] = cnRevolver
        BY <2>1, <2>2, Constants
      <3> QED BY <3>1, <2>2, SlotEnd DEF AllocSlot
    <2>3. CASE a # cnRevolver - 1
      <3>1. a + 1 \in SlotIndex
        BY <1>1, <2>3, Constants
      <3> QED BY <2>1, <2>3, <3>1, SlotId DEF AllocSlot
    <2> QED BY <2>2, <2>3
  <1> HIDE DEF a
  <1>8. SlotShape'
    BY <1>5, <1>6 DEF RingInv, SlotShape
  <1>9. Apart'
    <2>1. \A t \in Thread : pParcel[t] # p
      BY <1>1, <1>3 DEF RingInv, Apart
    <2>2. p \notin live \cup OwnList
      BY <1>1, <1>3 DEF RingInv, Apart
    <2>3. \A i \in SlotIndex, q \in Parcel : maListMT'[0][i] = <<q>> =>
             maListMT[0][i] = <<q>> /\ q # p
      BY <1>1, <1>3, <1>5 DEF RingInv, Apart
    <2>4. OwnList' = OwnList
      BY <1>6 DEF OwnList
    <2> QED BY <1>4, <1>6, <2>1, <2>2, <2>3, <2>4 DEF RingInv, Apart, freeing
  <1>10. \A t \in Drawing : oRevolver[t] # a /\ oRevolver[t] \in SlotIndex
    <2> SUFFICES ASSUME NEW t \in Drawing PROVE oRevolver[t] # a /\ oRevolver[t] \in SlotIndex
      OBVIOUS
    <2>1. maListMT[0][oRevolver[t]] \in {<<>>, <<Invalid>>}
      BY DEF RingInv, DrawnSlotIsFree, Reserved, Drawing
    <2>2. <<p>> \notin {<<>>, <<Invalid>>}
      BY Constants
    <2> QED BY <1>3, <2>1, <2>2 DEF Drawing, TypeOK
  <1>11. DrawnSlotIsFree'
    BY <1>5, <1>6, <1>10 DEF RingInv, DrawnSlotIsFree, Reserved, Drawing, freeing
  <1>12. DrawnOnce'
    BY <1>6 DEF RingInv, DrawnOnce, Drawing, freeing
  <1>13. ASSUME NEW c \in 0 .. cnRevolver, Window(c)
         PROVE  c - 1 \in 0 .. cnRevolver /\ Window(c - 1)'
    <2>1. Offset(a) = 0
      BY <1>1, Constants DEF Offset, a
    <2>2. c >= 1
      BY <1>1, <1>3, <1>13, <2>1 DEF Window
    <2>3. \A i \in SlotIndex : i # a => Offset(i)' = Offset(i) - 1
      BY <1>1, <1>7, Constants DEF Offset, a
    <2>4. Unclaimed' = Unclaimed \cup {p}
      BY <1>4, <1>6 DEF Unclaimed, OwnList, freeing
    <2>5. Cardinality(Unclaimed') <= Cardinality(Unclaimed) + 1 /\ Cardinality(Unclaimed') \in Nat
           /\ Cardinality(Unclaimed) \in Nat
      <3>1. IsFiniteSet(Unclaimed)
        BY UnclaimedFinite
      <3>2. /\ IsFiniteSet(Unclaimed \cup {p})
            /\ Cardinality(Unclaimed \cup {p}) =
                 IF p \in Unclaimed THEN Cardinality(Unclaimed) ELSE Cardinality(Unclaimed) + 1
        BY <3>1, FS_AddElement
      <3>3. Cardinality(Unclaimed) \in Nat /\ Cardinality(Unclaimed \cup {p}) \in Nat
        BY <3>1, <3>2, FS_CardinalityType
      <3> QED BY <2>4, <3>2, <3>3
    <2>6. c - 1 + Cardinality(Unclaimed)' <= cnRevolver
      BY <1>13, <2>2, <2>5, Constants DEF Window
    <2>7. Slot(mRevolverFree[0])' =
            IF AllocSlot(0)' + (c - 1) < cnRevolver THEN AllocSlot(0)' + (c - 1)
                                                  ELSE AllocSlot(0)' + (c - 1) - cnRevolver
      BY <1>1, <1>6, <1>7, <1>13, <2>2, Constants DEF Window, Slot, a
    <2>8. \A i \in SlotIndex, q \in Parcel : maListMT'[0][i] = <<q>> => Offset(i)' < c - 1
      <3> SUFFICES ASSUME NEW i \in SlotIndex, NEW q \in Parcel, maListMT'[0][i] = <<q>>
                   PROVE  Offset(i)' < c - 1
        OBVIOUS
      <3>1. i # a /\ maListMT[0][i] = <<q>>
        BY <1>5
      <3> QED BY <1>13, <2>3, <3>1, OffsetRange DEF Window
    <2>9. \A t \in Drawing' : Offset(oRevolver[t])' < c - 1
      <3> SUFFICES ASSUME NEW t \in Drawing PROVE Offset(oRevolver[t])' < c - 1
        BY <1>6 DEF Drawing
      <3> QED BY <1>6, <1>10, <1>13, <2>3, OffsetRange DEF Window, freeing, Offset
    <2> QED BY <2>2, <2>6, <2>7, <2>8, <2>9, Constants DEF Window
  <1> QED BY <1>8, <1>9, <1>11, <1>12, <1>13 DEF RingInv

(* The three alternatives of Free only make Unclaimed smaller.             *)
LEMMA FreeRing ==
  ASSUME TypeOK, Phase, RingInv, NEW t \in Thread, NEW p \in live, Free(t, p, 0)
  PROVE  RingInv'
  <1>1. p \in Parcel /\ p # NULL /\ p \notin OwnList /\ pc[t] = "idle"
    BY Constants DEF TypeOK, RingInv, Apart, Free
  <1>2. /\ live' = live \ {p}
        /\ UNCHANGED <<maListMT, ring, oRevolver, pListMT, mbCache>>
    BY DEF Free, ListST, lists
  <1>3. \/ /\ OwnList' = OwnList \cup {p}
           /\ \A j, k \in 1 .. Len(mListST'[0]) : mListST'[0][j] = mListST'[0][k] => j = k
           /\ UNCHANGED <<pc, pParcel>>
        \/ /\ UNCHANGED mListST
           /\ \E l \in {"fetch", "dec"} : pc' = [pc EXCEPT ![t] = l]
           /\ pParcel' = [pParcel EXCEPT ![t] = p]
    <2>1. CASE ListST(0, p) /\ UNCHANGED <<pc, pParcel>>
      <3>1. mListST[0] \in Seq(Parcel)
        BY Constants DEF TypeOK
      <3>2. \A j, k \in 1 .. Len(mListST[0]) : mListST[0][j] = mListST[0][k] => j = k
        BY DEF RingInv, Apart
      <3>3. mListST'[0] = <<p>> \o mListST[0]
        BY <1>1, <2>1, ListSTList
      <3> DEFINE s == mListST[0]
      <3>4. s \in Seq(Parcel) /\ p \notin Range(s) /\ \A j, k \in 1 .. Len(s) : s[j] = s[k] => j = k
        BY <1>1, <3>1, <3>2 DEF OwnList
      <3> DEFINE c == <<p>> \o s
      <3>5. mListST'[0] = c
        BY <3>3
      <3> HIDE DEF s
      <3>6. Range(c) = Range(s) \cup {p} /\ \A j, k \in 1 .. Len(c) : c[j] = c[k] => j = k
        BY <1>1, <3>4, ConsRange
      <3> HIDE DEF c
      <3>7. OwnList' = Range(c) /\ OwnList = Range(s)
        BY <3>5 DEF OwnList, s
      <3> QED BY <2>1, <3>5, <3>6, <3>7
    <2> QED BY <2>1 DEF Free, lists, Goto
  <1>4. SlotShape'
    BY <1>2 DEF RingInv, SlotShape
  <1>5. DrawnSlotIsFree' /\ DrawnOnce'
    BY <1>1, <1>2, <1>3 DEF RingInv, DrawnSlotIsFree, Reserved, DrawnOnce, Drawing, TypeOK
  <1>6. Apart'
    <2>1. CASE OwnList' = OwnList \cup {p} /\ UNCHANGED <<pc, pParcel>>
      BY <1>1, <1>2, <1>3, <2>1 DEF RingInv, Apart
    <2>2. CASE UNCHANGED mListST /\ pParcel' = [pParcel EXCEPT ![t] = p]
      <3>1. \A u \in Thread : pParcel'[u] = IF u = t THEN p ELSE pParcel[u]
        BY <2>2 DEF TypeOK
      <3>2. OwnList' = OwnList
        BY <2>2 DEF OwnList
      <3>3. \A u \in Thread : pParcel[u] # p
        BY DEF RingInv, Apart
      <3> QED BY <1>1, <1>2, <2>2, <3>1, <3>2, <3>3 DEF RingInv, Apart
    <2> QED BY <1>3, <2>1, <2>2
  <1>7. Unclaimed' \subseteq Unclaimed
    <2> DEFINE Fetching == {q \in Parcel : \E u \in Thread : pc[u] = "fetch" /\ pParcel[u] = q}
    <2>1. CASE OwnList' = OwnList \cup {p} /\ UNCHANGED <<pc, pParcel>>
      <3>1. Fetching' = Fetching
        BY <2>1
      <3> QED BY <1>2, <2>1, <3>1 DEF Unclaimed
    <2>2. ASSUME NEW l \in {"fetch", "dec"}, UNCHANGED mListST,
                 pc' = [pc EXCEPT ![t] = l], pParcel' = [pParcel EXCEPT ![t] = p]
          PROVE  Unclaimed' \subseteq Unclaimed
      <3>1. OwnList' = OwnList
        BY <2>2 DEF OwnList
      <3>2. Fetching' \subseteq Fetching \cup {p}
        BY <2>2 DEF TypeOK
      <3> QED BY <1>2, <3>1, <3>2 DEF Unclaimed
    <2> QED BY <1>3, <2>1, <2>2
  <1>8. Cardinality(Unclaimed') <= Cardinality(Unclaimed)
        /\ Cardinality(Unclaimed') \in Nat /\ Cardinality(Unclaimed) \in Nat
    BY <1>7, UnclaimedFinite, FS_Subset, FS_CardinalityType
  <1>9. Drawing' = Drawing
    BY <1>1, <1>3 DEF Drawing, TypeOK
  <1>10. ASSUME NEW c \in 0 .. cnRevolver, Window(c) PROVE Window(c)'
    <2>1. c + Cardinality(Unclaimed') <= cnRevolver
      BY <1>8, <1>10, Constants DEF Window
    <2> QED BY <1>2, <1>9, <1>10, <2>1 DEF Window, Offset, AllocSlot, Slot, ring
  <1> QED BY <1>4, <1>5, <1>6, <1>10 DEF RingInv

(* A free draws the slot just behind the window. There is one: with the    *)
(* parcel that wants it the claimed slots and the unclaimed parcels are no *)
(* more than cnRevolver. So the slot is neither drawn nor occupied.        *)
LEMMA FetchRing ==
  ASSUME TypeOK, Phase, RingInv, NEW t \in Thread, Fetch(t, 0), UNCHANGED state
  PROVE  RingInv'
  <1> DEFINE p == pParcel[t]
             f == Slot(mRevolverFree[0])
  <1>1. /\ pc[t] = "fetch" /\ pc' = [pc EXCEPT ![t] = "load"]
        /\ UNCHANGED <<lists, mRevolverAlloc, pParcel, pListMT, live, mbCache>>
        /\ oRevolver' = [oRevolver EXCEPT ![t] = f]
    BY DEF Fetch, state, Goto
  <1>2. p \in Parcel
    BY <1>1 DEF Phase, InFlight, TypeOK
  <1>3. f \in SlotIndex
    BY Constants, SlotRange DEF TypeOK
  <1>4. Slot(mRevolverFree[0])' = IF f = cnRevolver - 1 THEN 0 ELSE f + 1
    <2>1. mRevolverFree'[0] = Counted(mRevolverFree[0]) /\ mRevolverFree[0] \in 0 .. cnCounter - 1
      BY Constants DEF Fetch, TypeOK
    <2> QED BY <2>1, CountedSlot
  <1> HIDE DEF p, f
  <1>5. SlotShape' /\ Apart'
    BY <1>1 DEF RingInv, SlotShape, Apart, OwnList, lists
  <1>6. PICK c \in 0 .. cnRevolver : Window(c)
    BY DEF RingInv
  <1>7. /\ p \in Unclaimed
        /\ Unclaimed' = Unclaimed \ {p}
    <2>1. p \in Unclaimed
      BY <1>1, <1>2 DEF Unclaimed, p
    <2>2. p \notin live \cup OwnList
      BY DEF RingInv, Apart, p
    <2>3. \A u \in Thread : u # t => pParcel[u] # p
      BY <1>2, Constants DEF RingInv, Apart, p
    <2>4. \A u \in Thread : pc'[u] = "fetch" <=> pc[u] = "fetch" /\ u # t
      BY <1>1 DEF TypeOK
    <2> QED BY <1>1, <2>1, <2>2, <2>3, <2>4 DEF Unclaimed, OwnList, lists, p
  <1>8. /\ Cardinality(Unclaimed') = Cardinality(Unclaimed) - 1
        /\ Cardinality(Unclaimed') \in Nat /\ Cardinality(Unclaimed) \in Nat
    <2>1. IsFiniteSet(Unclaimed)
      BY UnclaimedFinite
    <2> QED BY <1>7, <2>1, FS_RemoveElement, FS_CardinalityType
  <1>9. c + 1 \in 0 .. cnRevolver /\ (c + 1) + Cardinality(Unclaimed') <= cnRevolver
    BY <1>6, <1>8, Constants DEF Window
  <1>10. Offset(f) = c
    BY <1>3, <1>6, <1>9, AllocSlotType, Constants DEF Window, Offset, f
  <1>11. /\ \A i \in SlotIndex, q \in Parcel : maListMT[0][i] = <<q>> => i # f
         /\ \A u \in Drawing : oRevolver[u] # f
    BY <1>6, <1>10, Constants DEF Window
  <1>12. /\ Drawing' = Drawing \cup {t} /\ t \notin Drawing
         /\ \A u \in Thread : oRevolver'[u] = IF u = t THEN f ELSE oRevolver[u]
    BY <1>1 DEF Drawing, TypeOK
  <1>13. DrawnOnce'
    BY <1>11, <1>12 DEF RingInv, DrawnOnce, Drawing
  <1>14. DrawnSlotIsFree'
    <2>1. maListMT[0][f] \in {<<>>, <<Invalid>>}
      BY <1>3, <1>11 DEF RingInv, SlotShape
    <2> QED BY <1>1, <1>12, <2>1 DEF RingInv, DrawnSlotIsFree, Reserved, lists, TypeOK
  <1>15. Window(c + 1)'
    <2>1. Slot(mRevolverFree[0])' =
            IF AllocSlot(0) + (c + 1) < cnRevolver THEN AllocSlot(0) + (c + 1)
                                                  ELSE AllocSlot(0) + (c + 1) - cnRevolver
      BY <1>4, <1>6, <1>9, AllocSlotType, Constants DEF Window, f
    <2>2. AllocSlot(0)' = AllocSlot(0) /\ \A i \in SlotIndex : Offset(i)' = Offset(i)
      BY <1>1 DEF AllocSlot, Slot, Offset
    <2>3. \A i \in SlotIndex, q \in Parcel : maListMT'[0][i] = <<q>> => Offset(i)' < c + 1
      <3> SUFFICES ASSUME NEW i \in SlotIndex, NEW q \in Parcel, maListMT'[0][i] = <<q>>
                   PROVE  Offset(i)' < c + 1
        OBVIOUS
      <3>1. Offset(i) < c
        BY <1>1, <1>6 DEF Window, lists
      <3> QED BY <2>2, <3>1, OffsetRange
    <2>4. \A u \in Drawing' : Offset(oRevolver[u])' < c + 1
      <3> SUFFICES ASSUME NEW u \in Drawing' PROVE Offset(oRevolver[u])' < c + 1
        OBVIOUS
      <3>1. CASE u = t
        <4>1. oRevolver'[u] = f
          BY <1>12, <3>1
        <4> QED BY <1>1, <1>10, <4>1 DEF Offset, AllocSlot, Slot
      <3>2. CASE u # t
        <4>1. u \in Drawing /\ oRevolver'[u] = oRevolver[u] /\ oRevolver[u] \in SlotIndex
          BY <1>12, <3>2 DEF Drawing, TypeOK
        <4>2. Offset(oRevolver[u]) < c /\ Offset(oRevolver[u]) \in Int
          BY <1>6, <4>1, OffsetRange DEF Window
        <4> QED BY <1>1, <4>1, <4>2 DEF Offset, AllocSlot, Slot
      <3> QED BY <3>1, <3>2
    <2> QED BY <1>9, <2>1, <2>2, <2>3, <2>4 DEF Window
  <1> QED BY <1>5, <1>9, <1>13, <1>14, <1>15 DEF RingInv

(* A step in which t leaves its slot, or only looks at it, and which adds   *)
(* no parcel to the ring except t's own.                                    *)
LEMMA LoadRing ==
  ASSUME TypeOK, Phase, RingInv, NEW t \in Thread, Load(t, 0), UNCHANGED state
  PROVE  RingInv'
  <1> DEFINE list == maListMT[0][oRevolver[t]]
  <1>1. list \in {<<>>, <<Invalid>>}
    BY DEF RingInv, DrawnSlotIsFree, Reserved, Load
  <1>2. /\ pc[t] = "load" /\ pc' = [pc EXCEPT ![t] = AfterRead(Top(list))]
        /\ UNCHANGED <<lists, ring, pParcel, oRevolver, live, mbCache>>
        /\ pListMT' = [pListMT EXCEPT ![t] = Top(list)]
    BY DEF Load, state, Goto
  <1>3. \/ AfterRead(Top(list)) = "dec"
        \/ AfterRead(Top(list)) = "cas" /\ Top(list) = NULL
    BY <1>1, Constants DEF AfterRead, Top
  <1>4. Drawing' \subseteq Drawing
    BY <1>2, <1>3 DEF Drawing, TypeOK
  <1> HIDE DEF list
  <1>5. SlotShape' /\ Apart'
    BY <1>2 DEF RingInv, SlotShape, Apart, OwnList, lists
  <1>6. DrawnOnce'
    BY <1>2, <1>4 DEF RingInv, DrawnOnce
  <1>7. DrawnSlotIsFree'
    BY <1>2, <1>3 DEF RingInv, DrawnSlotIsFree, Reserved, lists, TypeOK
  <1>8. ASSUME NEW c \in 0 .. cnRevolver, Window(c) PROVE Window(c)'
    <2>1. Unclaimed' = Unclaimed
      BY <1>2, <1>3 DEF Unclaimed, OwnList, lists, TypeOK
    <2> QED BY <1>2, <1>4, <1>8, <2>1 DEF Window, Offset, AllocSlot, Slot, lists, ring
  <1> QED BY <1>5, <1>6, <1>7, <1>8 DEF RingInv

(* The compare-and-swap: t puts its parcel on its slot, or finds it closed *)
(* and leaves it.                                                          *)
LEMMA CasRing ==
  ASSUME TypeOK, Phase, RingInv, NEW t \in Thread, Cas(t, 0), UNCHANGED state
  PROVE  RingInv'
  <1> DEFINE i == oRevolver[t]
             p == pParcel[t]
             list == maListMT[0][i]
  <1>1. /\ pc[t] = "cas" /\ pListMT[t] = NULL
        /\ i \in SlotIndex /\ p \in Parcel
        /\ list \in {<<>>, <<Invalid>>}
    BY Constants DEF RingInv, DrawnSlotIsFree, Reserved, Cas, Phase, InFlight, TypeOK
  <1>2. Top(list) = NULL <=> list = <<>>
    BY <1>1, Constants DEF Top
  <1>3. UNCHANGED <<mListST, ring, live, mbCache>>
    BY DEF Cas, state
  <1>4. CASE list = <<>>
    <2>1. /\ maListMT' = [maListMT EXCEPT ![0][i] = <<p>> \o list]
          /\ pc' = [pc EXCEPT ![t] = "idle"]
          /\ pParcel' = [pParcel EXCEPT ![t] = NULL]
          /\ oRevolver' = [oRevolver EXCEPT ![t] = 0]
          /\ pListMT' = [pListMT EXCEPT ![t] = NULL]
      BY <1>1, <1>2, <1>4 DEF Cas, Goto
    <2>2. <<p>> \o list = <<p>> /\ <<p>> \in Seq(Parcel \cup {Invalid})
      BY <1>1, <1>4
    <2>3. \A k \in SlotIndex : maListMT'[0][k] = IF k = i THEN <<p>> ELSE maListMT[0][k]
      BY <1>1, <2>1, <2>2, SetSlot
    <2> HIDE DEF list, p, i
    <2>4. SlotShape'
      BY <1>1, <1>3, <2>3, Constants DEF RingInv, SlotShape
    <2>5. \A u \in Thread : pParcel'[u] = IF u = t THEN NULL ELSE pParcel[u]
      BY <2>1 DEF TypeOK
    <2>6. Apart'
      <3>1. p \notin live \cup OwnList
        BY <1>1 DEF RingInv, Apart, p
      <3>2. \A u \in Thread : pParcel'[u] # p
        BY <1>1, <2>5, Constants DEF RingInv, Apart, p
      <3>3. \A k \in SlotIndex : maListMT[0][k] # <<p>>
        BY <1>1 DEF RingInv, Apart, p
      <3>4. OwnList' = OwnList
        BY <1>3 DEF OwnList
      <3>5. \A k \in SlotIndex, q \in Parcel : maListMT'[0][k] = <<q>> =>
              /\ q \notin live \cup OwnList
              /\ \A u \in Thread : pParcel'[u] # q
              /\ \A m \in SlotIndex : maListMT'[0][m] = <<q>> => k = m
        <4> SUFFICES ASSUME NEW k \in SlotIndex, NEW q \in Parcel, maListMT'[0][k] = <<q>>
                     PROVE  /\ q \notin live \cup OwnList
                            /\ \A u \in Thread : pParcel'[u] # q
                            /\ \A m \in SlotIndex : maListMT'[0][m] = <<q>> => k = m
          OBVIOUS
        <4>1. CASE k = i
          <5>1. q = p
            BY <1>1, <2>3, <4>1
          <5> QED BY <1>1, <2>3, <3>1, <3>2, <3>3, <4>1, <5>1
        <4>2. CASE k # i
          <5>1. maListMT[0][k] = <<q>> /\ q # p
            BY <2>3, <3>3, <4>2
          <5>2. q # NULL
            BY Constants
          <5> QED BY <1>1, <2>3, <2>5, <5>1, <5>2 DEF RingInv, Apart
        <4> QED BY <4>1, <4>2
      <3>6. \A j, k \in 1 .. Len(mListST'[0]) : mListST'[0][j] = mListST'[0][k] => j = k
        BY <1>3 DEF RingInv, Apart
      <3>7. NULL \notin live \cup OwnList
        BY Constants DEF TypeOK, OwnList, Range
      <3> QED BY <1>3, <2>5, <3>4, <3>5, <3>6, <3>7 DEF RingInv, Apart
    <2>7. /\ Drawing' = Drawing \ {t} /\ t \in Drawing
          /\ \A u \in Drawing' : oRevolver'[u] = oRevolver[u] /\ oRevolver[u] # i
      BY <1>1, <2>1 DEF RingInv, DrawnOnce, Drawing, TypeOK, i
    <2>8. DrawnOnce'
      BY <2>7 DEF RingInv, DrawnOnce
    <2>9. DrawnSlotIsFree'
      <3> SUFFICES ASSUME NEW u \in Thread, pc'[u] \in {"load", "cas"}
                   PROVE  Reserved(u, 0)'
        BY DEF DrawnSlotIsFree, Reserved
      <3>1. u \in Drawing' /\ u # t
        BY <2>7 DEF Drawing
      <3>2. oRevolver'[u] = oRevolver[u] /\ oRevolver[u] # i /\ oRevolver[u] \in SlotIndex
        BY <2>7, <3>1 DEF TypeOK
      <3>3. pc'[u] = pc[u] /\ pListMT'[u] = pListMT[u]
        BY <2>1, <3>1 DEF TypeOK
      <3> QED BY <2>3, <3>2, <3>3 DEF RingInv, DrawnSlotIsFree, Reserved
    <2>10. ASSUME NEW c \in 0 .. cnRevolver, Window(c) PROVE Window(c)'
      <3>1. Unclaimed' = Unclaimed
        BY <1>1, <1>3, <2>1, <2>5 DEF Unclaimed, OwnList, TypeOK
      <3>2. AllocSlot(0)' = AllocSlot(0) /\ \A k : Offset(k)' = Offset(k)
        BY <1>3 DEF AllocSlot, Slot, Offset, ring
      <3>3. \A k \in SlotIndex, q \in Parcel : maListMT'[0][k] = <<q>> => Offset(k)' < c
        <4>1. Offset(i) < c
          BY <2>7, <2>10 DEF Window, i
        <4> QED BY <2>3, <2>10, <3>2, <4>1 DEF Window
      <3>4. \A u \in Drawing' : Offset(oRevolver[u])' < c
        <4> SUFFICES ASSUME NEW u \in Drawing' PROVE Offset(oRevolver[u])' < c
          OBVIOUS
        <4>1. oRevolver'[u] = oRevolver[u] /\ u \in Drawing
          BY <2>7
        <4>2. Offset(oRevolver[u]) < c
          BY <2>10, <4>1 DEF Window
        <4> QED BY <1>3, <4>1, <4>2 DEF AllocSlot, Slot, Offset, ring
      <3> QED BY <1>3, <2>10, <3>1, <3>2, <3>3, <3>4 DEF Window, ring, Slot
    <2> QED BY <2>4, <2>6, <2>8, <2>9, <2>10 DEF RingInv
  <1>5. CASE list # <<>>
    <2>1. Top(list) = Invalid
      BY <1>1, <1>5, Constants DEF Top
    <2>2. /\ pc' = [pc EXCEPT ![t] = "dec"]
          /\ UNCHANGED <<maListMT, pParcel, oRevolver>>
          /\ pListMT' = [pListMT EXCEPT ![t] = Invalid]
      BY <1>1, <2>1, Constants DEF Cas, Goto, AfterRead
    <2>3. Drawing' \subseteq Drawing
      BY <2>2 DEF Drawing, TypeOK
    <2> HIDE DEF list, p, i
    <2>4. SlotShape' /\ Apart'
      BY <1>3, <2>2 DEF RingInv, SlotShape, Apart, OwnList
    <2>5. DrawnOnce' /\ DrawnSlotIsFree'
      BY <1>3, <2>2, <2>3 DEF RingInv, DrawnOnce, DrawnSlotIsFree, Reserved, TypeOK
    <2>6. ASSUME NEW c \in 0 .. cnRevolver, Window(c) PROVE Window(c)'
      <3>1. Unclaimed' = Unclaimed
        BY <1>1, <1>3, <2>2 DEF Unclaimed, OwnList, TypeOK
      <3> QED BY <1>3, <2>2, <2>3, <2>6, <3>1 DEF Window, Offset, AllocSlot, Slot, ring
    <2> QED BY <2>4, <2>5, <2>6 DEF RingInv
  <1> QED BY <1>4, <1>5

(* A parcel that is counted off leaves its free and goes nowhere.          *)
LEMMA FreeDecRing ==
  ASSUME TypeOK, Phase, RingInv, NEW t \in Thread, FreeDec(t)
  PROVE  RingInv'
  <1>1. /\ pc[t] = "dec"
        /\ \E l \in {"delete", "idle"} : pc' = [pc EXCEPT ![t] = l]
        /\ UNCHANGED <<lists, ring, live, mbCache>>
        /\ pParcel' = [pParcel EXCEPT ![t] = NULL]
        /\ oRevolver' = [oRevolver EXCEPT ![t] = 0]
        /\ pListMT' = [pListMT EXCEPT ![t] = NULL]
    BY DEF FreeDec, Goto, AfterDec
  <1>2. \A u \in Thread : pParcel'[u] = IF u = t THEN NULL ELSE pParcel[u]
    BY <1>1 DEF TypeOK
  <1>3. Drawing' = Drawing /\ \A u \in Drawing : oRevolver'[u] = oRevolver[u]
    BY <1>1 DEF Drawing, TypeOK
  <1>4. SlotShape'
    BY <1>1 DEF RingInv, SlotShape, lists
  <1>5. Apart'
    <2>1. NULL \notin live \cup OwnList
      BY Constants DEF TypeOK, OwnList, Range
    <2> QED BY <1>1, <1>2, <2>1, Constants DEF RingInv, Apart, OwnList, lists
  <1>6. DrawnOnce'
    BY <1>3 DEF RingInv, DrawnOnce
  <1>7. DrawnSlotIsFree'
    BY <1>1 DEF RingInv, DrawnSlotIsFree, Reserved, lists, TypeOK
  <1>8. ASSUME NEW c \in 0 .. cnRevolver, Window(c) PROVE Window(c)'
    <2>1. Unclaimed' = Unclaimed
      BY <1>1, <1>2 DEF Unclaimed, OwnList, lists, TypeOK
    <2>2. \A u \in Drawing' : Offset(oRevolver[u])' < c
      BY <1>1, <1>3, <1>8 DEF Window, AllocSlot, Slot, Offset, ring
    <2> QED BY <1>1, <1>8, <2>1, <2>2 DEF Window, Offset, AllocSlot, Slot, lists, ring
  <1> QED BY <1>4, <1>5, <1>6, <1>7, <1>8 DEF RingInv

(* Closing a slot takes its parcel off the ring.                           *)
LEMMA SweepRing ==
  ASSUME TypeOK, Phase, RingInv, ClearanceSweep
  PROVE  RingInv'
  <1> DEFINE i == Slot(mRevolverAlloc[0] + nSwept)
  <1>1. i \in SlotIndex
    <2>1. mRevolverAlloc[0] + nSwept \in Nat
      BY Constants DEF TypeOK
    <2> QED BY <2>1, SlotRange
  <1>2. maListMT' = [maListMT EXCEPT ![0][i] = <<Invalid>>]
    BY PoolAssumption, Constants DEF ClearanceSweep, Sweep, TypeOK
  <1>3. \A k \in SlotIndex : maListMT'[0][k] = IF k = i THEN <<Invalid>> ELSE maListMT[0][k]
    <2>1. <<Invalid>> \in Seq(Parcel \cup {Invalid})
      OBVIOUS
    <2> QED BY <1>1, <1>2, <2>1, SetSlot
  <1>4. /\ UNCHANGED <<mListST, ring, freeing, live, mbCache>>
        /\ pc[Owner] = "sweep" /\ ~mbCache
        /\ \E l \in {"sub", "walk", "sweep"} : pc' = [pc EXCEPT ![Owner] = l]
    BY DEF ClearanceSweep, Sweep, Goto, Phase
  <1> HIDE DEF i
  <1>5. Drawing' = Drawing
    BY <1>4 DEF Drawing, TypeOK
  <1>6. \A k \in SlotIndex, q \in Parcel : maListMT'[0][k] = <<q>> => maListMT[0][k] = <<q>>
    BY <1>3, Constants
  <1>7. SlotShape'
    BY <1>3, <1>4 DEF RingInv, SlotShape
  <1>8. Apart'
    BY <1>4, <1>6 DEF RingInv, Apart, OwnList, freeing
  <1>9. DrawnOnce'
    BY <1>4, <1>5 DEF RingInv, DrawnOnce, freeing
  <1>10. DrawnSlotIsFree'
    BY <1>3, <1>4 DEF RingInv, DrawnSlotIsFree, Reserved, freeing, TypeOK
  <1>11. ASSUME NEW c \in 0 .. cnRevolver, Window(c) PROVE Window(c)'
    <2>1. Unclaimed' = Unclaimed
      BY <1>4 DEF Unclaimed, OwnList, freeing, TypeOK
    <2> QED BY <1>4, <1>5, <1>6, <1>11, <2>1 DEF Window, Offset, AllocSlot, Slot, ring, freeing
  <1> QED BY <1>7, <1>8, <1>9, <1>10, <1>11 DEF RingInv

-----------------------------------------------------------------------------
(* Initially all parcels are on the owner's list, the window is empty.     *)
LEMMA PoolInit == Init => TypeOK /\ Phase /\ RingInv
  <1> SUFFICES ASSUME Init PROVE TypeOK /\ Phase /\ RingInv
    OBVIOUS
  <1> USE Constants DEF Init, CacheInit, LocalInit, cnPoolParcel
  <1>1. /\ mListST[0] = [i \in 1 .. cnRevolver |-> cnRevolver + 1 - i]
        /\ mListST[0] \in Seq(Parcel) /\ Len(mListST[0]) = cnRevolver
        /\ mListST \in [Realm -> Seq(Parcel)]
    BY PoolAssumption DEF Constructed
  <1>2. \A i \in SlotIndex : maListMT[0][i] = <<>>
    OBVIOUS
  <1>3. TypeOK
    BY <1>1, CacheAssumption DEF TypeOK, Label
  <1>4. Phase
    BY DEF Phase, InFlight
  <1>5. SlotShape /\ DrawnSlotIsFree /\ DrawnOnce
    BY <1>2 DEF SlotShape, DrawnSlotIsFree, Reserved, DrawnOnce, Drawing
  <1>6. Apart
    <2>1. NULL \notin OwnList
      BY <1>1 DEF OwnList, Range
    <2> QED BY <1>1, <1>2, <2>1 DEF Apart
  <1>7. Window(0)
    <2>1. OwnList = Parcel
      <3>1. OwnList \subseteq Parcel
        BY <1>1 DEF OwnList, Range
      <3>2. ASSUME NEW p \in Parcel PROVE p \in OwnList
        <4>1. cnRevolver + 1 - p \in 1 .. cnRevolver
              /\ mListST[0][cnRevolver + 1 - p] = p
          BY <1>1, <3>2, PoolAssumption
        <4> QED BY <1>1, <4>1 DEF OwnList, Range
      <3> QED BY <3>1, <3>2
    <2>2. Unclaimed = Parcel
      BY <2>1 DEF Unclaimed
    <2>3. Cardinality(Parcel) = cnRevolver
      BY PoolAssumption, FS_Interval
    <2>4. Drawing = {} /\ Slot(mRevolverFree[0]) = 0 /\ AllocSlot(0) = 0
      BY SlotId DEF Drawing, AllocSlot
    <2> QED BY <1>2, <2>2, <2>3, <2>4 DEF Window
  <1> QED BY <1>3, <1>4, <1>5, <1>6, <1>7 DEF RingInv

(* Types, phases and the ring: every step.                                 *)
LEMMA PoolStepRing ==
  ASSUME TypeOK, Phase, RingInv, [Next]_vars
  PROVE  TypeOK' /\ Phase' /\ RingInv'
  <1>1. CASE AllocCached(0)
    <2>1. TypeOK' /\ Phase'
      BY <1>1, AllocCachedType DEF RingInv
    <2>2. RingInv'
      BY <1>1, AllocSTRing, AllocMTRing DEF AllocCached
    <2> QED BY <2>1, <2>2
  <1>2. ASSUME NEW t \in Thread, PoolFree(t) PROVE TypeOK' /\ Phase' /\ RingInv'
    BY <1>2, FreeType, FreeRing DEF PoolFree
  <1>3. ASSUME NEW t \in Thread, ListMT(t, 0) PROVE TypeOK' /\ Phase' /\ RingInv'
    <2>1. TypeOK' /\ Phase'
      BY <1>3, FetchType, LoadType, CasType DEF ListMT, RingInv
    <2>2. RingInv'
      BY <1>3, FetchRing, LoadRing, CasRing DEF ListMT
    <2> QED BY <2>1, <2>2
  <1>4. ASSUME NEW t \in Thread, FreeDec(t) PROVE TypeOK' /\ Phase' /\ RingInv'
    BY <1>4, FreeDecType, FreeDecRing
  <1>5. CASE ClearanceSweep
    BY <1>5, SweepType, SweepRing
  <1>6. CASE \/ AllocExhausted(0) \/ ThreadExit \/ ClearanceBegin \/ ClearanceWalk
             \/ ClearanceEnd \/ Renew \/ \E t \in Thread : Delete(t)
    <2>1. TypeOK' /\ Phase'
      BY <1>6, OtherTypes
    <2>2. UNCHANGED <<lists, ring, freeing, live>>
      BY <1>6 DEF AllocExhausted, ThreadExit, ClearanceBegin, ClearanceWalk, Walk,
                  ClearanceEnd, Renew, Delete, state
    <2>3. mbCache' => mbCache
      BY <1>6 DEF AllocExhausted, ThreadExit, ClearanceBegin, ClearanceWalk, Walk,
                  ClearanceEnd, Renew, Delete, state
    <2>4. \E t \in Thread, l \in Label \ {"fetch", "load", "cas"} :
             pc[t] \notin {"fetch", "load", "cas"} /\ pc' = [pc EXCEPT ![t] = l]
      BY <1>6, Constants DEF AllocExhausted, ThreadExit, ClearanceBegin, ClearanceWalk, Walk,
                  ClearanceEnd, AfterClearance, Renew, Delete, Goto, Label
    <2>5. \A t \in Thread : pc'[t] # pc[t] =>
            /\ pc[t] \notin {"fetch", "load", "cas"}
            /\ pc'[t] \notin {"fetch", "load", "cas"}
      BY <2>4 DEF TypeOK
    <2>6. RingInv'
      BY <2>2, <2>3, <2>5, Quiet
    <2> QED BY <2>1, <2>6
  <1>7. CASE UNCHANGED vars
    <2>1. TypeOK' /\ Phase'
      BY <1>7 DEF TypeOK, Phase, InFlight, vars, lists, ring, freeing, clearing, state, history
    <2>2. RingInv'
      BY <1>7, Quiet DEF vars, state
    <2> QED BY <2>1, <2>2
  <1> QED BY <1>1, <1>2, <1>3, <1>4, <1>5, <1>6, <1>7
          DEF Next, PoolAlloc, Clearance, PoolStep, Finished

(* The types of LocalPool: no counter of the ring, no slot number and no   *)
(* count of closed slots ever leaves its range.                            *)
THEOREM TypeCorrect == Spec => []TypeOK
  <1>1. TypeOK /\ Phase /\ RingInv /\ [Next]_vars => (TypeOK /\ Phase /\ RingInv)'
    BY PoolStepRing
  <1> QED BY <1>1, PoolInit, PTL DEF Spec

-----------------------------------------------------------------------------
(* Where the parcels are, said without realms and lists.                   *)
Where ==
  /\ Freeing = {p \in Parcel : \E t \in Thread : pParcel[t] = p}
  /\ ListedST = IF mbCache \/ pc[Owner] = "walk" THEN OwnList ELSE {}
  /\ ListedMT = {p \in Parcel : \E i \in SlotIndex : maListMT[0][i] = <<p>>}

(* A parcel that is being freed, on the owner's list or on the ring is     *)
(* where pParcel, OwnList and maListMT[0] say.                             *)
LEMMA Whereabouts == TypeOK /\ Phase /\ SlotShape => Where
  <1> SUFFICES ASSUME TypeOK, Phase, SlotShape PROVE Where
    OBVIOUS
  <1>1. Freeing = {p \in Parcel : \E t \in Thread : pParcel[t] = p}
    <2>1. \A p \in Parcel, t \in Thread : pParcel[t] = p => t \in InFlight
      BY Constants DEF Phase
    <2> QED BY <2>1 DEF Freeing, InFlight
  <1>2. ListedST = IF mbCache \/ pc[Owner] = "walk" THEN OwnList ELSE {}
    <2>1. oCache = 0
      BY Constants DEF TypeOK
    <2>2. ~Walked(0) <=> mbCache \/ pc[Owner] = "walk"
      BY <2>1 DEF Walked, Sweeping, Phase
    <2>3. OwnList \subseteq Parcel
      BY Constants DEF OwnList, Range, TypeOK
    <2> QED BY <2>2, <2>3, Constants DEF ListedST, OwnList
  <1>3. ListedMT = {p \in Parcel : \E i \in SlotIndex : maListMT[0][i] = <<p>>}
    <2>1. ASSUME NEW i \in SlotIndex, NEW p \in Parcel
          PROVE  p \in Range(maListMT[0][i]) <=> maListMT[0][i] = <<p>>
      <3>1. /\ Range(<<>>) = {} /\ Range(<<Invalid>>) = {Invalid}
            /\ \A q : Range(<<q>>) = {q}
        BY DEF Range
      <3> QED BY <3>1, Constants DEF SlotShape
    <2> QED BY <2>1, Constants DEF ListedMT
  <1> QED BY <1>1, <1>2, <1>3 DEF Where

(* The same of the next state.                                             *)
LEMMA WhereaboutsNext == (TypeOK /\ Phase /\ SlotShape)' => Where'
  BY Whereabouts, PTL

Basis == TypeOK /\ Phase /\ RingInv

(* Both, from what PoolStepRing establishes.                               *)
LEMMA BasisWhere == (Basis => Where) /\ (Basis' => Where')
  BY Whereabouts, WhereaboutsNext DEF Basis, RingInv

(* The parcels to come back are finitely many.                             *)
LEMMA OutstandingFinite ==
  ASSUME TypeOK
  PROVE  Outstanding \subseteq Parcel /\ IsFiniteSet(Outstanding) /\ Cardinality(Outstanding) \in Nat
  <1>1. Outstanding \subseteq Parcel
    BY DEF Outstanding, Freeing, ListedST, ListedMT, TypeOK
  <1> QED BY <1>1, Constants, FS_Subset, FS_CardinalityType

-----------------------------------------------------------------------------
(* Alloc moves a parcel, none gets lost: the slot it empties held no       *)
(* other.                                                                  *)
LEMMA AllocOut ==
  ASSUME Basis, Basis', AllocCached(0)
  PROVE  Outstanding' = Outstanding
  <1>1. mbCache /\ mbCache' /\ UNCHANGED freeing
    BY DEF AllocCached, Basis, Phase
  <1>2. Freeing' = Freeing /\ ListedST = OwnList /\ ListedST' = OwnList'
    BY <1>1, BasisWhere DEF Where, freeing
  <1>3. CASE TakeST(0) /\ live' = live \cup {Head(mListST[0])}
    <2> DEFINE p == Head(mListST[0])
    <2>1. mListST[0] \in Seq(Parcel) /\ mListST[0] # <<>>
      BY <1>3, Constants DEF Basis, TypeOK, TakeST
    <2>2. p \in OwnList /\ OwnList' = OwnList \ {p}
      BY <1>3, <2>1, TakeSTList, TailRange DEF OwnList, Basis, RingInv, Apart
    <2>3. ListedMT' = ListedMT
      BY <1>3, BasisWhere DEF Where, TakeST
    <2> HIDE DEF p
    <2>4. live' = live \cup {p}
      BY <1>3 DEF p
    <2> QED BY <1>2, <2>2, <2>3, <2>4 DEF Outstanding
  <1>4. CASE TakeMT(0) /\ live' = live \cup {Head(maListMT[0][AllocSlot(0)])}
    <2>1. AllocSlot(0) \in SlotIndex
      BY AllocSlotType DEF Basis
    <2>2. PICK p \in Parcel : maListMT[0][AllocSlot(0)] = <<p>>
      BY <1>1, <1>4, <2>1 DEF Basis, RingInv, SlotShape, TakeMT
    <2>3. live' = live \cup {p}
      BY <1>4, <2>2
    <2>4. \A k \in SlotIndex :
            maListMT'[0][k] = IF k = AllocSlot(0) THEN <<>> ELSE maListMT[0][k]
      BY <1>4, TakeMTList DEF Basis
    <2>5. \A k \in SlotIndex : maListMT[0][k] = <<p>> => k = AllocSlot(0)
      BY <2>1, <2>2 DEF Basis, RingInv, Apart
    <2>6. p \in ListedMT /\ ListedMT' = ListedMT \ {p}
      <3>1. ListedMT = {q \in Parcel : \E i \in SlotIndex : maListMT[0][i] = <<q>>}
        BY BasisWhere DEF Where
      <3>2. ListedMT' = {q \in Parcel : \E i \in SlotIndex : maListMT'[0][i] = <<q>>}
        BY BasisWhere DEF Where
      <3>3. ASSUME NEW q \in Parcel
            PROVE  (\E i \in SlotIndex : maListMT'[0][i] = <<q>>) <=>
                     (\E i \in SlotIndex : maListMT[0][i] = <<q>>) /\ q # p
        BY <2>1, <2>2, <2>4, <2>5
      <3> QED BY <2>1, <2>2, <3>1, <3>2, <3>3
    <2>7. OwnList' = OwnList
      BY <1>4 DEF OwnList, TakeMT
    <2> QED BY <1>2, <2>3, <2>6, <2>7 DEF Outstanding
  <1> QED BY <1>3, <1>4 DEF AllocCached

(* The start of Free moves a parcel from the application to the free or to *)
(* the owner's list.                                                       *)
LEMMA FreeOut ==
  ASSUME Basis, Basis', NEW t \in Thread, NEW p \in live, Free(t, p, 0)
  PROVE  Outstanding' = Outstanding
  <1>1. p \in Parcel /\ live' = live \ {p}
    BY DEF Basis, TypeOK, Free
  <1>2. pParcel[t] = NULL
    BY DEF Basis, Phase, Free, InFlight
  <1>3. ListedMT' = ListedMT
    <2>1. maListMT' = maListMT
      BY DEF Free, ListST, lists
    <2> QED BY <2>1, BasisWhere DEF Where
  <1>4. CASE ListST(0, p) /\ mbCache /\ UNCHANGED <<pc, pParcel>>
    <2>1. OwnList' = OwnList \cup {p}
      <3>1. mListST[0] \in Seq(Parcel)
        BY Constants DEF Basis, TypeOK
      <3>2. /\ p \notin OwnList
            /\ \A j, k \in 1 .. Len(mListST[0]) : mListST[0][j] = mListST[0][k] => j = k
        BY DEF Basis, RingInv, Apart
      <3>3. mListST'[0] = <<p>> \o mListST[0]
        BY <1>1, <1>4, ListSTList DEF Basis
      <3>4. Range(<<p>> \o mListST[0]) = Range(mListST[0]) \cup {p}
        <4> DEFINE s == mListST[0]
        <4>1. s \in Seq(Parcel) /\ p \notin Range(s)
          BY <3>1, <3>2 DEF OwnList
        <4>2. \A j, k \in 1 .. Len(s) : s[j] = s[k] => j = k
          BY <3>2
        <4> HIDE DEF s
        <4>3. Range(<<p>> \o s) = Range(s) \cup {p}
          BY <1>1, <4>1, <4>2, ConsRange
        <4> QED BY <4>3 DEF s
      <3> QED BY <3>3, <3>4 DEF OwnList
    <2>2. ListedST = OwnList /\ ListedST' = OwnList' /\ Freeing' = Freeing
      BY <1>4, BasisWhere DEF Where, Free
    <2> QED BY <1>1, <1>3, <2>1, <2>2 DEF Outstanding
  <1>5. CASE /\ UNCHANGED mListST
             /\ pParcel' = [pParcel EXCEPT ![t] = p]
             /\ \E l \in {"fetch", "dec"} : pc' = [pc EXCEPT ![t] = l]
             /\ pc[t] = "idle"
    <2>1. \A u \in Thread : pParcel'[u] = IF u = t THEN p ELSE pParcel[u]
      BY <1>5 DEF Basis, TypeOK
    <2>2. Freeing' = Freeing \cup {p}
      <3>1. Freeing = {q \in Parcel : \E u \in Thread : pParcel[u] = q}
        BY BasisWhere DEF Where
      <3>2. Freeing' = {q \in Parcel : \E u \in Thread : pParcel'[u] = q}
        BY BasisWhere DEF Where
      <3> QED BY <1>1, <1>2, <2>1, <3>1, <3>2, Constants
    <2>3. ListedST' = ListedST
      <3>1. mbCache' = mbCache /\ OwnList' = OwnList
        BY <1>5 DEF Free, OwnList
      <3>2. pc'[Owner] = "walk" <=> pc[Owner] = "walk"
        BY <1>5, Constants DEF Basis, TypeOK
      <3> QED BY <3>1, <3>2, BasisWhere DEF Where
    <2> QED BY <1>1, <1>3, <2>2, <2>3 DEF Outstanding
  <1> QED BY <1>4, <1>5 DEF Free, Goto, lists

(* Drawing a slot and reading it move nothing; the compare-and-swap moves  *)
(* the parcel from the free to its slot.                                   *)
LEMMA ListMTOut ==
  ASSUME Basis, Basis', NEW t \in Thread, ListMT(t, 0)
  PROVE  Outstanding' = Outstanding
  <1>1. UNCHANGED <<mListST, live, mbCache>>
    BY DEF ListMT, Fetch, Load, Cas, lists, state
  <1>2. pc'[Owner] = pc[Owner]
    <2>1. t # Owner
      BY DEF ListMT, Fetch, Load, Cas, Basis, Phase
    <2> QED BY <2>1, Constants DEF ListMT, Fetch, Load, Cas, Goto, Basis, TypeOK
  <1>3. ListedST' = ListedST
    <2>1. mbCache' = mbCache /\ OwnList' = OwnList
      BY <1>1 DEF OwnList
    <2>2. pc'[Owner] = "walk" <=> pc[Owner] = "walk"
      BY <1>2
    <2> QED BY <2>1, <2>2, BasisWhere DEF Where
  <1>4. CASE UNCHANGED <<maListMT, pParcel>>
    <2>1. Freeing' = Freeing /\ ListedMT' = ListedMT
      BY <1>4, BasisWhere DEF Where
    <2> QED BY <1>1, <1>3, <2>1 DEF Outstanding
  <1>5. CASE /\ Cas(t, 0)
             /\ maListMT[0][oRevolver[t]] = <<>>
             /\ maListMT' = [maListMT EXCEPT ![0][oRevolver[t]] = <<pParcel[t]>> \o @]
             /\ pParcel' = [pParcel EXCEPT ![t] = NULL]
    <2> DEFINE p == pParcel[t]
               i == oRevolver[t]
    <2>1. p \in Parcel /\ i \in SlotIndex
      BY <1>5 DEF Cas, Basis, Phase, InFlight, TypeOK
    <2>2. \A k \in SlotIndex : maListMT'[0][k] = IF k = i THEN <<p>> ELSE maListMT[0][k]
      <3>1. <<p>> \o <<>> = <<p>> /\ <<p>> \in Seq(Parcel \cup {Invalid})
        BY <2>1
      <3>2. maListMT' = [maListMT EXCEPT ![0][i] = <<p>>]
        BY <1>5, <3>1
      <3> QED BY <2>1, <3>1, <3>2, SetSlot DEF Basis
    <2>3. \A u \in Thread : pParcel'[u] = IF u = t THEN NULL ELSE pParcel[u]
      BY <1>5 DEF Basis, TypeOK
    <2>4. /\ \A u \in Thread : u # t => pParcel[u] # p
          /\ pParcel[t] = p /\ maListMT[0][i] = <<>>
      BY <1>5, <2>1, Constants DEF Basis, RingInv, Apart
    <2> HIDE DEF p, i
    <2>5. Freeing' = Freeing \ {p} /\ p \in Freeing
      <3>1. Freeing = {q \in Parcel : \E u \in Thread : pParcel[u] = q}
        BY BasisWhere DEF Where
      <3>2. Freeing' = {q \in Parcel : \E u \in Thread : pParcel'[u] = q}
        BY BasisWhere DEF Where
      <3> QED BY <2>1, <2>3, <2>4, <3>1, <3>2, Constants
    <2>6. ListedMT' = ListedMT \cup {p}
      <3>1. ListedMT = {q \in Parcel : \E k \in SlotIndex : maListMT[0][k] = <<q>>}
        BY BasisWhere DEF Where
      <3>2. ListedMT' = {q \in Parcel : \E k \in SlotIndex : maListMT'[0][k] = <<q>>}
        BY BasisWhere DEF Where
      <3>3. ASSUME NEW q \in Parcel
            PROVE  (\E k \in SlotIndex : maListMT'[0][k] = <<q>>) <=>
                     (\E k \in SlotIndex : maListMT[0][k] = <<q>>) \/ q = p
        <4>1. \A k \in SlotIndex : maListMT[0][k] = <<q>> => k # i
          <5>1. <<q>> # <<>>
            OBVIOUS
          <5> QED BY <2>4, <5>1
        <4> QED BY <2>1, <2>2, <4>1
      <3> QED BY <2>1, <3>1, <3>2, <3>3
    <2> QED BY <1>1, <1>3, <2>5, <2>6 DEF Outstanding
  <1>6. CASE Cas(t, 0)
    <2>1. maListMT[0][oRevolver[t]] \in {<<>>, <<Invalid>>} /\ pListMT[t] = NULL
      BY <1>6 DEF Basis, RingInv, DrawnSlotIsFree, Reserved, Cas
    <2>2. Top(maListMT[0][oRevolver[t]]) = pListMT[t] => maListMT[0][oRevolver[t]] = <<>>
      BY <2>1, Constants DEF Top
    <2> QED BY <1>4, <1>5, <1>6, <2>2 DEF Cas
  <1> QED BY <1>4, <1>6 DEF ListMT, Fetch, Load, lists

-----------------------------------------------------------------------------
(* FreeDec counts its own parcel off, and nothing else.                    *)
LEMMA FreeDecOut ==
  ASSUME Basis, Basis', NEW t \in Thread, FreeDec(t)
  PROVE  /\ pParcel[t] \in Outstanding
         /\ Outstanding' = Outstanding \ {pParcel[t]}
  <1> DEFINE p == pParcel[t]
  <1>1. /\ pc[t] = "dec" /\ p \in Parcel /\ t \in InFlight
        /\ UNCHANGED <<lists, live>>
        /\ mbCache' = mbCache
        /\ pParcel' = [pParcel EXCEPT ![t] = NULL]
    BY DEF FreeDec, Basis, Phase, InFlight, TypeOK
  <1>2. \A u \in Thread : pParcel'[u] = IF u = t THEN NULL ELSE pParcel[u]
    BY <1>1 DEF Basis, TypeOK
  <1>3. /\ p \notin live \cup OwnList
        /\ \A u \in Thread : u # t => pParcel[u] # p
        /\ \A i \in SlotIndex : maListMT[0][i] # <<p>>
    BY <1>1, Constants DEF Basis, RingInv, Apart
  <1>4. Freeing = {q \in Parcel : \E u \in Thread : pParcel[u] = q}
    BY BasisWhere DEF Where
  <1>5. Freeing' = {q \in Parcel : \E u \in Thread : pParcel'[u] = q}
    BY BasisWhere DEF Where
  <1>6. ListedMT = {q \in Parcel : \E i \in SlotIndex : maListMT[0][i] = <<q>>}
    BY BasisWhere DEF Where
  <1>7. ListedMT' = ListedMT
    <2>1. maListMT' = maListMT
      BY <1>1 DEF lists
    <2> QED BY <2>1, BasisWhere DEF Where
  <1>8. ListedST' = ListedST /\ (ListedST = OwnList \/ ListedST = {})
    <2>1. OwnList' = OwnList
      BY <1>1 DEF lists, OwnList
    <2>2. pc'[Owner] = "walk" <=> pc[Owner] = "walk"
      BY <1>1, Constants DEF FreeDec, Goto, AfterDec, Basis, TypeOK
    <2> QED BY <1>1, <2>1, <2>2, BasisWhere DEF Where
  <1> HIDE DEF p
  <1>9. p \in Freeing /\ Freeing' = Freeing \ {p}
    <2>1. pParcel[t] = p
      BY DEF p
    <2> QED BY <1>1, <1>2, <1>3, <1>4, <1>5, <2>1, Constants
  <1>10. p \notin live \cup ListedST \cup ListedMT
    BY <1>3, <1>6, <1>8
  <1>11. live' = live
    BY <1>1
  <1>12. p \in Outstanding /\ Outstanding' = Outstanding \ {p}
    BY <1>7, <1>8, <1>9, <1>10, <1>11 DEF Outstanding
  <1> QED BY <1>12 DEF p

(* ClearanceWalk counts the owner's list off, as long as it is.            *)
LEMMA WalkOut ==
  ASSUME Basis, Basis', ClearanceWalk
  PROVE  /\ Outstanding' = Outstanding \ OwnList
         /\ OwnList \subseteq Outstanding
         /\ Cardinality(OwnList) = Len(mListST[0])
         /\ nCache' = nCache + Len(mListST[0])
  <1>1. /\ pc[Owner] = "walk" /\ oCache = 0 /\ ~mbCache
        /\ UNCHANGED <<lists, freeing>> /\ live' = live /\ mbCache' = mbCache
        /\ pc'[Owner] = "sweep" /\ nCache' = nCache + Len(mListST[0])
    BY Constants DEF ClearanceWalk, Walk, Goto, state, Basis, TypeOK, Phase
  <1>2. ListedST = OwnList /\ ListedST' = {}
    BY <1>1, BasisWhere DEF Where
  <1>3. Freeing' = Freeing /\ ListedMT' = ListedMT
    <2>1. pParcel' = pParcel /\ maListMT' = maListMT
      BY <1>1 DEF freeing, lists
    <2> QED BY <2>1, BasisWhere DEF Where
  <1>4. OwnList \cap (live \cup Freeing \cup ListedMT) = {}
    <2>1. OwnList \cap live = {} /\ \A t \in Thread : pParcel[t] \notin OwnList
      BY DEF Basis, RingInv, Apart
    <2>2. \A i \in SlotIndex, p \in Parcel : maListMT[0][i] = <<p>> => p \notin OwnList
      BY DEF Basis, RingInv, Apart
    <2>3. \A p \in Freeing : p \notin OwnList
      BY <2>1, BasisWhere DEF Where
    <2>4. \A p \in ListedMT : p \notin OwnList
      BY <2>2, BasisWhere DEF Where
    <2> QED BY <2>1, <2>3, <2>4
  <1>5. Cardinality(OwnList) = Len(mListST[0])
    <2> DEFINE s == mListST[0]
    <2>1. s \in Seq(Parcel) /\ \A j, k \in 1 .. Len(s) : s[j] = s[k] => j = k
      BY Constants DEF Basis, TypeOK, RingInv, Apart
    <2> HIDE DEF s
    <2>2. Cardinality(Range(s)) = Len(s)
      BY <2>1, OnceCount
    <2> QED BY <2>2 DEF s, OwnList
  <1>6. Outstanding' = Outstanding \ OwnList /\ OwnList \subseteq Outstanding
    BY <1>1, <1>2, <1>3, <1>4 DEF Outstanding
  <1> QED BY <1>1, <1>5, <1>6

(* The slot Clearance closes next lies nSwept slots behind the one that    *)
(* would be allocated from.                                                *)
LEMMA SweepOffset ==
  ASSUME TypeOK, nSwept < cnRevolver
  PROVE  LET i == Slot(mRevolverAlloc[0] + nSwept)
         IN i \in SlotIndex /\ Offset(i) = nSwept
  <1> DEFINE n == mRevolverAlloc[0]
  <1>1. n \in 0 .. cnRevolver /\ nSwept \in 0 .. cnRevolver - 1
    BY Constants DEF TypeOK
  <1> HIDE DEF n
  <1>3. n + nSwept \in 0 .. 2 * cnRevolver - 1 /\ n \in 0 .. 2 * cnRevolver - 1
    BY <1>1, Constants
  <1>4. /\ Slot(n + nSwept) = IF n + nSwept < cnRevolver THEN n + nSwept ELSE (n + nSwept) - cnRevolver
        /\ AllocSlot(0) = IF n < cnRevolver THEN n ELSE n - cnRevolver
    <2>1. AllocSlot(0) = Slot(n)
      BY DEF AllocSlot, n
    <2>2. Slot(n) = IF n < cnRevolver THEN n ELSE n - cnRevolver
      BY <1>3, SlotTwice
    <2>3. Slot(n + nSwept) = IF n + nSwept < cnRevolver THEN n + nSwept ELSE (n + nSwept) - cnRevolver
      <3> DEFINE m == n + nSwept
      <3>1. m \in 0 .. 2 * cnRevolver - 1
        BY <1>3
      <3> HIDE DEF m
      <3>2. Slot(m) = IF m < cnRevolver THEN m ELSE m - cnRevolver
        BY <3>1, SlotTwice
      <3> QED BY <3>2 DEF m
    <2> QED BY <2>1, <2>2, <2>3
  <1>5. Slot(n + nSwept) \in SlotIndex /\ Offset(Slot(n + nSwept)) = nSwept
    BY <1>1, <1>4, Constants DEF Offset
  <1> QED BY <1>5 DEF n

(* Initially no slot is closed.                                            *)
LEMMA ClosingInit == Init => Closing
  <1> SUFFICES ASSUME Init PROVE Closing
    OBVIOUS
  <1>1. \A i \in SlotIndex : maListMT[0][i] = <<>>
    BY Constants DEF Init, CacheInit
  <1>2. <<>> # <<Invalid>>
    OBVIOUS
  <1> QED BY <1>1, <1>2 DEF Closing

(* Slots are closed in order, by ClearanceSweep only.                      *)
LEMMA ClosingStep ==
  ASSUME Basis, Basis', Closing, [Next]_vars
  PROVE  Closing'
  <1>1. CASE ClearanceBegin
    <2>1. \A i \in SlotIndex : maListMT[0][i] # <<Invalid>>
      BY <1>1 DEF ClearanceBegin, Basis, Phase, RingInv, SlotShape
    <2>2. maListMT' = maListMT
      BY <1>1 DEF ClearanceBegin, lists
    <2> QED BY <2>1, <2>2 DEF Closing
  <1>2. CASE ClearanceWalk
    <2>1. \A i \in SlotIndex : maListMT[0][i] # <<Invalid>>
      BY <1>2 DEF ClearanceWalk, Walk, Closing
    <2>2. maListMT' = maListMT
      BY <1>2 DEF ClearanceWalk, Walk, lists
    <2> QED BY <2>1, <2>2 DEF Closing
  <1>3. CASE ClearanceSweep
    <2> DEFINE i == Slot(mRevolverAlloc[0] + nSwept)
    <2>1. /\ pc[Owner] = "sweep" /\ nSwept \in Nat /\ nSwept' = nSwept + 1
          /\ mRevolverAlloc' = mRevolverAlloc
          /\ maListMT' = [maListMT EXCEPT ![0][i] = <<Invalid>>]
          /\ pc'[Owner] # "walk"
      BY <1>3, PoolAssumption, Constants
      DEF ClearanceSweep, Sweep, ring, Goto, Basis, TypeOK
    <2>2. i \in SlotIndex /\ Offset(i) = nSwept
      BY <2>1, SweepOffset DEF Basis, Phase
    <2>3. \A k \in SlotIndex : maListMT'[0][k] = IF k = i THEN <<Invalid>> ELSE maListMT[0][k]
      <3>1. <<Invalid>> \in Seq(Parcel \cup {Invalid})
        OBVIOUS
      <3> QED BY <2>1, <2>2, <3>1, SetSlot DEF Basis
    <2> HIDE DEF i
    <2>4. ASSUME NEW k \in SlotIndex, maListMT'[0][k] = <<Invalid>>
          PROVE  Offset(k)' < nSwept'
      <3>1. Offset(k)' = Offset(k)
        BY <2>1 DEF Offset, AllocSlot, Slot
      <3>2. CASE k = i
        BY <2>1, <2>2, <3>1, <3>2
      <3>3. CASE k # i
        <4>1. Offset(k) < nSwept /\ Offset(k) \in Int
          BY <2>1, <2>3, <2>4, <3>3, OffsetRange, Constants DEF Closing, Basis
        <4> QED BY <2>1, <3>1, <4>1
      <3> QED BY <3>2, <3>3
    <2> QED BY <2>1, <2>4 DEF Closing
  <1>4. CASE AllocCached(0)
    BY <1>4 DEF Closing, AllocCached, Basis, Phase
  <1>5. CASE /\ \A k \in SlotIndex : maListMT'[0][k] = <<Invalid>> => maListMT[0][k] = <<Invalid>>
             /\ UNCHANGED <<mRevolverAlloc, nSwept>>
             /\ pc'[Owner] \in {"walk", "sweep"} => pc'[Owner] = pc[Owner]
    <2>1. \A k : Offset(k)' = Offset(k)
      BY <1>5 DEF Offset, AllocSlot, Slot
    <2> QED BY <1>5, <2>1 DEF Closing
  <1>6. ASSUME NEW t \in Thread, PoolFree(t) PROVE Closing'
    <2>1. /\ UNCHANGED <<maListMT, mRevolverAlloc, nSwept>>
          /\ \E l \in {"idle", "fetch", "dec"} : pc' = [pc EXCEPT ![t] = l]
      BY <1>6 DEF PoolFree, Free, ListST, lists, ring, clearing, Goto, Basis, TypeOK
    <2>2. pc'[Owner] \in {"walk", "sweep"} => pc'[Owner] = pc[Owner]
      BY <2>1, Constants DEF Basis, TypeOK
    <2> QED BY <1>5, <2>1, <2>2
  <1>7. ASSUME NEW t \in Thread, ListMT(t, 0) PROVE Closing'
    <2>1. /\ UNCHANGED <<mRevolverAlloc, nSwept>>
          /\ \E l \in {"idle", "load", "cas", "dec"} : pc' = [pc EXCEPT ![t] = l]
      BY <1>7 DEF ListMT, Fetch, Load, Cas, AfterRead, ring, clearing, Goto
    <2>2. pc'[Owner] \in {"walk", "sweep"} => pc'[Owner] = pc[Owner]
      BY <2>1, Constants DEF Basis, TypeOK
    <2>3. ASSUME NEW k \in SlotIndex, maListMT'[0][k] = <<Invalid>>
          PROVE  maListMT[0][k] = <<Invalid>>
      <3>1. CASE maListMT' = maListMT
        BY <2>3, <3>1
      <3>2. CASE /\ maListMT[0][oRevolver[t]] = <<>>
                 /\ maListMT' = [maListMT EXCEPT ![0][oRevolver[t]] = <<pParcel[t]>> \o @]
                 /\ pParcel[t] \in Parcel
        <4>1. oRevolver[t] \in SlotIndex
          BY DEF Basis, TypeOK
        <4>2. <<pParcel[t]>> \o <<>> = <<pParcel[t]>> /\ <<pParcel[t]>> \in Seq(Parcel \cup {Invalid})
          BY <3>2
        <4>3. maListMT' = [maListMT EXCEPT ![0][oRevolver[t]] = <<pParcel[t]>>]
          BY <3>2, <4>2
        <4>4. maListMT'[0][k] = IF k = oRevolver[t] THEN <<pParcel[t]>> ELSE maListMT[0][k]
          <5> DEFINE list == <<pParcel[t]>>
          <5>1. list \in Seq(Parcel \cup {Invalid})
            BY <4>2
          <5>2. maListMT' = [maListMT EXCEPT ![0][oRevolver[t]] = list] /\ TypeOK
            BY <4>3 DEF Basis
          <5> HIDE DEF list
          <5>3. \A m \in SlotIndex : maListMT'[0][m] = IF m = oRevolver[t] THEN list ELSE maListMT[0][m]
            BY ONLY <4>1, <5>1, <5>2, SetSlot
          <5> QED BY <5>3 DEF list
        <4> QED BY <2>3, <3>2, <4>4, Constants
      <3>3. CASE Cas(t, 0)
        <4>1. maListMT[0][oRevolver[t]] \in {<<>>, <<Invalid>>} /\ pListMT[t] = NULL
          BY <3>3 DEF Basis, RingInv, DrawnSlotIsFree, Reserved, Cas
        <4>2. Top(maListMT[0][oRevolver[t]]) = pListMT[t] => maListMT[0][oRevolver[t]] = <<>>
          BY <4>1, Constants DEF Top
        <4>3. pParcel[t] \in Parcel
          BY <3>3 DEF Cas, Basis, Phase, InFlight, TypeOK
        <4> QED BY <3>1, <3>2, <3>3, <4>2, <4>3 DEF Cas
      <3> QED BY <1>7, <3>1, <3>3 DEF ListMT, Fetch, Load, lists
    <2> QED BY <1>5, <2>1, <2>2, <2>3
  <1>8. ASSUME NEW t \in Thread, FreeDec(t) \/ Delete(t) PROVE Closing'
    <2>1. /\ UNCHANGED <<maListMT, mRevolverAlloc, nSwept>>
          /\ \E l \in {"idle", "delete", "exited"} : pc' = [pc EXCEPT ![t] = l]
      BY <1>8 DEF FreeDec, Delete, AfterDec, lists, ring, clearing, Goto
    <2>2. pc'[Owner] \in {"walk", "sweep"} => pc'[Owner] = pc[Owner]
      BY <2>1, Constants DEF Basis, TypeOK
    <2> QED BY <1>5, <2>1, <2>2
  <1>9. CASE AllocExhausted(0) \/ ThreadExit \/ Renew
    <2>1. /\ UNCHANGED <<maListMT, mRevolverAlloc, nSwept>>
          /\ \E l \in {"idle", "clear", "exited"} : pc' = [pc EXCEPT ![Owner] = l]
      BY <1>9 DEF AllocExhausted, ThreadExit, Renew, lists, ring, clearing, Goto
    <2>2. pc'[Owner] \in {"walk", "sweep"} => pc'[Owner] = pc[Owner]
      BY <2>1, Constants DEF Basis, TypeOK
    <2> QED BY <1>5, <2>1, <2>2
  <1>10. CASE ClearanceEnd
    <2>1. pc'[Owner] \notin {"walk", "sweep"}
      BY <1>10, Constants DEF ClearanceEnd, AfterClearance, Goto, Basis, TypeOK
    <2> QED BY <2>1 DEF Closing
  <1>11. CASE UNCHANGED vars
    BY <1>5, <1>11 DEF vars, lists, ring, clearing
  <1> QED BY <1>1, <1>2, <1>3, <1>4, <1>6, <1>7, <1>8, <1>9, <1>10, <1>11
          DEF Next, PoolAlloc, Clearance, PoolStep, Finished

-----------------------------------------------------------------------------
(* Clearance counts a slot as one exactly when a parcel is on it: no slot  *)
(* is closed twice.                                                        *)
LEMMA SweepOut ==
  ASSUME Basis, Basis', Closing, ClearanceSweep
  PROVE  \/ nCache' = nCache /\ Outstanding' = Outstanding
         \/ nCache' = nCache + 1 /\ \E p \in Outstanding : Outstanding' = Outstanding \ {p}
  <1> DEFINE i == Slot(mRevolverAlloc[0] + nSwept)
             list == maListMT[0][i]
  <1>1. /\ pc[Owner] = "sweep" /\ pc'[Owner] # "walk" /\ ~mbCache
        /\ UNCHANGED <<mListST, freeing, live, mbCache>>
        /\ maListMT' = [maListMT EXCEPT ![0][i] = <<Invalid>>]
        /\ nCache' = nCache + CountSlot(list)
    BY PoolAssumption, Constants DEF ClearanceSweep, Sweep, Goto, Basis, TypeOK, Phase
  <1>2. i \in SlotIndex /\ Offset(i) = nSwept
    BY <1>1, SweepOffset DEF Basis, Phase
  <1>3. list # <<Invalid>>
    <2>1. nSwept \in Nat
      BY DEF Basis, TypeOK
    <2> QED BY <1>1, <1>2, <2>1 DEF Closing
  <1>4. list \in {<<>>} \cup {<<p>> : p \in Parcel}
    BY <1>2, <1>3 DEF Basis, RingInv, SlotShape
  <1>5. \A k \in SlotIndex : maListMT'[0][k] = IF k = i THEN <<Invalid>> ELSE maListMT[0][k]
    <2>1. <<Invalid>> \in Seq(Parcel \cup {Invalid})
      OBVIOUS
    <2> QED BY <1>1, <1>2, <2>1, SetSlot DEF Basis
  <1>6. maListMT[0][i] = list
    OBVIOUS
  <1> HIDE DEF i, list
  <1>7. Freeing' = Freeing /\ ListedST' = {} /\ ListedST = {}
    <2>1. pParcel' = pParcel /\ ~mbCache' /\ pc[Owner] # "walk"
      BY <1>1 DEF freeing
    <2> QED BY <1>1, <2>1, BasisWhere DEF Where
  <1>8. ListedMT = {q \in Parcel : \E k \in SlotIndex : maListMT[0][k] = <<q>>}
    BY BasisWhere DEF Where
  <1>9. ListedMT' = {q \in Parcel : \E k \in SlotIndex : maListMT'[0][k] = <<q>>}
    BY BasisWhere DEF Where
  <1>10. CASE list = <<>>
    <2>1. ASSUME NEW q \in Parcel, NEW k \in SlotIndex
          PROVE  maListMT'[0][k] = <<q>> <=> maListMT[0][k] = <<q>>
      <3>1. <<q>> # <<>> /\ <<q>> # <<Invalid>>
        BY Constants
      <3> QED BY <1>5, <1>6, <1>10, <3>1
    <2>2. ListedMT' = ListedMT
      BY <1>8, <1>9, <2>1
    <2> QED BY <1>1, <1>7, <1>10, <2>2 DEF Outstanding, CountSlot, Basis, TypeOK
  <1>11. CASE \E p \in Parcel : list = <<p>>
    <2>1. PICK p \in Parcel : list = <<p>>
      BY <1>11
    <2>2. /\ p \notin live /\ p \notin Freeing
          /\ \A k \in SlotIndex : maListMT[0][k] = <<p>> => k = i
      BY <1>2, <1>6, <2>1, BasisWhere DEF Basis, RingInv, Apart, Where
    <2>3. p \in ListedMT
      BY <1>2, <1>6, <1>8, <2>1
    <2>4. ListedMT' = ListedMT \ {p}
      <3>1. ASSUME NEW q \in Parcel
            PROVE  (\E k \in SlotIndex : maListMT'[0][k] = <<q>>) <=>
                     (\E k \in SlotIndex : maListMT[0][k] = <<q>>) /\ q # p
        <4>1. <<q>> # <<Invalid>>
          BY Constants
        <4> QED BY <1>2, <1>5, <1>6, <2>1, <2>2, <4>1
      <3> QED BY <1>8, <1>9, <3>1
    <2>5. nCache' = nCache + 1
      <3>1. list # <<>>
        BY <2>1
      <3> QED BY <1>1, <3>1 DEF CountSlot
    <2>6. p \in Outstanding /\ Outstanding' = Outstanding \ {p}
      BY <1>1, <1>7, <2>2, <2>3, <2>4 DEF Outstanding
    <2> QED BY <2>5, <2>6
  <1> QED BY <1>4, <1>10, <1>11

(* What else a thread does leaves every parcel where it is.                *)
LEMMA QuietOut ==
  ASSUME Basis, Basis',
         \/ AllocExhausted(0) \/ ThreadExit \/ ClearanceBegin \/ ClearanceEnd \/ Renew
         \/ \E t \in Thread : Delete(t)
  PROVE  Outstanding' = Outstanding
  <1>1. UNCHANGED <<lists, freeing, live>>
    BY DEF AllocExhausted, ThreadExit, ClearanceBegin, ClearanceEnd, Renew, Delete, state
  <1>2. Freeing' = Freeing /\ ListedMT' = ListedMT
    <2>1. pParcel' = pParcel /\ maListMT' = maListMT
      BY <1>1 DEF freeing, lists
    <2> QED BY <2>1, BasisWhere DEF Where
  <1>3. (mbCache' \/ pc'[Owner] = "walk") <=> (mbCache \/ pc[Owner] = "walk")
    <2> USE Constants DEF Basis, TypeOK, Phase, Goto, state
    <2>1. CASE AllocExhausted(0) \/ ThreadExit \/ Renew
      BY <2>1 DEF AllocExhausted, ThreadExit, Renew
    <2>2. CASE ClearanceBegin
      BY <2>2 DEF ClearanceBegin
    <2>3. CASE ClearanceEnd
      <3>1. \E l \in {"renew", "delete", "exited"} : pc' = [pc EXCEPT ![Owner] = l]
        BY <2>3 DEF ClearanceEnd, AfterClearance
      <3>2. pc'[Owner] # "walk" /\ pc[Owner] = "sub" /\ mbCache' = mbCache
        BY <2>3, <3>1 DEF ClearanceEnd
      <3> QED BY <3>2
    <2>4. CASE \E t \in Thread : Delete(t)
      <3>1. \E t \in Thread, l \in {"idle", "exited"} :
               pc[t] = "delete" /\ pc' = [pc EXCEPT ![t] = l]
        BY <2>4 DEF Delete
      <3>2. mbCache' = mbCache /\ (pc'[Owner] = "walk" <=> pc[Owner] = "walk")
        BY <2>4, <3>1 DEF Delete
      <3> QED BY <3>2
    <2> QED BY <2>1, <2>2, <2>3, <2>4
  <1>4. ListedST' = ListedST
    <2>1. OwnList' = OwnList
      BY <1>1 DEF OwnList, lists
    <2> QED BY <1>3, <2>1, BasisWhere DEF Where
  <1> QED BY <1>1, <1>2, <1>4 DEF Outstanding

-----------------------------------------------------------------------------
(* As long as a parcel is out nobody deletes, nor has deleted.             *)
LEMMA StillThere ==
  ASSUME TypeOK, CountInv, Outstanding # {} \/ nCache > 0
  PROVE  /\ mnCache > 0 /\ nDelete = 0
         /\ \A t \in Thread : pc[t] # "delete"
  <1>1. Cardinality(Outstanding) \in Nat /\ (Cardinality(Outstanding) = 0 <=> Outstanding = {})
    BY OutstandingFinite, FS_EmptySet
  <1>2. mnCache > 0
    BY <1>1 DEF CountInv, Accounting, TypeOK
  <1> QED BY <1>2 DEF CountInv, TypeOK

(* A thread that is freeing, or that may start to, keeps a parcel out; an  *)
(* owner that may allocate has its allocator open.                         *)
LEMMA Inside ==
  ASSUME Basis, CountInv
  PROVE  /\ \A t \in InFlight : Outstanding # {}
         /\ live # {} => Outstanding # {}
         /\ nDelete > 0 => ~mbCache
  <1>1. ASSUME NEW t \in InFlight PROVE Outstanding # {}
    <2>1. pParcel[t] \in Parcel
      BY DEF Basis, Phase, TypeOK, InFlight
    <2> QED BY <2>1 DEF Outstanding, Freeing
  <1>2. live # {} => Outstanding # {}
    BY DEF Outstanding
  <1> QED BY <1>1, <1>2 DEF CountInv

(* Accounting is kept by a step that leaves parcels and counts alone, and  *)
(* by one that moves as many from Outstanding to nCache or off mnCache.    *)
LEMMA AccountingStep ==
  ASSUME Basis, Basis', Closing, CountInv, [Next]_vars
  PROVE  Accounting'
  <1> DEFINE n == Cardinality(Outstanding)
  <1>1. /\ mnCache = n + nCache /\ n \in Nat /\ nCache \in Nat /\ mnCache \in Int
        /\ IsFiniteSet(Outstanding)
    BY OutstandingFinite DEF CountInv, Accounting, Basis, TypeOK
  <1>2. \A p \in Outstanding : Cardinality(Outstanding \ {p}) = n - 1
    BY <1>1, FS_RemoveElement
  <1>3. CASE Outstanding' = Outstanding /\ UNCHANGED <<mnCache, nCache>>
    BY <1>1, <1>3 DEF Accounting
  <1>4. CASE AllocCached(0)
    <2>1. UNCHANGED <<mnCache, nCache>>
      BY <1>4 DEF AllocCached, clearing
    <2> QED BY <1>3, <1>4, <2>1, AllocOut
  <1>5. ASSUME NEW t \in Thread, PoolFree(t) PROVE Accounting'
    <2>1. UNCHANGED <<mnCache, nCache>>
      BY <1>5 DEF PoolFree, Free, clearing
    <2> QED BY <1>3, <1>5, <2>1, FreeOut DEF PoolFree
  <1>6. ASSUME NEW t \in Thread, ListMT(t, 0) PROVE Accounting'
    <2>1. UNCHANGED <<mnCache, nCache>>
      BY <1>6 DEF ListMT, Fetch, Load, Cas, clearing, state
    <2> QED BY <1>3, <1>6, <2>1, ListMTOut
  <1>7. ASSUME NEW t \in Thread, FreeDec(t) PROVE Accounting'
    <2>1. mnCache' = mnCache - 1 /\ nCache' = nCache
      BY <1>7 DEF FreeDec, clearing
    <2>2. pParcel[t] \in Outstanding /\ Outstanding' = Outstanding \ {pParcel[t]}
      BY <1>7, FreeDecOut
    <2>3. Cardinality(Outstanding') = n - 1
      BY <1>2, <2>2
    <2> QED BY <1>1, <2>1, <2>3 DEF Accounting
  <1>8. CASE ClearanceWalk
    <2>1. /\ Outstanding' = Outstanding \ OwnList /\ OwnList \subseteq Outstanding
          /\ nCache' = nCache + Cardinality(OwnList) /\ mnCache' = mnCache
      BY <1>8, WalkOut DEF ClearanceWalk, state
    <2>2. Outstanding \cap OwnList = OwnList
      BY <2>1
    <2>3. Cardinality(Outstanding') = n - Cardinality(OwnList) /\ Cardinality(OwnList) \in Nat
      <3>1. IsFiniteSet(OwnList) /\ Cardinality(OwnList) \in Nat
        BY <1>1, <2>1, FS_Subset, FS_CardinalityType
      <3>2. Cardinality(Outstanding \ OwnList) = n - Cardinality(Outstanding \cap OwnList)
        BY <1>1, <3>1, FS_Difference
      <3> QED BY <2>1, <2>2, <3>1, <3>2
    <2> QED BY <1>1, <2>1, <2>3 DEF Accounting
  <1>9. CASE ClearanceSweep
    <2>1. mnCache' = mnCache
      BY <1>9 DEF ClearanceSweep
    <2>2. CASE nCache' = nCache /\ Outstanding' = Outstanding
      BY <1>3, <2>1, <2>2
    <2>3. CASE nCache' = nCache + 1 /\ \E p \in Outstanding : Outstanding' = Outstanding \ {p}
      <3>1. Cardinality(Outstanding') = n - 1
        BY <1>2, <2>3
      <3> QED BY <1>1, <2>1, <2>3, <3>1 DEF Accounting
    <2> QED BY <1>9, <2>2, <2>3, SweepOut
  <1>10. CASE ClearanceEnd
    <2>1. Outstanding' = Outstanding /\ nCache' = 0
      BY <1>10, QuietOut DEF ClearanceEnd
    <2>2. CASE nDelete = 0
      <3>1. mnCache' = mnCache - nCache
        BY <1>10, <2>2 DEF ClearanceEnd
      <3> QED BY <1>1, <2>1, <3>1 DEF Accounting
    <2>3. CASE nDelete # 0
      <3>1. mnCache' = mnCache /\ mnCache = 0
        BY <1>10, <2>3 DEF ClearanceEnd, CountInv, Basis, TypeOK
      <3> QED BY <1>1, <2>1, <3>1 DEF Accounting
    <2> QED BY <2>2, <2>3
  <1>11. CASE \/ AllocExhausted(0) \/ ThreadExit \/ ClearanceBegin \/ Renew
              \/ \E t \in Thread : Delete(t)
    <2>1. UNCHANGED <<mnCache, nCache>>
      BY <1>11 DEF AllocExhausted, ThreadExit, ClearanceBegin, Renew, Delete, clearing, state
    <2> QED BY <1>3, <1>11, <2>1, QuietOut
  <1>12. CASE UNCHANGED vars
    <2>1. Outstanding' = Outstanding
      BY <1>12 DEF vars, lists, ring, freeing, clearing, state, Outstanding, Freeing, InFlight,
                   ListedST, ListedMT, Walked, Sweeping
    <2> QED BY <1>3, <1>12, <2>1 DEF vars, clearing, state
  <1> QED BY <1>4, <1>5, <1>6, <1>7, <1>8, <1>9, <1>10, <1>11, <1>12
          DEF Next, PoolAlloc, Clearance, PoolStep, Finished

-----------------------------------------------------------------------------
(* The count: whoever deletes found it at zero, and then nothing is out.   *)
LEMMA CountStep ==
  ASSUME Basis, Basis', Closing, CountInv, [Next]_vars
  PROVE  CountInv'
  <1>1. Accounting'
    BY AccountingStep
  <1> DEFINE Here == {"idle", "fetch", "load", "cas", "dec"}
             NoDeleter == \A t \in Thread : pc[t] = "delete" => mnCache = 0
             Gone == nDelete > 0 => mnCache = 0 /\ ~mbCache
  <1>2. /\ NoDeleter /\ Gone /\ dangling \cap Here = {}
        /\ TypeOK /\ Phase /\ nDelete \in Nat /\ mnCache \in Int
    BY DEF CountInv, Basis, TypeOK
  <1>3. CASE /\ UNCHANGED <<mnCache, nDelete>>
             /\ mbCache' => mbCache
             /\ \A t \in Thread : pc'[t] = "delete" => pc[t] = "delete"
             /\ dangling' = dangling \/ \E t \in Thread : Uses(t) /\ pc[t] \notin Here
    <2>1. NoDeleter' /\ Gone'
      BY <1>2, <1>3
    <2>2. dangling' \cap Here = {}
      BY <1>2, <1>3 DEF Uses
    <2> QED BY <1>1, <2>1, <2>2 DEF CountInv
  <1> HIDE DEF Here, NoDeleter, Gone
  <1>4. CASE PoolAlloc
    <2>1. pc[Owner] = "idle" /\ mapped /\ Touch(Owner) /\ UNCHANGED <<mnCache, mbCache>>
      BY <1>4 DEF PoolAlloc, AllocCached, AllocExhausted, state
    <2>2. mbCache
      BY <1>2, <2>1 DEF Phase
    <2>3. nDelete = 0 /\ dangling' = dangling /\ nDelete' = nDelete
      BY <1>2, <2>1, <2>2 DEF Gone, Touch, Uses
    <2>4. pc' = pc \/ pc' = [pc EXCEPT ![Owner] = "clear"]
      BY <1>4 DEF PoolAlloc, AllocCached, AllocExhausted, Goto
    <2>5. \A t \in Thread : pc'[t] = "delete" => pc[t] = "delete"
      BY <1>2, <2>4 DEF TypeOK
    <2> QED BY <1>3, <2>1, <2>3, <2>5
  <1>5. ASSUME NEW t \in Thread, PoolFree(t) \/ ListMT(t, 0) PROVE CountInv'
    <2>1. Outstanding # {}
      BY <1>5, Inside DEF PoolFree, ListMT, Fetch, Load, Cas, InFlight
    <2>2. nDelete = 0 /\ Touch(t) /\ UNCHANGED <<mnCache, mbCache>>
      BY <1>5, <2>1, StillThere, <1>2 DEF PoolFree, Free, ListMT, state
    <2>3. dangling' = dangling /\ nDelete' = nDelete
      BY <2>2 DEF Touch, Uses
    <2>4. pc' = pc \/ \E l \in {"fetch", "load", "cas", "dec", "idle"} : pc' = [pc EXCEPT ![t] = l]
      BY <1>5 DEF PoolFree, Free, ListMT, Fetch, Load, Cas, AfterRead, Goto
    <2>5. \A u \in Thread : pc'[u] = "delete" => pc[u] = "delete"
      BY <1>2, <2>4 DEF TypeOK
    <2> QED BY <1>3, <2>2, <2>3, <2>5
  <1>6. ASSUME NEW t \in Thread, FreeDec(t) PROVE CountInv'
    <2>1. Outstanding # {}
      BY <1>6, Inside DEF FreeDec, InFlight
    <2>2. nDelete = 0 /\ \A u \in Thread : pc[u] # "delete"
      BY <2>1, StillThere, <1>2
    <2>3. nDelete' = 0 /\ dangling' = dangling
      BY <1>6, <2>2 DEF FreeDec, Touch, Uses
    <2>4. \A u \in Thread : pc'[u] = "delete" => mnCache' = 0
      <3>1. mnCache' = mnCache - 1 /\ pc' = [pc EXCEPT ![t] = AfterDec(mnCache - 1)]
        BY <1>6 DEF FreeDec, Goto
      <3>2. \A u \in Thread : pc'[u] = "delete" => u = t /\ AfterDec(mnCache - 1) = "delete"
        BY <1>2, <2>2, <3>1 DEF TypeOK
      <3> QED BY <3>1, <3>2 DEF AfterDec
    <2> QED BY <1>1, <1>2, <2>3, <2>4 DEF CountInv, Here
  <1>7. ASSUME NEW t \in Thread, Delete(t) PROVE CountInv'
    <2>1. mnCache = 0 /\ ~mbCache
      BY <1>2, <1>7 DEF NoDeleter, Phase, Delete
    <2>2. UNCHANGED <<mnCache, mbCache>>
      BY <1>7 DEF Delete, state
    <2>3. dangling' \cap Here = {}
      BY <1>2, <1>7 DEF Delete, Uses, Here
    <2> QED BY <1>1, <2>1, <2>2, <2>3 DEF CountInv, Here
  <1>8. CASE ClearanceEnd
    <2>1. PICK rest \in IF nDelete = 0 THEN {mnCache - nCache} ELSE {0, 1} :
            /\ mnCache' = IF nDelete = 0 THEN rest ELSE mnCache
            /\ pc' = [pc EXCEPT ![Owner] = AfterClearance(rest)]
      BY <1>8 DEF ClearanceEnd, Goto
    <2>2. pc[Owner] = "sub" /\ Uses(Owner) /\ UNCHANGED <<nDelete, mbCache>> /\ nCache \in Nat
      BY <1>8, <1>2 DEF ClearanceEnd, TypeOK
    <2>3. dangling' \cap Here = {}
      BY <1>2, <2>2 DEF Uses, Here
    <2>4. nDelete' > 0 => mnCache' = 0 /\ ~mbCache'
      BY <1>2, <2>1, <2>2 DEF Gone
    <2>5. ASSUME NEW u \in Thread, pc'[u] = "delete" PROVE mnCache' = 0
      <3>1. CASE nDelete > 0
        BY <2>2, <2>4, <3>1
      <3>2. CASE nDelete = 0 /\ u = Owner
        <4>1. AfterClearance(rest) = "delete" /\ mnCache' = rest
          BY <1>2, <2>1, <2>5, <3>2 DEF TypeOK
        <4> QED BY <4>1 DEF AfterClearance
      <3>3. CASE nDelete = 0 /\ u # Owner
        <4>1. pc[u] = "delete" /\ mnCache' = mnCache - nCache
          BY <1>2, <2>1, <2>5, <3>3 DEF TypeOK
        <4>2. mnCache = 0
          BY <1>2, <4>1 DEF NoDeleter
        <4>3. nCache = 0
          BY <1>2, <2>2, <4>2, StillThere
        <4> QED BY <4>1, <4>2, <4>3
      <3> QED BY <1>2, <3>1, <3>2, <3>3
    <2> QED BY <1>1, <2>3, <2>4, <2>5 DEF CountInv, Here
  <1>9. CASE ClearanceBegin \/ ClearanceWalk \/ ClearanceSweep \/ Renew
    <2>1. Uses(Owner) /\ UNCHANGED <<mnCache, nDelete>> /\ pc[Owner] \notin Here
      BY <1>9 DEF ClearanceBegin, ClearanceWalk, Walk, ClearanceSweep, Sweep, Renew, Touch, state, Here
    <2>2. mbCache' => mbCache
      BY <1>9 DEF ClearanceBegin, ClearanceWalk, ClearanceSweep, Renew, state
    <2>3. \E l \in {"walk", "sweep", "sub", "idle"} : pc' = [pc EXCEPT ![Owner] = l]
      BY <1>9 DEF ClearanceBegin, ClearanceWalk, Walk, ClearanceSweep, Sweep, Renew, Goto
    <2>4. \A t \in Thread : pc'[t] = "delete" => pc[t] = "delete"
      BY <1>2, <2>3 DEF TypeOK
    <2> QED BY <1>3, <2>1, <2>2, <2>4, Constants
  <1>10. CASE ThreadExit
    <2>1. UNCHANGED <<mnCache, nDelete, mbCache, dangling>>
      BY <1>10 DEF ThreadExit, history
    <2>2. \E l \in {"clear", "exited"} : pc' = [pc EXCEPT ![Owner] = l]
      BY <1>10 DEF ThreadExit, Goto
    <2>3. \A t \in Thread : pc'[t] = "delete" => pc[t] = "delete"
      BY <1>2, <2>2 DEF TypeOK
    <2> QED BY <1>3, <2>1, <2>3
  <1>11. CASE UNCHANGED vars
    BY <1>3, <1>11 DEF vars, state, history
  <1> QED BY <1>4, <1>5, <1>6, <1>7, <1>8, <1>9, <1>10, <1>11
          DEF Next, Clearance, PoolStep, Finished

(* At most one thread deletes once Clearance has subtracted a parcel.      *)
LEMMA LoneDeleteStep ==
  ASSUME Basis, CountInv, LoneDelete, [Next]_vars
  PROVE  LoneDelete'
  <1> DEFINE Counting == {"walk", "sweep", "sub"}
             Lone == /\ \A t, u \in Thread : pc[t] = "delete" /\ pc[u] = "delete" => t = u
                     /\ nDelete > 0 => \A t \in Thread : pc[t] # "delete"
                     /\ nDelete <= 1
                     /\ dangling \subseteq {"renew"}
  <1>1. /\ nDelete = 0 => dangling = {}
        /\ nCache > 0 => pc[Owner] \in Counting
        /\ nReturned > 0 => ~mbCache /\ pc[Owner] \notin Counting /\ Lone
        /\ pc \in [Thread -> Label] /\ nDelete \in Nat /\ nCache \in Nat /\ nReturned \in Nat
        /\ TypeOK /\ Phase
    BY DEF LoneDelete, Basis, TypeOK
  <1>2. LoneDelete' <=>
          /\ nDelete' = 0 => dangling' = {}
          /\ nCache' > 0 => pc'[Owner] \in Counting
          /\ nReturned' > 0 => ~mbCache' /\ pc'[Owner] \notin Counting /\ Lone'
    BY DEF LoneDelete
  <1> HIDE DEF Counting, Lone
  <1>3. CASE /\ UNCHANGED <<nCache, nReturned, nDelete>>
             /\ mbCache' => mbCache
             /\ pc'[Owner] \in Counting <=> pc[Owner] \in Counting
             /\ \A t \in Thread : pc'[t] = "delete" => pc[t] = "delete"
             /\ dangling' = dangling
    <2>1. Lone => Lone'
      BY <1>3 DEF Lone
    <2> QED BY <1>1, <1>2, <1>3, <2>1
  <1>4. CASE PoolAlloc
    <2>1. /\ pc[Owner] = "idle" /\ mapped /\ Touch(Owner)
          /\ UNCHANGED <<nCache, nReturned, nDelete, mbCache>>
      BY <1>4 DEF PoolAlloc, AllocCached, AllocExhausted, state, Touch, clearing
    <2>2. mbCache
      BY <1>1, <2>1 DEF Phase
    <2>3. dangling' = dangling
      BY <2>1, <2>2, <1>1, Inside DEF Touch, Uses
    <2>4. pc' = pc \/ pc' = [pc EXCEPT ![Owner] = "clear"]
      BY <1>4 DEF PoolAlloc, AllocCached, AllocExhausted, Goto
    <2>5. \A t \in Thread : pc'[t] = "delete" => pc[t] = "delete"
      BY <1>1, <2>4
    <2>6. pc'[Owner] \in Counting <=> pc[Owner] \in Counting
      BY <1>1, <2>1, <2>4, Constants DEF Counting
    <2> QED BY <1>3, <2>1, <2>3, <2>5, <2>6
  <1>5. ASSUME NEW t \in Thread, PoolFree(t) \/ ListMT(t, 0) PROVE LoneDelete'
    <2>1. Outstanding # {}
      BY <1>5, Inside DEF PoolFree, ListMT, Fetch, Load, Cas, InFlight
    <2>2. nDelete = 0 /\ Touch(t) /\ UNCHANGED <<nCache, mbCache>>
      BY <1>5, <2>1, StillThere, <1>1 DEF PoolFree, Free, ListMT, Fetch, Load, Cas, state, clearing
    <2>3. dangling' = dangling /\ nDelete' = nDelete /\ nReturned' = nReturned
      BY <2>2 DEF Touch, Uses
    <2>4. \/ pc' = pc
          \/ /\ pc[t] \in {"idle", "fetch", "load", "cas"}
             /\ \E l \in {"fetch", "load", "cas", "dec", "idle"} : pc' = [pc EXCEPT ![t] = l]
      BY <1>5 DEF PoolFree, Free, ListMT, Fetch, Load, Cas, AfterRead, Goto
    <2>5. \A u \in Thread : pc'[u] = "delete" => pc[u] = "delete"
      BY <1>1, <2>4
    <2>6. pc'[Owner] \in Counting <=> pc[Owner] \in Counting
      BY <1>1, <2>4, Constants DEF Counting
    <2> QED BY <1>3, <2>2, <2>3, <2>5, <2>6
  <1>6. ASSUME NEW t \in Thread, FreeDec(t) PROVE LoneDelete'
    <2>1. Outstanding # {}
      BY <1>6, Inside DEF FreeDec, InFlight
    <2>2. nDelete = 0 /\ \A u \in Thread : pc[u] # "delete"
      BY <2>1, StillThere, <1>1
    <2>3. dangling' = {} /\ UNCHANGED <<nDelete, nCache, nReturned, mbCache>>
      BY <1>1, <1>6, <2>2 DEF FreeDec, Touch, Uses, clearing
    <2>4. pc[t] = "dec" /\ \E l \in {"delete", "idle"} : pc' = [pc EXCEPT ![t] = l]
      BY <1>6 DEF FreeDec, Goto, AfterDec
    <2>5. \A u \in Thread : pc'[u] = "delete" => u = t
      BY <1>1, <2>2, <2>4
    <2>6. pc'[Owner] \in Counting <=> pc[Owner] \in Counting
      BY <1>1, <2>4, Constants DEF Counting
    <2>7. Lone'
      BY <2>2, <2>3, <2>5 DEF Lone
    <2> QED BY <1>1, <1>2, <2>2, <2>3, <2>6, <2>7
  <1>7. ASSUME NEW t \in Thread, Delete(t) PROVE LoneDelete'
    <2>1. /\ pc[t] = "delete" /\ nDelete' = nDelete + 1 /\ Uses(t)
          /\ UNCHANGED <<nCache, nReturned, mbCache>>
          /\ \E l \in {"exited", "idle"} : pc' = [pc EXCEPT ![t] = l]
      BY <1>7 DEF Delete, clearing, state, Goto
    <2>2. pc'[Owner] \in Counting <=> pc[Owner] \in Counting
      BY <1>1, <2>1, Constants DEF Counting
    <2>3. Lone => Lone'
      <3> SUFFICES ASSUME Lone PROVE Lone'
        OBVIOUS
      <3>1. nDelete = 0 /\ \A u \in Thread : pc[u] = "delete" => u = t
        BY <1>1, <2>1 DEF Lone
      <3>2. nDelete' = 1 /\ dangling' = dangling
        BY <2>1, <3>1 DEF Uses
      <3>3. \A u \in Thread : pc'[u] # "delete"
        BY <1>1, <2>1, <3>1
      <3> QED BY <3>2, <3>3 DEF Lone
    <2> QED BY <1>1, <1>2, <2>1, <2>2, <2>3
  <1>8. CASE ClearanceBegin
    <2>1. /\ pc[Owner] = "clear" /\ pc' = [pc EXCEPT ![Owner] = "walk"]
          /\ Touch(Owner) /\ UNCHANGED <<nCache, nReturned>>
      BY <1>8 DEF ClearanceBegin, Goto, clearing, Touch
    <2>2. nReturned = 0
      BY <1>1, <2>1 DEF Phase
    <2>3. nDelete' = 0 => dangling' = {}
      BY <1>1, <2>1 DEF Touch, Uses
    <2>4. pc'[Owner] \in Counting
      BY <1>1, <2>1, Constants DEF Counting
    <2> QED BY <1>2, <2>1, <2>2, <2>3, <2>4
  <1>9. CASE ClearanceWalk \/ ClearanceSweep
    <2>1. /\ pc[Owner] \in Counting /\ Touch(Owner) /\ nReturned' = nReturned
          /\ \E l \in Counting : pc' = [pc EXCEPT ![Owner] = l]
      BY <1>9 DEF ClearanceWalk, Walk, ClearanceSweep, Sweep, Goto, Touch, Counting
    <2>2. nReturned = 0
      BY <1>1, <2>1
    <2>3. nDelete' = 0 => dangling' = {}
      BY <1>1, <2>1 DEF Touch, Uses
    <2>4. pc'[Owner] \in Counting
      BY <1>1, <2>1, Constants
    <2> QED BY <1>2, <2>1, <2>2, <2>3, <2>4
  <1>10. CASE ClearanceEnd
    <2>1. /\ pc[Owner] = "sub" /\ nReturned' = nCache /\ nCache' = 0
          /\ Uses(Owner) /\ UNCHANGED <<nDelete, mbCache>>
          /\ \E l \in {"renew", "delete", "exited"} : pc' = [pc EXCEPT ![Owner] = l]
      BY <1>10 DEF ClearanceEnd, AfterClearance, Goto
    <2>2. nDelete' = 0 => dangling' = {}
      BY <1>1, <2>1 DEF Uses
    <2>3. ~mbCache' /\ pc'[Owner] \notin Counting
      BY <1>1, <2>1, Constants DEF Phase, Counting
    <2>4. ASSUME nCache > 0 PROVE Lone'
      <3>1. nDelete = 0 /\ \A u \in Thread : pc[u] # "delete"
        BY <1>1, <2>4, StillThere
      <3>2. \A u \in Thread : pc'[u] = "delete" => u = Owner
        BY <1>1, <2>1, <3>1
      <3> QED BY <2>1, <2>2, <3>1, <3>2 DEF Lone
    <2> QED BY <1>2, <2>1, <2>2, <2>3, <2>4
  <1>11. CASE Renew
    <2>1. /\ pc[Owner] = "renew" /\ pc' = [pc EXCEPT ![Owner] = "idle"]
          /\ Touch(Owner) /\ UNCHANGED <<nCache, mbCache>>
      BY <1>11 DEF Renew, Goto, clearing
    <2>2. nDelete' = nDelete /\ nReturned' = nReturned
      BY <2>1 DEF Touch
    <2>3. pc'[Owner] \notin Counting /\ pc[Owner] \notin Counting
      BY <1>1, <2>1, Constants DEF Counting
    <2>4. \A u \in Thread : pc'[u] = "delete" => pc[u] = "delete"
      BY <1>1, <2>1
    <2>5. /\ nDelete = 0 => dangling' = {}
          /\ dangling \subseteq {"renew"} => dangling' \subseteq {"renew"}
      BY <1>1, <2>1 DEF Touch, Uses
    <2>6. Lone => Lone'
      BY <2>2, <2>4, <2>5 DEF Lone
    <2> QED BY <1>1, <1>2, <2>1, <2>2, <2>3, <2>5, <2>6
  <1>12. CASE ThreadExit
    <2>1. /\ UNCHANGED <<nCache, nReturned, nDelete, mbCache, dangling>>
          /\ pc[Owner] = "idle"
          /\ \E l \in {"clear", "exited"} : pc' = [pc EXCEPT ![Owner] = l]
      BY <1>12 DEF ThreadExit, history, clearing, Goto
    <2>2. \A t \in Thread : pc'[t] = "delete" => pc[t] = "delete"
      BY <1>1, <2>1
    <2>3. pc'[Owner] \in Counting <=> pc[Owner] \in Counting
      BY <1>1, <2>1, Constants DEF Counting
    <2> QED BY <1>3, <2>1, <2>2, <2>3
  <1>13. CASE UNCHANGED vars
    BY <1>3, <1>13 DEF vars, state, history, clearing
  <1> QED BY <1>4, <1>5, <1>6, <1>7, <1>8, <1>9, <1>10, <1>11, <1>12, <1>13
          DEF Next, Clearance, PoolStep, Finished

-----------------------------------------------------------------------------
(* Initially every parcel is on the owner's list.                          *)
LEMMA CountInit == Init => CountInv /\ LoneDelete
  <1> SUFFICES ASSUME Init PROVE CountInv /\ LoneDelete
    OBVIOUS
  <1>1. TypeOK /\ Phase /\ RingInv
    BY PoolInit
  <1>2. Where
    BY <1>1, BasisWhere DEF Basis
  <1>3. OwnList = Parcel
    <2>1. mListST[0] = [i \in 1 .. cnRevolver |-> cnRevolver + 1 - i]
      BY Constants DEF Init, CacheInit, Constructed, cnPoolParcel
    <2>2. OwnList \subseteq Parcel
      BY <1>1, Constants DEF TypeOK, OwnList, Range
    <2>3. ASSUME NEW p \in Parcel PROVE p \in OwnList
      <3>1. cnRevolver + 1 - p \in 1 .. cnRevolver /\ mListST[0][cnRevolver + 1 - p] = p
        BY <2>1, Constants, PoolAssumption DEF cnPoolParcel
      <3> QED BY <2>1, <3>1 DEF OwnList, Range
    <2> QED BY <2>2, <2>3
  <1>4. Outstanding = Parcel
    <2>1. ListedST = Parcel
      BY <1>2, <1>3 DEF Where, Init, LocalInit
    <2> QED BY <1>1, <2>1, OutstandingFinite DEF Outstanding
  <1>5. Cardinality(Parcel) = cnRevolver
    BY Constants, PoolAssumption, FS_Interval DEF cnPoolParcel
  <1>6. Accounting
    BY <1>4, <1>5, Constants DEF Accounting, Init, CacheInit, LocalInit, cnPoolParcel
  <1> QED BY <1>6, Constants DEF CountInv, LoneDelete, Init, CacheInit, LocalInit

(* IInv holds in every state of a LocalPool, for any number of parcels and *)
(* threads.                                                                *)
THEOREM Inductive == Spec => []IInv
  <1>1. Init => IInv
    BY PoolInit, ClosingInit, CountInit DEF IInv
  <1>2. IInv /\ [Next]_vars => IInv'
    <2> SUFFICES ASSUME IInv, [Next]_vars PROVE IInv'
      OBVIOUS
    <2>1. Basis /\ Basis'
      BY PoolStepRing DEF Basis, IInv
    <2>2. Closing' /\ CountInv' /\ LoneDelete'
      BY <2>1, ClosingStep, CountStep, LoneDeleteStep DEF IInv
    <2> QED BY <2>1, <2>2 DEF IInv, Basis
  <1> QED BY <1>1, <1>2, PTL DEF Spec

(* No slot of the ring ever holds two parcels: neither the chain dropped   *)
(* by Alloc nor the slot counted as one by Clearance loses a parcel.       *)
THEOREM OneParcelPerSlot == Spec => []SlotHoldsOne
  <1>1. IInv => SlotHoldsOne
    <2> SUFFICES ASSUME IInv, NEW i \in SlotIndex PROVE Len(maListMT[0][i]) <= 1
      BY Constants DEF SlotHoldsOne
    <2>1. maListMT[0][i] \in {<<>>, <<Invalid>>} \cup {<<p>> : p \in Parcel}
      BY DEF IInv, RingInv, SlotShape
    <2> DEFINE list == maListMT[0][i]
    <2>2. list = <<>> \/ \E x : list = <<x>>
      BY <2>1
    <2> HIDE DEF list
    <2>3. ASSUME list = <<>> PROVE Len(list) <= 1
      <3>1. Len(list) = 0
        BY <2>3
      <3> QED BY <3>1
    <2>4. ASSUME NEW x, list = <<x>> PROVE Len(list) <= 1
      <3>1. Len(list) = 1
        BY <2>4
      <3> QED BY <3>1
    <2>5. Len(list) <= 1
      BY <2>2, <2>3, <2>4
    <2> QED BY <2>5 DEF list
  <1> QED BY <1>1, Inductive, PTL

(* The slot a free has drawn is its own: only Clearance can make its       *)
(* compare-and-swap fail.                                                  *)
THEOREM Uncontended == Spec => []DrawnSlotIsFree
  <1>1. IInv => DrawnSlotIsFree
    BY DEF IInv, RingInv
  <1> QED BY <1>1, Inductive, PTL

(* A parcel is never in two places at a time: in the application's hands,  *)
(* in a Free under way, on the owner's list, on the ring.                  *)
THEOREM NeverTwice == Spec => []OnePlace
  <1>1. IInv => OnePlace
    <2> SUFFICES ASSUME IInv PROVE OnePlace
      OBVIOUS
    <2>1. Where /\ Apart /\ Phase
      BY BasisWhere DEF IInv, Basis, RingInv
    <2>2. ListedST \subseteq OwnList
      BY <2>1 DEF Where
    <2>3. \A t, u \in InFlight : t # u => pParcel[t] # pParcel[u]
      BY <2>1 DEF Apart, Phase, InFlight
    <2>4. live \cap (Freeing \cup ListedST \cup ListedMT) = {}
      BY <2>1, <2>2 DEF Apart, Where
    <2>5. Freeing \cap (ListedST \cup ListedMT) = {}
      BY <2>1, <2>2 DEF Apart, Where
    <2>6. ListedST \cap ListedMT = {}
      BY <2>1, <2>2 DEF Apart, Where
    <2> QED BY <2>3, <2>4, <2>5, <2>6 DEF OnePlace
  <1> QED BY <1>1, Inductive, PTL

(* mnCache counts exactly the parcels that still have to come back.        *)
THEOREM CountExact == Spec => []Accounting
  <1>1. IInv => Accounting
    BY DEF IInv, CountInv
  <1> QED BY <1>1, Inductive, PTL

(* Nobody destroys the pool under a parcel; no Alloc or Free ever touches  *)
(* a destroyed pool.                                                       *)
THEOREM DeletedIdle == Spec => []DeleteWhenIdle
  <1>1. IInv => DeleteWhenIdle
    <2> SUFFICES ASSUME IInv PROVE DeleteWhenIdle
      OBVIOUS
    <2>1. TypeOK /\ CountInv
      BY DEF IInv
    <2>2. nDelete > 0 => Outstanding = {}
      BY <2>1, StillThere DEF TypeOK
    <2> QED BY <2>1, <2>2 DEF DeleteWhenIdle, CountInv
  <1> QED BY <1>1, Inductive, PTL

(* If Clearance found a single parcel, Delete runs once at most.           *)
THEOREM DeletedOnce == Spec => []DeletedOnceIfCached
  <1>1. IInv => DeletedOnceIfCached
    <2> SUFFICES ASSUME IInv, nCache + nReturned > 0
                 PROVE  nDelete <= 1 /\ dangling \subseteq {"renew"}
      BY DEF DeletedOnceIfCached
    <2>1. TypeOK /\ CountInv /\ LoneDelete
      BY DEF IInv
    <2>2. CASE nCache > 0
      BY <2>1, <2>2, StillThere DEF LoneDelete
    <2>3. CASE nReturned > 0
      BY <2>1, <2>3 DEF LoneDelete
    <2> QED BY <2>1, <2>2, <2>3 DEF TypeOK
  <1> QED BY <1>1, Inductive, PTL

-----------------------------------------------------------------------------
(* Once closed, the pool hands nothing out and its count only falls.       *)
THEOREM StaysClosed == Spec => ClosedForGood
  <1>1. ASSUME IInv, [Next]_vars, ~mbCache
        PROVE  ~mbCache' /\ mnCache' <= mnCache /\ live' \subseteq live
    <2>1. mnCache \in Int /\ nCache \in Nat /\ Phase
      BY <1>1 DEF IInv, TypeOK
    <2>2. CASE PoolAlloc
      <3>1. ~AllocCached(0)
        BY <1>1, <2>1 DEF AllocCached, Phase
      <3> QED BY <1>1, <2>1, <2>2, <3>1 DEF PoolAlloc, AllocExhausted, state
    <2>3. CASE ClearanceEnd
      <3>1. mnCache' \in {mnCache, mnCache - nCache} /\ UNCHANGED <<mbCache, live>>
        BY <2>3 DEF ClearanceEnd
      <3> QED BY <1>1, <2>1, <3>1
    <2>4. CASE ClearanceBegin \/ ClearanceWalk \/ ClearanceSweep \/ Renew \/ ThreadExit
      BY <1>1, <2>1, <2>4
      DEF ClearanceBegin, ClearanceWalk, ClearanceSweep, Renew, ThreadExit, state
    <2>5. ASSUME NEW t \in Thread, PoolFree(t)
          PROVE  ~mbCache' /\ mnCache' <= mnCache /\ live' \subseteq live
      BY <1>1, <2>1, <2>5 DEF PoolFree, Free
    <2>6. ASSUME NEW t \in Thread, PoolStep(t)
          PROVE  ~mbCache' /\ mnCache' <= mnCache /\ live' \subseteq live
      BY <1>1, <2>1, <2>6 DEF PoolStep, ListMT, FreeDec, Delete, state
    <2>7. CASE UNCHANGED vars
      BY <1>1, <2>1, <2>7 DEF vars, state
    <2> QED BY <1>1, <2>2, <2>3, <2>4, <2>5, <2>6, <2>7 DEF Next, Clearance, Finished
  <1>2. IInv /\ [Next]_vars =>
          [~mbCache => ~mbCache' /\ mnCache' <= mnCache /\ live' \subseteq live]_vars
    BY <1>1
  <1> QED BY <1>2, Inductive, PTL DEF Spec, ClosedForGood

(* A LocalPool is an abstract allocator: a parcel has one holder at a time, *)
(* none is handed out after Clearance, and the memory is reclaimed only     *)
(* when nobody holds one.                                                   *)
THEOREM Implements == Spec => ImplementsAllocator
  <1> DEFINE abstract == <<live, mbCache, nDelete > 0>>
  <1>1. Init => A!Init
    BY DEF Init, LocalInit, A!Init
  <1>2. ASSUME IInv, [Next]_vars
        PROVE  A!Next \/ UNCHANGED abstract
    <2>1. TypeOK /\ Phase /\ CountInv /\ Basis
      BY <1>2 DEF IInv, Basis
    <2>2. CASE AllocCached(0)
      <3>1. mbCache /\ nDelete = 0 /\ UNCHANGED <<mbCache, nDelete>>
        BY <2>1, <2>2 DEF AllocCached, Phase, CountInv, Touch, TypeOK
      <3>2. CASE TakeST(0) /\ live' = live \cup {Head(mListST[0])}
        <4>1. Head(mListST[0]) \in Parcel
          BY <2>1, <3>2, TakeSTList
        <4>2. Head(mListST[0]) \in OwnList
          <5>1. mListST[0] \in Seq(Parcel) /\ mListST[0] # <<>>
            BY <2>1, <3>2, Constants DEF TypeOK, TakeST
          <5> QED BY <5>1, TailRange, <2>1 DEF OwnList, Basis, RingInv, Apart
        <4>3. Head(mListST[0]) \notin live
          BY <2>1, <4>2 DEF Basis, RingInv, Apart
        <4> QED BY <3>1, <3>2, <4>1, <4>3 DEF A!Next, A!Alloc
      <3>3. CASE TakeMT(0) /\ live' = live \cup {Head(maListMT[0][AllocSlot(0)])}
        <4>1. AllocSlot(0) \in SlotIndex
          BY <2>1, AllocSlotType
        <4>2. PICK p \in Parcel : maListMT[0][AllocSlot(0)] = <<p>>
          BY <2>1, <3>1, <3>3, <4>1 DEF Basis, RingInv, SlotShape, TakeMT
        <4>3. p \notin live /\ live' = live \cup {p}
          BY <2>1, <3>3, <4>1, <4>2 DEF Basis, RingInv, Apart
        <4> QED BY <3>1, <4>3 DEF A!Next, A!Alloc
      <3> QED BY <2>2, <3>2, <3>3 DEF AllocCached
    <2>3. ASSUME NEW t \in Thread, PoolFree(t) PROVE A!Next
      <3>1. PICK p \in live : Free(t, p, 0)
        BY <2>3 DEF PoolFree
      <3>2. p \in Parcel /\ live' = live \ {p} /\ UNCHANGED <<mbCache, nDelete>>
        BY <2>1, <3>1 DEF Free, Touch, TypeOK
      <3>3. nDelete = 0
        BY <2>1, Inside, StillThere
      <3> QED BY <3>1, <3>2, <3>3 DEF A!Next, A!Free
    <2>4. CASE ClearanceBegin
      <3>1. mbCache \in BOOLEAN /\ UNCHANGED <<live, nDelete>> /\ mbCache' = FALSE
        BY <2>1, <2>4 DEF ClearanceBegin, Touch, TypeOK
      <3> QED BY <3>1 DEF A!Next, A!Close
    <2>5. ASSUME NEW t \in Thread, Delete(t) PROVE A!Next
      <3>1. mnCache = 0 /\ ~mbCache
        BY <2>1, <2>5 DEF CountInv, Phase, Delete
      <3>2. live = {}
        BY <2>1, <3>1, Inside, StillThere
      <3>3. UNCHANGED <<live, mbCache>> /\ (nDelete > 0)' = TRUE
        BY <2>1, <2>5 DEF Delete, state, TypeOK
      <3> QED BY <3>1, <3>2, <3>3 DEF A!Next, A!Reclaim
    <2>6. CASE AllocExhausted(0) \/ ClearanceWalk \/ ClearanceSweep \/ ClearanceEnd \/ Renew \/ ThreadExit
      BY <2>6 DEF AllocExhausted, ClearanceWalk, ClearanceSweep, ClearanceEnd, Renew, ThreadExit,
                  Touch, state, history
    <2>7. ASSUME NEW t \in Thread, ListMT(t, 0) \/ FreeDec(t) PROVE UNCHANGED abstract
      BY <2>7 DEF ListMT, FreeDec, Touch, state
    <2>8. CASE UNCHANGED vars
      BY <2>8 DEF vars, state, history
    <2> QED BY <1>2, <2>2, <2>3, <2>4, <2>5, <2>6, <2>7, <2>8
            DEF Next, PoolAlloc, PoolStep, Clearance, Finished
  <1>3. IInv /\ [Next]_vars => [A!Next]_abstract
    BY <1>2
  <1> QED BY <1>1, <1>3, Inductive, PTL DEF Spec, ImplementsAllocator, A!Spec
=============================================================================
