-------------------------- MODULE LocalCram_proofs --------------------------
(***************************************************************************)
(* Proofs about LocalCram, for every number of realms, size of a realm,    *)
(* length of a ring and set of threads.                                    *)
(*                                                                         *)
(* First part: a parcel is only ever where its tag says, carved parcels    *)
(* lie apart, and no more of them are carved than a ring has slots.  The   *)
(* last is arithmetic: a parcel is longer than bitB, and the memory is     *)
(* bitB times as long as the ring.                                         *)
(*                                                                         *)
(* Second part: every carved parcel is at one place at most, the count     *)
(* mnCache is exact, nobody destroys the cram under a parcel, and the cram *)
(* implements the abstract allocator.  Parcels come from mvParcel during   *)
(* the run and go to the ring of their realm, so that the window of slots  *)
(* that are claimed is bounded by the parcels carved for that realm.       *)
(***************************************************************************)
EXTENDS LocalCram, CachedLocal_proofs

Carved == {p \in Parcel : tag[p] # NULL}

CramTypes ==
  /\ TypeOK
  /\ mvParcel \in 0 .. meParcel
  /\ tag \in [Parcel -> Realm \cup {NULL}]

(* Where the owner is while the cram is open, and once it is closed.       *)
OwnerPhase ==
  /\ pc[Owner] \notin {"fetch", "load", "cas"}
  /\ mbCache => mapped /\ pc[Owner] \in {"idle", "clear"}
  /\ ~mbCache => pc[Owner] # "clear"
  /\ ~mbCache /\ mapped => pc[Owner] \notin {"idle", "dec"}
  /\ pc[Owner] = "delete" /\ mapped => bExit
  /\ pc[Owner] = "sweep" => nSwept < cnRevolver

(* No slot is closed before the cram is.                                   *)
OpenRing ==
  mbCache => \A r \in Realm, i \in SlotIndex : Invalid \notin Range(maListMT[r][i])

(* Wherever a parcel is, it is carved, and on a list of its own realm.     *)
Filed ==
  /\ live \subseteq Carved
  /\ \A t \in Thread : pParcel[t] # NULL => pParcel[t] \in Carved
  /\ \A r \in Realm : \A p \in Range(mListST[r]) : tag[p] = r
  /\ \A r \in Realm, i \in SlotIndex : \A p \in Range(maListMT[r][i]) \ {Invalid} : tag[p] = r

(* Carved parcels lie one behind the other below mvParcel.                 *)
Laid ==
  /\ \A p \in Carved : p + Footprint(tag[p]) <= mvParcel
  /\ \A p, q \in Carved : p < q => p + Footprint(tag[p]) <= q

(* The memory that is carved bounds the number of parcels.                 *)
Bounded ==
  /\ Cardinality(Carved) * (bitB + 1) <= mvParcel
  /\ mnCache <= Cardinality(Carved)

CramInv == CramTypes /\ OwnerPhase /\ OpenRing /\ Filed /\ Laid /\ Bounded

-----------------------------------------------------------------------------
(* What the assumptions say of the constants.                              *)
LEMMA Constants ==
  /\ Realm = 0 .. cnFrac /\ cnFrac \in Nat \ {0}
  /\ bitB \in Nat \ {0}
  /\ cnRevolver \in Nat \ {0} /\ cnCounter \in Nat \ {0}
  /\ SlotIndex = 0 .. cnRevolver - 1 /\ 0 \in SlotIndex
  /\ Parcel = 0 .. meParcel - 1 /\ IsFiniteSet(Parcel)
  /\ Owner \in Thread
  /\ NULL \notin Parcel /\ Invalid \notin Parcel /\ NULL # Invalid
  BY CacheAssumption, CramAssumption DEF Realm, SlotIndex, cnFrac

(* The memory is the product of bitB and the number of slots.              *)
LEMMA Memory == meParcel \in Nat /\ meParcel = bitB * cnRevolver
  BY Constants DEF meParcel, cnCramParcel

(* A parcel takes more than bitB, whatever its realm.                      *)
LEMMA FootprintBound ==
  ASSUME NEW r \in Realm
  PROVE  Footprint(r) \in Nat /\ Footprint(r) >= bitB + 1
  <1>1. bitB \div cnFrac \in Nat
    BY Constants
  <1> DEFINE step == bitB \div cnFrac
  <1> HIDE DEF step
  <1>2. r \in Nat
    BY Constants
  <1>3. r * step \in Nat
    BY <1>1, <1>2 DEF step
  <1> QED BY <1>3, Constants DEF Footprint, step

(* There is room for the largest realm, hence for more bytes than realms:  *)
(* NULL, which is no parcel, is no realm either.                           *)
LEMMA NullRealm == NULL \notin Realm
  <1> DEFINE step == bitB \div cnFrac
  <1>1. step \in Nat /\ bitB = cnFrac * step
    BY Constants, CramAssumption
  <1> HIDE DEF step
  <1>2. bitB >= cnFrac
    <2>1. step # 0
      BY <1>1, Constants
    <2>2. cnFrac * step >= cnFrac
      BY <1>1, <2>1, Constants
    <2> QED BY <1>1, <2>2
  <1>3. Footprint(cnFrac) >= bitB + 1 /\ Footprint(cnFrac) \in Nat
    BY FootprintBound, Constants
  <1>4. cnFrac <= meParcel - 1
    BY <1>2, <1>3, CramAssumption, Constants, Memory
  <1>5. Realm \subseteq Parcel
    BY <1>4, Constants, Memory
  <1> QED BY <1>5, Constants

(* The lists are sequences of parcels, those of the ring may be closed.    *)
LEMMA ListTypes ==
  ASSUME TypeOK, NEW r \in Realm, NEW i \in SlotIndex
  PROVE  mListST[r] \in Seq(Parcel) /\ maListMT[r][i] \in Seq(Parcel \cup {Invalid})
  <1>1. mListST \in [Realm -> Seq(Parcel)]
    BY DEF TypeOK
  <1>2. maListMT \in [Realm -> [SlotIndex -> Seq(Parcel \cup {Invalid})]]
    BY DEF TypeOK
  <1>3. maListMT[r] \in [SlotIndex -> Seq(Parcel \cup {Invalid})]
    BY <1>2
  <1> QED BY <1>1, <1>3

(* Of the constants, what does not depend on sizes.                        *)
LEMMA Names ==
  /\ Owner \in Thread
  /\ NULL \notin Parcel /\ Invalid \notin Parcel /\ NULL # Invalid
  BY CacheAssumption

(* The slot to allocate from next is a slot.                               *)
LEMMA AllocSlotType ==
  ASSUME TypeOK, NEW r \in Realm
  PROVE  AllocSlot(r) \in SlotIndex
  <1>1. mRevolverAlloc[r] \in Nat
    BY DEF TypeOK
  <1> QED BY <1>1, SlotRange DEF AllocSlot

(* A thread that goes to a label leaves pc well-typed.                     *)
LEMMA GotoType ==
  ASSUME TypeOK, NEW t \in Thread, NEW l \in Label, Goto(t, l)
  PROVE  /\ pc' \in [Thread -> Label]
         /\ pc'[t] = l
         /\ \A u \in Thread \ {t} : pc'[u] = pc[u]
  <1> HIDE DEF Label
  <1> QED BY DEF TypeOK, Goto

(* Recording a use of the object keeps the record well-typed.              *)
LEMMA UsesType ==
  ASSUME TypeOK, NEW t \in Thread, Uses(t)
  PROVE  dangling' \subseteq Label
  BY DEF TypeOK, Uses

(* A parcel whose tag is a realm is carved.                                *)
LEMMA TaggedIsCarved ==
  ASSUME CramTypes, NEW p \in Parcel
  PROVE  p \in Carved <=> tag[p] \in Realm
  BY NullRealm DEF Carved, CramTypes

(* Elements of the head and the tail of a list.                            *)
LEMMA HeadTailRange ==
  ASSUME NEW S, NEW s \in Seq(S), s # <<>>
  PROVE  /\ Head(s) \in Range(s) /\ Head(s) \in S
         /\ Tail(s) \in Seq(S) /\ Range(Tail(s)) \subseteq Range(s)
  <1>1. /\ Tail(s) \in Seq(S)
        /\ Len(Tail(s)) = Len(s) - 1
        /\ Head(s) = s[1]
        /\ Len(s) \in Nat /\ Len(s) > 0
        /\ \A j \in 1 .. Len(s) - 1 : Tail(s)[j] = s[j+1]
    OBVIOUS
  <1>2. Head(s) \in Range(s) /\ Head(s) \in S
    BY <1>1 DEF Range
  <1>3. ASSUME NEW x \in Range(Tail(s)) PROVE x \in Range(s)
    <2>1. PICK j \in 1 .. Len(s) - 1 : x = s[j+1]
      BY <1>1, <1>3 DEF Range
    <2> QED BY <1>1, <2>1 DEF Range
  <1> QED BY <1>1, <1>2, <1>3

(* A new head is the only new element of a list.                           *)
LEMMA PushRange ==
  ASSUME NEW S, NEW s \in Seq(S), NEW p \in S
  PROVE  <<p>> \o s \in Seq(S) /\ Range(<<p>> \o s) = Range(s) \cup {p}
  <1> DEFINE h == <<p>>
  <1>1. h \in Seq(S) /\ Range(h) = {p}
    BY DEF Range
  <1> HIDE DEF h
  <1>2. h \o s \in Seq(S)
    BY <1>1, ConcatProperties
  <1>3. Range(h \o s) = Range(h) \cup Range(s)
    BY <1>1, RangeConcatenation
  <1> QED BY <1>1, <1>2, <1>3 DEF h

(* What an assignment to a slot of one ring does.                          *)
LEMMA SetSlot ==
  ASSUME TypeOK, NEW r \in Realm, NEW i \in SlotIndex,
         NEW list \in Seq(Parcel \cup {Invalid}),
         maListMT' = [maListMT EXCEPT ![r][i] = list]
  PROVE  /\ maListMT' \in [Realm -> [SlotIndex -> Seq(Parcel \cup {Invalid})]]
         /\ \A s \in Realm, k \in SlotIndex :
              maListMT'[s][k] = IF s = r /\ k = i THEN list ELSE maListMT[s][k]
  <1> DEFINE slots == [maListMT[r] EXCEPT ![i] = list]
  <1>1. slots \in [SlotIndex -> Seq(Parcel \cup {Invalid})]
    BY DEF TypeOK
  <1>2. maListMT' = [maListMT EXCEPT ![r] = slots]
    OBVIOUS
  <1>3. \A k \in SlotIndex : slots[k] = IF k = i THEN list ELSE maListMT[r][k]
    BY DEF TypeOK
  <1> HIDE DEF slots
  <1>4. \A s \in Realm : maListMT'[s] = IF s = r THEN slots ELSE maListMT[s]
    BY <1>2 DEF TypeOK
  <1>5. maListMT' \in [Realm -> [SlotIndex -> Seq(Parcel \cup {Invalid})]]
    BY <1>1, <1>2 DEF TypeOK
  <1> QED BY <1>3, <1>4, <1>5

(* What an assignment to one of the owner's lists does.                    *)
LEMMA SetList ==
  ASSUME TypeOK, NEW r \in Realm, NEW list \in Seq(Parcel),
         mListST' = [mListST EXCEPT ![r] = list]
  PROVE  /\ mListST' \in [Realm -> Seq(Parcel)]
         /\ \A s \in Realm : mListST'[s] = IF s = r THEN list ELSE mListST[s]
  BY DEF TypeOK

-----------------------------------------------------------------------------
(* A cram starts with nothing carved.                                      *)
LEMMA CramStart == Init => CramInv
  <1> SUFFICES ASSUME Init PROVE CramInv
    OBVIOUS
  <1> USE Constants, Memory DEF Init, CacheInit, LocalInit
  <1>1. <<>> \in Seq(Parcel) /\ <<>> \in Seq(Parcel \cup {Invalid}) /\ Range(<<>>) = {}
    BY DEF Range
  <1>2. Carved = {}
    BY DEF Carved
  <1>3. CramTypes
    <2>1. mListST \in [Realm -> Seq(Parcel)]
      BY <1>1
    <2>2. maListMT \in [Realm -> [SlotIndex -> Seq(Parcel \cup {Invalid})]]
      <3> DEFINE S == Seq(Parcel \cup {Invalid})
      <3>1. <<>> \in S
        BY <1>1
      <3> HIDE DEF S
      <3> QED BY <3>1 DEF S
    <2>3. pc \in [Thread -> Label]
      BY DEF Label
    <2>4. /\ mRevolverFree \in [Realm -> 0 .. cnCounter - 1]
          /\ mRevolverAlloc \in [Realm -> 0 .. cnRevolver]
          /\ oRevolver \in [Thread -> SlotIndex]
          /\ oCache \in Realm
      OBVIOUS
    <2>5. /\ mvParcel \in 0 .. meParcel
          /\ tag \in [Parcel -> Realm \cup {NULL}]
      OBVIOUS
    <2>6. /\ pParcel \in [Thread -> Parcel \cup {NULL}]
          /\ pListMT \in [Thread -> Parcel \cup {NULL, Invalid}]
      OBVIOUS
    <2>7. mbCache \in BOOLEAN /\ mapped \in BOOLEAN /\ bExit \in BOOLEAN
      OBVIOUS
    <2>8. /\ nCache \in Nat /\ nSwept \in 0 .. cnRevolver
          /\ mnCache \in Int /\ live \subseteq Parcel
          /\ nReturned \in Nat /\ nDelete \in Nat /\ dangling \subseteq Label
      OBVIOUS
    <2> HIDE DEF Init, CacheInit, LocalInit
    <2> QED BY ONLY <2>1, <2>2, <2>3, <2>4, <2>5, <2>6, <2>7, <2>8 DEF CramTypes, TypeOK
  <1>4. OwnerPhase /\ OpenRing /\ Filed
    BY <1>1, <1>2 DEF OwnerPhase, OpenRing, Filed
  <1>5. Laid /\ Bounded
    BY <1>2, FS_EmptySet DEF Laid, Bounded
  <1> QED BY <1>3, <1>4, <1>5 DEF CramInv

(* Types: Alloc from a list of realm r.                                    *)
LEMMA AllocCachedStep ==
  ASSUME CramInv, NEW r \in Realm, AllocCached(r), UNCHANGED <<mvParcel, tag>>
  PROVE  CramTypes' /\ OwnerPhase' /\ OpenRing' /\ Filed'
  <1> USE Names
  <1>1. CramTypes /\ TypeOK /\ OwnerPhase /\ OpenRing /\ Filed
    BY DEF CramInv, CramTypes
  <1>2. mbCache /\ Carved' = Carved
    BY <1>1 DEF AllocCached, OwnerPhase, Carved
  <1>3. /\ UNCHANGED <<pc, freeing, clearing, mbCache, mnCache, oCache, mapped, bExit>>
        /\ UNCHANGED <<mvParcel, tag, nReturned, nDelete, mRevolverFree>>
    BY DEF AllocCached, Touch, TakeST, TakeMT, ring
  <1>4. dangling' \subseteq Label
    BY <1>1, UsesType DEF AllocCached, Touch
  <1>5. CASE TakeST(r) /\ live' = live \cup {Head(mListST[r])}
    <2> DEFINE p == Head(mListST[r])
    <2>1. mListST[r] \in Seq(Parcel) /\ mListST[r] # <<>>
      BY <1>1, <1>5, ListTypes, Constants DEF TakeST
    <2>2. /\ p \in Range(mListST[r]) /\ p \in Parcel
          /\ Tail(mListST[r]) \in Seq(Parcel)
          /\ Range(Tail(mListST[r])) \subseteq Range(mListST[r])
      BY <2>1, HeadTailRange
    <2>3. /\ mListST' \in [Realm -> Seq(Parcel)]
          /\ \A s \in Realm : mListST'[s] = IF s = r THEN Tail(mListST[r]) ELSE mListST[s]
      BY <1>1, <1>5, <2>2, SetList DEF TakeST
    <2>4. p \in Carved
      BY <1>1, <2>2, TaggedIsCarved DEF Filed
    <2> HIDE DEF p
    <2>5. UNCHANGED <<maListMT, ring>> /\ live' = live \cup {p}
      BY <1>5 DEF TakeST, p
    <2>6. CramTypes'
      BY <1>1, <1>3, <1>4, <2>2, <2>3, <2>5 DEF CramTypes, TypeOK, ring, freeing, clearing
    <2>7. OwnerPhase' /\ OpenRing'
      BY <1>1, <1>3, <2>5 DEF OwnerPhase, OpenRing, clearing
    <2>8. Filed'
      <3>1. \A s \in Realm : Range(mListST'[s]) \subseteq Range(mListST[s])
        BY <2>2, <2>3
      <3> QED BY <1>1, <1>2, <1>3, <2>4, <2>5, <3>1 DEF Filed, freeing
    <2> QED BY <2>6, <2>7, <2>8
  <1>6. CASE TakeMT(r) /\ live' = live \cup {Head(maListMT[r][AllocSlot(r)])}
    <2> DEFINE a == AllocSlot(r)
               p == Head(maListMT[r][a])
    <2>1. a \in SlotIndex
      BY <1>1, AllocSlotType
    <2>2. maListMT[r][a] \in Seq(Parcel \cup {Invalid}) /\ maListMT[r][a] # <<>>
      BY <1>1, <1>6, <2>1, ListTypes DEF TakeMT
    <2>3. p \in Range(maListMT[r][a]) /\ p \in Parcel \cup {Invalid}
      BY <2>2, HeadTailRange
    <2>4. p \in Parcel
      BY <1>1, <1>2, <2>1, <2>3 DEF OpenRing
    <2>5. p \in Carved
      BY <1>1, <2>1, <2>3, <2>4, TaggedIsCarved DEF Filed
    <2>6. /\ maListMT' \in [Realm -> [SlotIndex -> Seq(Parcel \cup {Invalid})]]
          /\ \A s \in Realm, k \in SlotIndex :
               maListMT'[s][k] = IF s = r /\ k = a THEN <<>> ELSE maListMT[s][k]
      <3>1. maListMT' = [maListMT EXCEPT ![r][a] = <<>>]
        BY <1>6 DEF TakeMT, Exchanged
      <3>2. <<>> \in Seq(Parcel \cup {Invalid})
        OBVIOUS
      <3> HIDE DEF a
      <3> QED BY ZenonT(60), <1>1, <2>1, <3>1, <3>2, SetSlot
    <2>7. mRevolverAlloc' \in [Realm -> 0 .. cnRevolver]
      <3>1. Advanced(a) \in 0 .. cnRevolver
        BY <2>1, Constants DEF Advanced
      <3>2. mRevolverAlloc' = [mRevolverAlloc EXCEPT ![r] = Advanced(a)]
        BY <1>6 DEF TakeMT
      <3> QED BY <1>1, <3>1, <3>2 DEF TypeOK
    <2>8. UNCHANGED mListST /\ live' = live \cup {p}
      BY <1>6 DEF TakeMT
    <2>9. Range(<<>>) = {}
      BY DEF Range
    <2> HIDE DEF a, p
    <2>10. CramTypes'
      BY <1>1, <1>3, <1>4, <2>4, <2>6, <2>7, <2>8 DEF CramTypes, TypeOK, freeing, clearing
    <2>11. \A s \in Realm, k \in SlotIndex : Range(maListMT'[s][k]) \subseteq Range(maListMT[s][k])
      BY <2>6, <2>9
    <2>12. OwnerPhase' /\ OpenRing'
      BY <1>1, <1>3, <2>11 DEF OwnerPhase, OpenRing, clearing
    <2>13. Filed'
      BY <1>1, <1>2, <1>3, <2>5, <2>8, <2>11 DEF Filed, freeing
    <2> QED BY <2>10, <2>12, <2>13
  <1> QED BY <1>5, <1>6 DEF AllocCached

(* What is not carved starts at mvParcel: nothing that exists overlaps a   *)
(* parcel carved there, nor does its tag replace one.                      *)
LEMMA CarveFresh ==
  ASSUME CramInv, NEW r \in Realm, Fits(r)
  PROVE  mvParcel \in Parcel /\ mvParcel \notin Carved
  <1>1. CramTypes /\ Laid
    BY DEF CramInv
  <1>2. Footprint(r) \in Nat /\ Footprint(r) > 0
    BY FootprintBound, Constants
  <1>3. mvParcel \in Parcel
    BY <1>1, <1>2, Constants, Memory DEF Fits, CramTypes
  <1>4. ASSUME mvParcel \in Carved PROVE FALSE
    <2>1. tag[mvParcel] \in Realm
      BY <1>1, <1>3, <1>4, TaggedIsCarved
    <2>2. Footprint(tag[mvParcel]) \in Nat /\ Footprint(tag[mvParcel]) > 0
      BY <2>1, FootprintBound, Constants
    <2>3. mvParcel + Footprint(tag[mvParcel]) <= mvParcel
      BY <1>1, <1>4 DEF Laid
    <2> QED BY <1>1, <2>2, <2>3, Memory DEF CramTypes
  <1> QED BY <1>3, <1>4

(* Carving a parcel keeps everything: the new one lies behind the others,  *)
(* and what is not carved was nowhere.                                     *)
LEMMA AllocCarveStep ==
  ASSUME CramInv, NEW r \in Realm, AllocCarve(r)
  PROVE  CramInv'
  <1> USE Names
  <1> DEFINE n == mvParcel
             f == Footprint(r)
  <1>1. CramTypes /\ TypeOK /\ OwnerPhase /\ OpenRing /\ Filed /\ Laid /\ Bounded
    BY DEF CramInv, CramTypes
  <1>2. n \in Parcel /\ n \notin Carved
    BY CarveFresh DEF AllocCarve
  <1>3. f \in Nat /\ f >= bitB + 1
    BY FootprintBound
  <1>4. /\ mvParcel' = n + f /\ n + f <= meParcel
        /\ live' = live \cup {n} /\ mnCache' = mnCache + 1
        /\ UNCHANGED <<lists, ring, pc, freeing, clearing, mbCache, oCache, mapped, bExit>>
        /\ UNCHANGED <<nReturned, nDelete>>
    BY DEF AllocCarve, Fits, Touch
  <1>5. /\ tag' \in [Parcel -> Realm \cup {NULL}]
        /\ \A p \in Parcel : tag'[p] = IF p = n THEN r ELSE tag[p]
    BY <1>1, <1>2 DEF AllocCarve, CramTypes
  <1>6. dangling' \subseteq Label
    BY <1>1, UsesType DEF AllocCarve, Touch
  <1>7. Carved' = Carved \cup {n}
    BY <1>2, <1>5, NullRealm DEF Carved
  <1> HIDE DEF n, f
  <1>8. CramTypes'
    <2>1. mvParcel' \in 0 .. meParcel
      BY <1>1, <1>2, <1>3, <1>4, Memory, Constants
    <2>2. live' \subseteq Parcel /\ mnCache' \in Int
      BY <1>1, <1>2, <1>4 DEF TypeOK
    <2> QED BY <1>1, <1>4, <1>5, <1>6, <2>1, <2>2
            DEF CramTypes, TypeOK, lists, ring, freeing, clearing
  <1>9. OwnerPhase' /\ OpenRing'
    BY <1>1, <1>4 DEF OwnerPhase, OpenRing, lists, clearing
  <1>10. Filed'
    <2>1. ASSUME NEW s \in Realm, NEW p \in Range(mListST[s]) PROVE tag'[p] = s
      <3>1. mListST[s] \in Seq(Parcel)
        BY <1>1, <2>1, ListTypes, Constants
      <3>2. p \in Parcel
        BY <2>1, <3>1, RangeOfSeq
      <3>3. tag[p] = s
        BY <1>1, <2>1 DEF Filed
      <3> QED BY <1>1, <1>2, <1>5, <3>2, <3>3, TaggedIsCarved
    <2>2. ASSUME NEW s \in Realm, NEW k \in SlotIndex,
                 NEW p \in Range(maListMT[s][k]) \ {Invalid}
          PROVE  tag'[p] = s
      <3>1. maListMT[s][k] \in Seq(Parcel \cup {Invalid})
        BY <1>1, <2>2, ListTypes
      <3>2. p \in Parcel
        BY <2>2, <3>1, RangeOfSeq
      <3>3. tag[p] = s
        BY <1>1, <2>2 DEF Filed
      <3> QED BY <1>1, <1>2, <1>5, <3>2, <3>3, TaggedIsCarved
    <2>3. live' \subseteq Carved' /\ \A t \in Thread : pParcel'[t] # NULL => pParcel'[t] \in Carved'
      BY <1>1, <1>4, <1>7 DEF Filed, freeing
    <2> QED BY <1>4, <2>1, <2>2, <2>3 DEF Filed, lists
  <1>11. Laid'
    <2>1. \A p \in Carved : tag'[p] = tag[p] /\ p \in Parcel /\ Footprint(tag[p]) \in Nat
      BY <1>1, <1>2, <1>5, TaggedIsCarved, FootprintBound DEF Carved
    <2>2. tag'[n] = r /\ n \in Nat
      BY <1>2, <1>5, Constants, Memory
    <2>3. \A p \in Carved : p + Footprint(tag'[p]) <= n
      BY <1>1, <2>1 DEF Laid, n
    <2>4. \A p \in Carved' : p + Footprint(tag'[p]) <= mvParcel'
      BY <1>3, <1>4, <1>7, <2>1, <2>2, <2>3, Constants, Memory DEF f
    <2>5. ASSUME NEW p \in Carved', NEW q \in Carved', p < q
          PROVE  p + Footprint(tag'[p]) <= q
      <3>1. CASE p \in Carved /\ q \in Carved
        BY <1>1, <2>1, <2>5, <3>1 DEF Laid
      <3>2. CASE p \in Carved /\ q = n
        BY <2>3, <3>2
      <3>3. CASE p = n
        <4>1. q \in Carved
          BY <1>7, <2>2, <2>5, <3>3
        <4>2. q + Footprint(tag'[q]) <= n /\ Footprint(tag'[q]) \in Nat /\ q \in Nat
          BY <2>1, <2>3, <4>1, Constants, Memory
        <4> QED BY <2>2, <2>5, <3>3, <4>2
      <3> QED BY <1>7, <2>5, <3>1, <3>2, <3>3
    <2> QED BY <2>4, <2>5 DEF Laid
  <1>12. Bounded'
    <2> DEFINE c == Cardinality(Carved)
    <2>1. IsFiniteSet(Carved)
      BY FS_Subset, Constants DEF Carved
    <2>2. c \in Nat /\ Cardinality(Carved') = c + 1
      BY <1>2, <1>7, <2>1, FS_AddElement, FS_CardinalityType
    <2>3. c * (bitB + 1) <= n /\ mnCache <= c
      BY <1>1 DEF Bounded, n
    <2> HIDE DEF c
    <2>4. (c + 1) * (bitB + 1) = c * (bitB + 1) + (bitB + 1)
      BY <2>2, Constants
    <2>5. (c + 1) * (bitB + 1) <= n + f
      <3>1. c * (bitB + 1) \in Nat /\ n \in Nat
        BY <1>2, <2>2, Constants, Memory
      <3> QED BY <1>3, <2>3, <2>4, <3>1, Constants
    <2>6. mnCache' <= c + 1
      BY <1>1, <1>4, <2>2, <2>3 DEF TypeOK
    <2> QED BY <1>4, <2>2, <2>5, <2>6 DEF Bounded
  <1> QED BY <1>8, <1>9, <1>10, <1>11, <1>12 DEF CramInv

-----------------------------------------------------------------------------
(* Types: the start of Free; the owner files the parcel by its tag.        *)
LEMMA FreeStep ==
  ASSUME CramInv, NEW t \in Thread, NEW p \in live, Free(t, p, tag[p]),
         UNCHANGED <<mvParcel, tag>>
  PROVE  CramTypes' /\ OwnerPhase' /\ OpenRing' /\ Filed'
  <1> USE Names
  <1> DEFINE r == tag[p]
  <1>1. CramTypes /\ TypeOK /\ OwnerPhase /\ OpenRing /\ Filed
    BY DEF CramInv, CramTypes
  <1>2. p \in Parcel /\ p \in Carved /\ p # NULL /\ r \in Realm /\ Carved' = Carved
    <2>1. p \in Parcel /\ p \in Carved
      BY <1>1 DEF TypeOK, Filed
    <2> QED BY <1>1, <2>1, TaggedIsCarved DEF Carved
  <1>3. /\ UNCHANGED <<maListMT, ring, oRevolver, pListMT, clearing>>
        /\ UNCHANGED <<mbCache, mnCache, oCache, mapped, bExit, nReturned, nDelete>>
        /\ UNCHANGED <<mvParcel, tag>>
        /\ live' = live \ {p} /\ pc[t] = "idle"
    BY DEF Free, Touch, ListST, lists
  <1>4. dangling' \subseteq Label
    BY <1>1, UsesType DEF Free, Touch
  <1>5. /\ mListST' \in [Realm -> Seq(Parcel)]
        /\ \A s \in Realm : \A q \in Range(mListST'[s]) : tag[q] = s
    <2>1. CASE UNCHANGED mListST
      BY <1>1, <2>1 DEF TypeOK, Filed
    <2>2. CASE ListST(r, p)
      <3> DEFINE list == <<p>> \o mListST[r]
      <3>1. mListST[r] \in Seq(Parcel)
        BY <1>1, <1>2, ListTypes, Constants
      <3>2. list \in Seq(Parcel) /\ Range(list) = Range(mListST[r]) \cup {p}
        BY <1>2, <3>1, PushRange
      <3>3. mListST' = [mListST EXCEPT ![r] = list]
        BY <2>2 DEF ListST
      <3> HIDE DEF list
      <3>4. /\ mListST' \in [Realm -> Seq(Parcel)]
            /\ \A s \in Realm : mListST'[s] = IF s = r THEN list ELSE mListST[s]
        BY <1>1, <1>2, <3>2, <3>3, SetList
      <3> QED BY <1>1, <3>2, <3>4 DEF Filed
    <2> QED BY <2>1, <2>2 DEF Free, lists
  <1> HIDE DEF r
  <1>6. \/ UNCHANGED <<pc, pParcel>>
        \/ \E l \in {"fetch", "dec"} :
             /\ Goto(t, l) /\ pParcel' = [pParcel EXCEPT ![t] = p]
             /\ l = "fetch" => mbCache /\ t # Owner
             /\ l = "dec" => ~mbCache
    BY DEF Free
  <1>7. pc' \in [Thread -> Label] /\ pParcel' \in [Thread -> Parcel \cup {NULL}]
    <2>1. {"fetch", "dec"} \subseteq Label
      BY DEF Label
    <2> QED BY ZenonT(60), <1>1, <1>2, <1>6, <2>1, GotoType DEF TypeOK
  <1>8. CramTypes'
    <2>1. live' \subseteq Parcel
      BY <1>1, <1>3 DEF TypeOK
    <2> QED BY <1>1, <1>3, <1>4, <1>5, <1>7, <2>1 DEF CramTypes, TypeOK, ring, clearing
  <1>9. OwnerPhase'
    <2>1. CASE pc'[Owner] = pc[Owner]
      BY <1>1, <1>3, <2>1 DEF OwnerPhase, clearing
    <2>2. CASE pc'[Owner] # pc[Owner]
      <3>1. t = Owner /\ pc'[Owner] = "dec" /\ ~mbCache
        BY <1>1, <1>6, <2>2 DEF TypeOK, Goto
      <3> QED BY <1>1, <1>3, <3>1 DEF OwnerPhase, clearing
    <2> QED BY <2>1, <2>2
  <1>10. OpenRing'
    BY <1>1, <1>3 DEF OpenRing
  <1>11. Filed'
    <2>1. \A u \in Thread : pParcel'[u] \in {pParcel[u], p}
      BY <1>1, <1>6 DEF TypeOK
    <2> QED BY <1>1, <1>2, <1>3, <1>5, <2>1 DEF Filed
  <1> QED BY <1>8, <1>9, <1>10, <1>11

(* Types: drawing a slot, reading it, pushing on it.                       *)
LEMMA ListMTStep ==
  ASSUME CramInv, NEW t \in Thread, pParcel[t] # NULL, ListMT(t, tag[pParcel[t]]),
         UNCHANGED <<mvParcel, tag>>
  PROVE  CramTypes' /\ OwnerPhase' /\ OpenRing' /\ Filed'
  <1> USE Names
  <1> DEFINE p == pParcel[t]
             r == tag[p]
             i == oRevolver[t]
             head == Top(maListMT[r][i])
  <1>1. CramTypes /\ TypeOK /\ OwnerPhase /\ OpenRing /\ Filed
    BY DEF CramInv, CramTypes
  <1>2. p \in Parcel /\ p \in Carved /\ r \in Realm /\ i \in SlotIndex /\ Carved' = Carved
    <2>1. p \in Parcel /\ p \in Carved /\ i \in SlotIndex
      BY <1>1 DEF TypeOK, Filed
    <2> QED BY <1>1, <2>1, TaggedIsCarved DEF Carved
  <1>3. maListMT[r][i] \in Seq(Parcel \cup {Invalid})
    BY <1>1, <1>2, ListTypes
  <1>4. head \in Parcel \cup {NULL, Invalid}
    BY <1>3, HeadTailRange DEF Top
  <1>5. dangling' \subseteq Label
    BY <1>1, UsesType DEF ListMT, Touch
  <1> HIDE DEF head, i, r, p
  <1>6. /\ UNCHANGED <<mListST, mRevolverAlloc, clearing, mvParcel, tag>>
        /\ UNCHANGED <<mbCache, mnCache, oCache, live, mapped, bExit, nReturned, nDelete>>
        /\ pc[t] \in {"fetch", "load", "cas"}
    BY DEF ListMT, Fetch, Load, Cas, lists, ring, state, Touch
  <1>7. t # Owner
    BY <1>1, <1>6 DEF OwnerPhase
  <1>8. /\ pc' \in [Thread -> Label] /\ pc'[Owner] = pc[Owner]
        /\ mRevolverFree' \in [Realm -> 0 .. cnCounter - 1]
        /\ oRevolver' \in [Thread -> SlotIndex]
        /\ pParcel' \in [Thread -> Parcel \cup {NULL}]
        /\ pListMT' \in [Thread -> Parcel \cup {NULL, Invalid}]
        /\ \A u \in Thread : pParcel'[u] \in {pParcel[u], NULL}
    <2>1. {"idle", "load", "cas", "dec"} \subseteq Label /\ AfterRead(head) \in {"cas", "dec"}
      BY DEF Label, AfterRead
    <2>2. CASE Fetch(t, r)
      <3>1. Goto(t, "load") /\ UNCHANGED <<pParcel, pListMT>>
        BY <2>2 DEF Fetch
      <3>2. mRevolverFree[r] \in 0 .. cnCounter - 1
        BY <1>1, <1>2 DEF TypeOK
      <3>3. Counted(mRevolverFree[r]) \in 0 .. cnCounter - 1 /\ Slot(mRevolverFree[r]) \in SlotIndex
        BY <3>2, CountedType, SlotRange
      <3>4. /\ mRevolverFree' = [mRevolverFree EXCEPT ![r] = Counted(mRevolverFree[r])]
            /\ oRevolver' = [oRevolver EXCEPT ![t] = Slot(mRevolverFree[r])]
        BY <2>2 DEF Fetch
      <3>5. pc' \in [Thread -> Label] /\ pc'[Owner] = pc[Owner]
        BY <1>1, <1>7, <2>1, <3>1, GotoType
      <3> QED BY <1>1, <3>1, <3>3, <3>4, <3>5 DEF TypeOK
    <2>3. CASE Load(t, r)
      <3>1. /\ Goto(t, AfterRead(head)) /\ UNCHANGED <<mRevolverFree, pParcel, oRevolver>>
            /\ pListMT' = [pListMT EXCEPT ![t] = head]
        BY <2>3 DEF Load, head, i, ring
      <3>2. pc' \in [Thread -> Label] /\ pc'[Owner] = pc[Owner]
        BY <1>1, <1>7, <2>1, <3>1, GotoType
      <3> QED BY <1>1, <1>4, <3>1, <3>2 DEF TypeOK
    <2>4. CASE Cas(t, r)
      <3>1. Goto(t, "idle") \/ Goto(t, AfterRead(head))
        BY <2>4 DEF Cas, head, i
      <3>2. pc' \in [Thread -> Label] /\ pc'[Owner] = pc[Owner]
        BY <1>1, <1>7, <2>1, <3>1, GotoType
      <3>3. /\ UNCHANGED mRevolverFree
            /\ pParcel' = pParcel \/ pParcel' = [pParcel EXCEPT ![t] = NULL]
            /\ oRevolver' = oRevolver \/ oRevolver' = [oRevolver EXCEPT ![t] = 0]
            /\ pListMT' = [pListMT EXCEPT ![t] = NULL] \/ pListMT' = [pListMT EXCEPT ![t] = head]
        BY <2>4 DEF Cas, head, i, ring
      <3>4. oRevolver' \in [Thread -> SlotIndex]
        BY <1>1, <3>3, Constants DEF TypeOK
      <3> QED BY ZenonT(60), <1>1, <1>4, <3>2, <3>3, <3>4 DEF TypeOK
    <2> QED BY <2>2, <2>3, <2>4 DEF ListMT, r, p
  <1>9. /\ maListMT' \in [Realm -> [SlotIndex -> Seq(Parcel \cup {Invalid})]]
        /\ \A s \in Realm, k \in SlotIndex :
             \/ maListMT'[s][k] = maListMT[s][k]
             \/ s = r /\ Range(maListMT'[s][k]) = Range(maListMT[s][k]) \cup {p}
    <2>1. CASE UNCHANGED maListMT
      BY <1>1, <2>1 DEF TypeOK
    <2>2. CASE maListMT' # maListMT
      <3> DEFINE list == <<p>> \o maListMT[r][i]
      <3>1. maListMT' = [maListMT EXCEPT ![r][i] = list]
        BY <2>2 DEF ListMT, Fetch, Load, Cas, lists, r, p, i
      <3>2. p \in Parcel \cup {Invalid}
        BY <1>2
      <3>3. list \in Seq(Parcel \cup {Invalid}) /\ Range(list) = Range(maListMT[r][i]) \cup {p}
        BY <1>3, <3>2, PushRange
      <3> HIDE DEF list
      <3>4. /\ maListMT' \in [Realm -> [SlotIndex -> Seq(Parcel \cup {Invalid})]]
            /\ \A s \in Realm, k \in SlotIndex :
                 maListMT'[s][k] = IF s = r /\ k = i THEN list ELSE maListMT[s][k]
        BY ZenonT(60), <1>1, <1>2, <3>1, <3>3, SetSlot
      <3> QED BY <3>3, <3>4
    <2> QED BY <2>1, <2>2
  <1>10. CramTypes'
    BY <1>1, <1>5, <1>6, <1>8, <1>9 DEF CramTypes, TypeOK, clearing
  <1>11. OwnerPhase'
    BY <1>1, <1>6, <1>8 DEF OwnerPhase, clearing
  <1>12. OpenRing'
    <2> SUFFICES ASSUME mbCache', NEW s \in Realm, NEW k \in SlotIndex
                 PROVE  Invalid \notin Range(maListMT'[s][k])
      BY DEF OpenRing
    <2>1. Invalid \notin Range(maListMT[s][k])
      BY <1>1, <1>6 DEF OpenRing
    <2> QED BY ZenonT(60), <1>2, <1>9, <2>1
  <1>13. Filed'
    <2>1. ASSUME NEW s \in Realm, NEW k \in SlotIndex, NEW q \in Range(maListMT'[s][k]) \ {Invalid}
          PROVE  tag[q] = s
      <3>1. CASE q \in Range(maListMT[s][k])
        BY <1>1, <2>1, <3>1 DEF Filed
      <3>2. CASE q \notin Range(maListMT[s][k])
        <4>1. s = r /\ Range(maListMT'[s][k]) = Range(maListMT[s][k]) \cup {p}
          BY <1>9, <2>1, <3>2
        <4>2. q = p
          BY <2>1, <3>2, <4>1
        <4> QED BY <4>1, <4>2 DEF r
      <3> QED BY <3>1, <3>2
    <2>2. live' \subseteq Carved' /\ \A u \in Thread : pParcel'[u] # NULL => pParcel'[u] \in Carved'
      BY <1>1, <1>2, <1>6, <1>8 DEF Filed
    <2>3. \A s \in Realm : \A q \in Range(mListST'[s]) : tag'[q] = s
      BY <1>1, <1>6 DEF Filed
    <2> QED BY <1>6, <2>1, <2>2, <2>3 DEF Filed
  <1> QED BY <1>10, <1>11, <1>12, <1>13

(* Types: counting a parcel off.                                           *)
LEMMA FreeDecStep ==
  ASSUME CramInv, NEW t \in Thread, FreeDec(t), UNCHANGED <<mvParcel, tag>>
  PROVE  CramTypes' /\ OwnerPhase' /\ OpenRing' /\ Filed'
  <1> USE Names
  <1>1. CramTypes /\ TypeOK /\ OwnerPhase /\ OpenRing /\ Filed
    BY DEF CramInv, CramTypes
  <1>2. /\ UNCHANGED <<lists, ring, clearing, mbCache, oCache, live, mapped, bExit>>
        /\ UNCHANGED <<nReturned, nDelete, mvParcel, tag>>
        /\ mnCache' = mnCache - 1
        /\ pParcel' = [pParcel EXCEPT ![t] = NULL]
        /\ oRevolver' = [oRevolver EXCEPT ![t] = 0]
        /\ pListMT' = [pListMT EXCEPT ![t] = NULL]
        /\ pc[t] = "dec" /\ Goto(t, AfterDec(mnCache - 1))
    BY DEF FreeDec, Touch
  <1>3. dangling' \subseteq Label
    BY <1>1, UsesType DEF FreeDec, Touch
  <1>4. AfterDec(mnCache - 1) \in {"idle", "delete"}
    BY DEF AfterDec
  <1>5. /\ pc' \in [Thread -> Label] /\ pc'[t] \in {"idle", "delete"}
        /\ \A u \in Thread \ {t} : pc'[u] = pc[u]
    <2>1. {"idle", "delete"} \subseteq Label
      BY DEF Label
    <2> QED BY <1>1, <1>2, <1>4, <2>1, GotoType
  <1>6. CramTypes'
    <2>1. oRevolver' \in [Thread -> SlotIndex]
      BY <1>1, <1>2, Constants DEF TypeOK
    <2>2. mnCache - 1 \in Int
      BY <1>1 DEF TypeOK
    <2>3. pParcel' \in [Thread -> Parcel \cup {NULL}]
      BY <1>1, <1>2 DEF TypeOK
    <2>4. pListMT' \in [Thread -> Parcel \cup {NULL, Invalid}]
      BY <1>1, <1>2 DEF TypeOK
    <2>5. TypeOK'
      BY SMTT(30), <1>1, <1>2, <1>3, <1>5, <2>1, <2>2, <2>3, <2>4 DEF TypeOK, lists, ring, clearing
    <2> QED BY <1>1, <1>2, <2>5 DEF CramTypes
  <1>7. OwnerPhase'
    <2>1. CASE t = Owner
      BY <1>1, <1>2, <1>5, <2>1 DEF OwnerPhase, clearing
    <2>2. CASE t # Owner
      BY <1>1, <1>2, <1>5, <2>2 DEF OwnerPhase, clearing
    <2> QED BY <2>1, <2>2
  <1>8. OpenRing'
    BY <1>1, <1>2 DEF OpenRing, lists
  <1>9. Filed'
    BY <1>1, <1>2 DEF Filed, Carved, lists, TypeOK
  <1> QED BY <1>6, <1>7, <1>8, <1>9

(* Types: closing a slot, after which no parcel is on it.                  *)
LEMMA SweepStep ==
  ASSUME CramInv, ClearanceSweep, UNCHANGED <<mvParcel, tag>>
  PROVE  CramTypes' /\ OwnerPhase' /\ OpenRing' /\ Filed'
  <1> USE Names
  <1> DEFINE i == Slot(mRevolverAlloc[oCache] + nSwept)
             next == IF oCache = LastRealm THEN "sub" ELSE "walk"
  <1>1. CramTypes /\ TypeOK /\ OwnerPhase /\ OpenRing /\ Filed
    BY DEF CramInv, CramTypes
  <1>2. oCache \in Realm /\ i \in SlotIndex
    <2>1. oCache \in Realm /\ mRevolverAlloc[oCache] + nSwept \in Nat
      BY <1>1 DEF TypeOK
    <2> QED BY <2>1, SlotRange
  <1>3. maListMT' = [maListMT EXCEPT ![oCache][i] = <<Invalid>>]
    BY DEF ClearanceSweep, Sweep
  <1>4. pc[Owner] = "sweep" /\ ~mbCache /\ nSwept \in 0 .. cnRevolver - 1
    <2>1. pc[Owner] = "sweep"
      BY DEF ClearanceSweep, Sweep
    <2>2. nSwept \in 0 .. cnRevolver /\ nSwept < cnRevolver
      BY <1>1, <2>1 DEF OwnerPhase, TypeOK
    <2>3. ~mbCache
      BY <1>1, <2>1 DEF OwnerPhase
    <2> QED BY <2>1, <2>2, <2>3, Constants
  <1>5. /\ nCache' = nCache + CountSlot(maListMT[oCache][i]) /\ nSwept' = nSwept + 1
        /\ Goto(Owner, IF AllSwept(nSwept + 1) THEN next ELSE "sweep")
        /\ oCache' = IF AllSwept(nSwept + 1) /\ oCache < LastRealm THEN oCache + 1 ELSE oCache
        /\ UNCHANGED <<mListST, ring, freeing, mbCache, mnCache, live, mapped, bExit>>
        /\ UNCHANGED <<nReturned, nDelete, mvParcel, tag>>
    BY DEF ClearanceSweep, Sweep, Touch
  <1>6. dangling' \subseteq Label
    BY <1>1, UsesType DEF ClearanceSweep, Touch
  <1> HIDE DEF i
  <1>7. /\ maListMT' \in [Realm -> [SlotIndex -> Seq(Parcel \cup {Invalid})]]
        /\ \A s \in Realm, k \in SlotIndex :
             Range(maListMT'[s][k]) \subseteq Range(maListMT[s][k]) \cup {Invalid}
    <2> DEFINE closed == <<Invalid>>
    <2>1. closed \in Seq(Parcel \cup {Invalid}) /\ Range(closed) = {Invalid}
      BY DEF Range
    <2> HIDE DEF closed
    <2>2. maListMT' = [maListMT EXCEPT ![oCache][i] = closed]
      BY <1>3 DEF closed
    <2>3. /\ maListMT' \in [Realm -> [SlotIndex -> Seq(Parcel \cup {Invalid})]]
          /\ \A s \in Realm, k \in SlotIndex :
               maListMT'[s][k] = IF s = oCache /\ k = i THEN closed ELSE maListMT[s][k]
      BY ZenonT(60), <1>1, <1>2, <2>1, <2>2, SetSlot
    <2> QED BY <2>1, <2>3
  <1>8. /\ pc' \in [Thread -> Label] /\ pc'[Owner] \in {"sub", "walk", "sweep"}
        /\ pc'[Owner] = "sweep" => nSwept' < cnRevolver
        /\ nCache' \in Nat /\ nSwept' \in 0 .. cnRevolver /\ oCache' \in Realm
    <2>1. {"sub", "walk", "sweep"} \subseteq Label
      BY DEF Label
    <2>2. pc' \in [Thread -> Label] /\ pc'[Owner] = IF AllSwept(nSwept + 1) THEN next ELSE "sweep"
      BY <1>1, <1>5, <2>1, GotoType
    <2>3. pc'[Owner] = "sweep" => nSwept' < cnRevolver
      BY <1>4, <1>5, <2>2, Constants DEF AllSwept
    <2>4. nCache' \in Nat
      BY <1>1, <1>5 DEF CountSlot, TypeOK
    <2>5. oCache' \in Realm
      BY <1>2, <1>5, Constants DEF cnFrac
    <2> QED BY <1>4, <1>5, <2>2, <2>3, <2>4, <2>5, Constants
  <1>9. CramTypes'
    BY <1>1, <1>5, <1>6, <1>7, <1>8 DEF CramTypes, TypeOK, ring, freeing
  <1>10. OwnerPhase'
    BY <1>1, <1>4, <1>5, <1>8 DEF OwnerPhase
  <1>11. OpenRing'
    BY <1>4, <1>5 DEF OpenRing
  <1>12. Filed'
    BY <1>1, <1>5, <1>7 DEF Filed, Carved, freeing
  <1> QED BY <1>9, <1>10, <1>11, <1>12

(* Types: the steps that touch no list and no parcel.                      *)
LEMMA OtherSteps ==
  ASSUME CramInv, UNCHANGED <<mvParcel, tag>>,
         \/ \E r \in Realm : AllocExhausted(r)
         \/ ThreadExit \/ ClearanceBegin \/ ClearanceWalk \/ ClearanceEnd \/ Renew
         \/ \E t \in Thread : Delete(t)
  PROVE  CramTypes' /\ OwnerPhase' /\ OpenRing' /\ Filed'
  <1> USE Names DEF lists, ring, freeing, clearing, state, history, Touch
  <1>1. CramTypes /\ TypeOK /\ OwnerPhase /\ OpenRing /\ Filed
    BY DEF CramInv, CramTypes
  <1>2. UNCHANGED <<lists, ring, freeing, live, mvParcel, tag>> /\ (mbCache' => mbCache)
    BY DEF AllocExhausted, ThreadExit, ClearanceBegin, ClearanceWalk, Walk, ClearanceEnd,
           Renew, Delete
  <1>3. OpenRing' /\ Filed'
    BY <1>1, <1>2 DEF OpenRing, Filed, Carved
  <1>4. tag' \in [Parcel -> Realm \cup {NULL}] /\ mvParcel' \in 0 .. meParcel
    BY <1>1, <1>2 DEF CramTypes
  <1> DEFINE Counts == /\ nCache' \in Nat /\ nSwept' \in 0 .. cnRevolver /\ oCache' \in Realm
                       /\ mnCache' \in Int /\ nReturned' \in Nat /\ nDelete' \in Nat
             Flags == /\ mbCache' \in BOOLEAN /\ mapped' \in BOOLEAN /\ bExit' \in BOOLEAN
                      /\ OwnerPhase'
             Labels == pc' \in [Thread -> Label]
  <1>5. dangling' \subseteq Label
    BY <1>1, UsesType
    DEF AllocExhausted, ThreadExit, ClearanceBegin, ClearanceWalk, ClearanceEnd, Renew, Delete, TypeOK
  <1>6. CASE \E r \in Realm : AllocExhausted(r)
    <2>1. Goto(Owner, "clear") /\ pc[Owner] = "idle" /\ mapped /\ "clear" \in Label
      BY <1>6 DEF AllocExhausted, Label
    <2>2. UNCHANGED <<mbCache, mapped, bExit, nCache, nSwept, oCache, mnCache, nReturned, nDelete>>
      BY <1>6 DEF AllocExhausted
    <2>3. Labels /\ pc'[Owner] = "clear"
      BY <1>1, <2>1, GotoType
    <2> QED BY <1>1, <1>2, <1>3, <1>4, <1>5, <2>1, <2>2, <2>3 DEF CramTypes, TypeOK, OwnerPhase
  <1>7. CASE ThreadExit
    <2>1. pc[Owner] = "idle" /\ {"clear", "exited"} \subseteq Label
          /\ Goto(Owner, IF mapped THEN "clear" ELSE "exited")
      BY <1>7 DEF ThreadExit, Label
    <2>2. /\ UNCHANGED <<mbCache, mapped, nCache, nSwept, oCache, mnCache, nReturned, nDelete>>
          /\ bExit' = TRUE
      BY <1>7 DEF ThreadExit
    <2>3. Labels /\ pc'[Owner] = IF mapped THEN "clear" ELSE "exited"
      BY <1>1, <2>1, GotoType
    <2>4. Flags
      BY <1>1, <2>1, <2>2, <2>3 DEF TypeOK, OwnerPhase
    <2> QED BY <1>1, <1>2, <1>3, <1>4, <1>5, <2>2, <2>3, <2>4 DEF CramTypes, TypeOK
  <1>8. CASE ClearanceBegin
    <2>1. Goto(Owner, "walk") /\ pc[Owner] = "clear" /\ "walk" \in Label
      BY <1>8 DEF ClearanceBegin, Label
    <2>2. /\ UNCHANGED <<mapped, bExit, nCache, nSwept, oCache, mnCache, nReturned, nDelete>>
          /\ mbCache' = FALSE
      BY <1>8 DEF ClearanceBegin
    <2>3. Labels /\ pc'[Owner] = "walk"
      BY <1>1, <2>1, GotoType
    <2>4. Flags
      BY <1>1, <2>1, <2>2, <2>3 DEF TypeOK, OwnerPhase
    <2> QED BY <1>1, <1>2, <1>3, <1>4, <1>5, <2>2, <2>3, <2>4 DEF CramTypes, TypeOK
  <1>9. CASE ClearanceWalk
    <2>1. Goto(Owner, "sweep") /\ pc[Owner] = "walk" /\ "sweep" \in Label
      BY <1>9 DEF ClearanceWalk, Walk, Label
    <2>2. /\ UNCHANGED <<mbCache, mapped, bExit, oCache, mnCache, nReturned, nDelete>>
          /\ nCache' = nCache + Len(mListST[oCache]) /\ nSwept' = 0
      BY <1>9 DEF ClearanceWalk, Walk
    <2>3. Labels /\ pc'[Owner] = "sweep"
      BY <1>1, <2>1, GotoType
    <2>4. Counts
      <3>1. oCache \in Realm
        BY <1>1 DEF TypeOK
      <3>2. Len(mListST[oCache]) \in Nat
        BY <1>1, <3>1, ListTypes, Constants
      <3> QED BY <1>1, <2>2, <3>1, <3>2, Constants DEF TypeOK
    <2>5. Flags
      BY <1>1, <2>1, <2>2, <2>3, Constants DEF TypeOK, OwnerPhase
    <2> QED BY <1>1, <1>2, <1>3, <1>4, <1>5, <2>3, <2>4, <2>5 DEF CramTypes, TypeOK
  <1>10. CASE ClearanceEnd
    <2>1. PICK rest \in IF nDelete = 0 THEN {mnCache - nCache} ELSE {0, 1} :
            /\ mnCache' = IF nDelete = 0 THEN rest ELSE mnCache
            /\ Goto(Owner, AfterClearance(rest))
      BY <1>10 DEF ClearanceEnd
    <2>2. AfterClearance(rest) \in IF bExit THEN {"delete", "exited"} ELSE {"renew"}
      BY DEF AfterClearance
    <2>3. /\ UNCHANGED <<mbCache, mapped, bExit, nDelete>> /\ pc[Owner] = "sub"
          /\ nReturned' = nCache /\ nCache' = 0 /\ nSwept' = 0 /\ oCache' = 0
      BY <1>10 DEF ClearanceEnd
    <2>4. Labels /\ pc'[Owner] = AfterClearance(rest)
      <3>1. {"delete", "exited", "renew"} \subseteq Label
        BY DEF Label
      <3> QED BY <1>1, <2>1, <2>2, <3>1, GotoType
    <2>5. Counts
      BY <1>1, <2>1, <2>3, Constants DEF TypeOK
    <2>6. Flags
      BY <1>1, <2>2, <2>3, <2>4 DEF TypeOK, OwnerPhase
    <2> QED BY <1>1, <1>2, <1>3, <1>4, <1>5, <2>4, <2>5, <2>6 DEF CramTypes, TypeOK
  <1>11. CASE Renew
    <2>1. Goto(Owner, "idle") /\ pc[Owner] = "renew" /\ "idle" \in Label
      BY <1>11 DEF Renew, Label
    <2>2. /\ UNCHANGED <<mbCache, bExit, nCache, nSwept, oCache, mnCache, nReturned, nDelete>>
          /\ mapped' = FALSE
      BY <1>11 DEF Renew
    <2>3. Labels /\ pc'[Owner] = "idle"
      BY <1>1, <2>1, GotoType
    <2>4. Flags
      BY <1>1, <2>1, <2>2, <2>3 DEF TypeOK, OwnerPhase
    <2> QED BY <1>1, <1>2, <1>3, <1>4, <1>5, <2>2, <2>3, <2>4 DEF CramTypes, TypeOK
  <1>12. ASSUME NEW t \in Thread, Delete(t) PROVE CramTypes' /\ OwnerPhase'
    <2> DEFINE l == IF t = Owner /\ bExit THEN "exited" ELSE "idle"
    <2>1. Goto(t, l) /\ pc[t] = "delete" /\ l \in Label
      BY <1>12 DEF Delete, Label
    <2>2. /\ UNCHANGED <<mbCache, mapped, bExit, nCache, nSwept, oCache, mnCache, nReturned>>
          /\ nDelete' = nDelete + 1
      BY <1>12 DEF Delete
    <2>3. Labels /\ pc'[t] = l /\ \A u \in Thread \ {t} : pc'[u] = pc[u]
      BY <1>1, <2>1, GotoType
    <2>4. Counts
      BY <1>1, <2>2 DEF TypeOK
    <2>5. Flags
      <3>1. CASE t = Owner
        BY <1>1, <2>1, <2>2, <2>3, <3>1 DEF TypeOK, OwnerPhase
      <3>2. CASE t # Owner
        BY <1>1, <2>2, <2>3, <3>2 DEF TypeOK, OwnerPhase
      <3> QED BY <3>1, <3>2
    <2> QED BY <1>1, <1>2, <1>3, <1>4, <1>5, <2>3, <2>4, <2>5 DEF CramTypes, TypeOK
  <1> QED BY <1>3, <1>6, <1>7, <1>8, <1>9, <1>10, <1>11, <1>12

-----------------------------------------------------------------------------
(* As long as nothing is carved, where the parcels lie does not change and *)
(* the count only falls.                                                   *)
LEMMA LaidKept ==
  ASSUME CramInv, UNCHANGED <<mvParcel, tag>>, mnCache' \in Int, mnCache' <= mnCache
  PROVE  Laid' /\ Bounded'
  <1>1. Laid /\ Bounded /\ mnCache \in Int /\ Carved' = Carved
    BY DEF CramInv, CramTypes, TypeOK, Carved
  <1>2. Cardinality(Carved) \in Nat
    BY FS_Subset, FS_CardinalityType, Constants DEF Carved
  <1> QED BY <1>1, <1>2 DEF Laid, Bounded

(* Every step of a cram keeps the invariant.                               *)
LEMMA CramKeeps == CramInv /\ [Next]_cramVars => CramInv'
  <1> SUFFICES ASSUME CramInv, [Next]_cramVars PROVE CramInv'
    OBVIOUS
  <1> DEFINE Kept == CramTypes' /\ OwnerPhase' /\ OpenRing' /\ Filed'
             Quiet == UNCHANGED <<mvParcel, tag>> /\ mnCache' <= mnCache
  <1>1. mnCache \in Int /\ nCache \in Nat /\ live \subseteq Parcel
    BY DEF CramInv, CramTypes, TypeOK
  <1>2. ASSUME NEW r \in Realm, CramAlloc(r) PROVE CramInv' \/ (Kept /\ Quiet)
    <2>1. CASE AllocCarve(r)
      BY <2>1, AllocCarveStep
    <2>2. CASE AllocCached(r) /\ UNCHANGED <<mvParcel, tag>>
      BY <1>1, <2>2, AllocCachedStep DEF AllocCached
    <2>3. CASE AllocExhausted(r) /\ UNCHANGED <<mvParcel, tag>>
      BY <1>1, <2>3, OtherSteps DEF AllocExhausted, state
    <2> QED BY <1>2, <2>1, <2>2, <2>3 DEF CramAlloc
  <1>3. ASSUME CramClearance PROVE Kept /\ Quiet
    <2>1. CASE ClearanceSweep
      BY <1>1, <1>3, <2>1, SweepStep DEF CramClearance, ClearanceSweep
    <2>2. CASE ClearanceEnd
      <3>1. mnCache' \in {mnCache, mnCache - nCache}
        BY <2>2 DEF ClearanceEnd
      <3> QED BY <1>1, <1>3, <2>2, <3>1, OtherSteps DEF CramClearance
    <2>3. CASE ClearanceBegin \/ ClearanceWalk \/ Renew
      <3>1. UNCHANGED mnCache
        BY <2>3 DEF ClearanceBegin, ClearanceWalk, Renew, state
      <3>2. UNCHANGED <<mvParcel, tag>>
        BY <1>3 DEF CramClearance
      <3> QED BY <1>1, <2>3, <3>1, <3>2, OtherSteps
    <2> QED BY <1>3, <2>1, <2>2, <2>3 DEF CramClearance, Clearance
  <1>4. ASSUME CramExit PROVE Kept /\ Quiet
    BY <1>1, <1>4, OtherSteps DEF CramExit, ThreadExit
  <1>5. ASSUME NEW t \in Thread, CramFree(t) PROVE Kept /\ Quiet
    BY <1>1, <1>5, FreeStep DEF CramFree, Free
  <1>6. ASSUME NEW t \in Thread, CramStep(t) PROVE Kept /\ Quiet
    <2>1. CASE pParcel[t] # NULL /\ ListMT(t, tag[pParcel[t]])
      BY <1>1, <1>6, <2>1, ListMTStep DEF CramStep, ListMT, state
    <2>2. CASE FreeDec(t)
      <3>1. mnCache' = mnCache - 1
        BY <2>2 DEF FreeDec
      <3>2. UNCHANGED <<mvParcel, tag>>
        BY <1>6 DEF CramStep
      <3> QED BY <1>1, <2>2, <3>1, <3>2, FreeDecStep
    <2>3. CASE Delete(t)
      <3>1. UNCHANGED <<mnCache, mvParcel, tag>>
        BY <1>6, <2>3 DEF CramStep, Delete, state
      <3> QED BY <1>1, <2>3, <3>1, OtherSteps
    <2> QED BY <1>6, <2>1, <2>2, <2>3 DEF CramStep
  <1>7. CASE UNCHANGED cramVars
    BY <1>7 DEF cramVars, vars, lists, ring, freeing, clearing, state, history,
                CramInv, CramTypes, TypeOK, OwnerPhase, OpenRing, Filed, Laid, Bounded, Carved
  <1>8. ASSUME Kept, Quiet PROVE CramInv'
    <2>1. mnCache' \in Int
      BY <1>8 DEF CramTypes, TypeOK
    <2> QED BY <1>8, <2>1, LaidKept DEF CramInv
  <1> QED BY <1>2, <1>3, <1>4, <1>5, <1>6, <1>7, <1>8 DEF Next, Finished, cramVars

-----------------------------------------------------------------------------
(* A parcel that is out is carved, whichever way it is out.                *)
LEMMA OutIsCarved == CramInv => Outstanding \subseteq Carved
  <1> SUFFICES ASSUME CramInv, NEW p \in Outstanding PROVE p \in Carved
    OBVIOUS
  <1>1. CramTypes /\ Filed
    BY DEF CramInv
  <1>2. CASE p \in live
    BY <1>1, <1>2 DEF Filed
  <1>3. CASE p \in Freeing
    BY <1>1, <1>3, Names DEF Filed, Freeing, InFlight
  <1>4. CASE p \in ListedST
    BY <1>1, <1>4, TaggedIsCarved DEF Filed, ListedST
  <1>5. CASE p \in ListedMT
    BY <1>1, <1>5, TaggedIsCarved, Names DEF Filed, ListedMT
  <1> QED BY <1>2, <1>3, <1>4, <1>5 DEF Outstanding

(* No more parcels are carved than a ring has slots: a parcel is longer    *)
(* than bitB, and the memory is bitB times as long as the ring.            *)
LEMMA CarvedCount ==
  ASSUME CramInv
  PROVE  /\ IsFiniteSet(Carved)
         /\ Cardinality(Carved) \in 0 .. cnRevolver
  <1> DEFINE c == Cardinality(Carved)
  <1>1. CramTypes /\ Bounded
    BY DEF CramInv
  <1>2. IsFiniteSet(Carved) /\ c \in Nat
    BY FS_Subset, FS_CardinalityType, Constants DEF Carved
  <1>3. c * (bitB + 1) <= bitB * cnRevolver
    <2>1. c * (bitB + 1) \in Nat
      BY <1>2, Constants
    <2> QED BY <1>1, <2>1, Memory DEF Bounded, CramTypes
  <1> HIDE DEF c
  <1>4. c <= cnRevolver
    <2> SUFFICES ASSUME c > cnRevolver PROVE FALSE
      BY <1>2, Constants
    <2>1. c * (bitB + 1) = c * bitB + c
      BY <1>2, Constants
    <2>2. c * bitB >= cnRevolver * bitB /\ c * bitB \in Nat /\ cnRevolver * bitB \in Nat
      BY <1>2, Constants
    <2> QED BY <1>2, <1>3, <2>1, <2>2, Constants
  <1> QED BY <1>2, <1>4, Constants DEF c

(* The invariant holds.                                                    *)
THEOREM CramInductive == Spec => []CramInv
  BY CramStart, CramKeeps, PTL DEF Spec

(* LocalCram: every variable has its type, the ring's counters included.   *)
THEOREM CramTypeCorrect == Spec => []TypeOK
  <1>1. CramInv => TypeOK
    BY DEF CramInv, CramTypes
  <1> QED BY <1>1, CramInductive, PTL

(* LocalCram::Alloc never hands out less memory than was asked for: carved *)
(* parcels are disjoint, lie below meParcel, and wherever a parcel is      *)
(* listed its realm is that of the list.                                   *)
THEOREM CarvedApart == Spec => []ParcelsApart
  <1>1. CramInv => ParcelsApart
    <2> SUFFICES ASSUME CramInv PROVE ParcelsApart
      OBVIOUS
    <2>1. CramTypes /\ Filed /\ Laid
      BY DEF CramInv
    <2>2. mvParcel <= meParcel
      BY <2>1, Memory DEF CramTypes
    <2> QED BY <2>1, <2>2, OutIsCarved DEF ParcelsApart, Filed, Laid, Carved
  <1> QED BY <1>1, CramInductive, PTL

(* LocalCram::Alloc: no more parcels are carved than a ring has slots,     *)
(* which the code asserts and never tests, and neither does mnCache pass   *)
(* it: the memory for one more is not there.                               *)
THEOREM CarvedFit == Spec => []CarvedFitsRing
  <1>1. CramInv => CarvedFitsRing
    <2> SUFFICES ASSUME CramInv PROVE CarvedFitsRing
      OBVIOUS
    <2>1. Cardinality(Carved) \in 0 .. cnRevolver /\ mnCache <= Cardinality(Carved) /\ mnCache \in Int
      BY CarvedCount DEF CramInv, CramTypes, TypeOK, Bounded
    <2> QED BY <2>1, Constants DEF CarvedFitsRing, cnCramParcel, Carved
  <1> QED BY <1>1, CramInductive, PTL

-----------------------------------------------------------------------------
(* Second part: the ring of every realm, where the parcels are, and the    *)
(* count mnCache.                                                          *)

(* What the place of a thread says, beyond OwnerPhase.                     *)
Stations ==
  /\ \A t \in Thread \ {Owner} : pc[t] \in {"idle", "fetch", "load", "cas", "dec", "delete"}
  /\ \A t \in Thread : pc[t] \in {"dec", "delete"} => ~mbCache
  /\ \A t \in Thread : pParcel[t] # NULL <=> t \in InFlight
  /\ mbCache => oCache = 0

(* Where a carved parcel can be besides the application's hands: in the    *)
(* frees that hold it, on the owner's list of its realm, on the slots of   *)
(* the ring of its realm.                                                  *)
Holders(p) == {t \in Thread : pParcel[t] = p}
Listed(p) == p \in Range(mListST[tag[p]])
Slots(p) == {i \in SlotIndex : maListMT[tag[p]][i] = <<p>>}

(* It is at one of these at most.                                          *)
AtOne(inHand, holders, listed, slots) ==
  /\ inHand => holders = {} /\ ~listed /\ slots = {}
  /\ holders # {} => ~listed /\ slots = {}
  /\ listed => slots = {}
  /\ \A t, u \in holders : t = u
  /\ \A i, k \in slots : i = k

Once(list) == \A j, k \in 1 .. Len(list) : list[j] = list[k] => j = k

Apart ==
  /\ \A r \in Realm : Once(mListST[r])
  /\ \A p \in Carved : AtOne(p \in live, Holders(p), Listed(p), Slots(p))

(* Parcels of a realm, and those of them that have no slot of its ring     *)
(* yet; the slots that are occupied or drawn.                              *)
CarvedIn(r) == {p \in Carved : tag[p] = r}

Fetching(p) == \E t \in Holders(p) : pc[t] = "fetch"

Waiting(p) == p \in live \/ Listed(p) \/ Fetching(p)

Unclaimed(r) == {p \in CarvedIn(r) : Waiting(p)}

Drawing(r) == {t \in Thread : pc[t] \in {"load", "cas"} /\ tag[pParcel[t]] = r}

Single == {<<p>> : p \in Parcel}

Claimed(r) == {i \in SlotIndex : maListMT[r][i] \in Single} \cup {oRevolver[t] : t \in Drawing(r)}

(* How far behind slot a slot i is.                                        *)
Offset(a, i) == IF i >= a THEN i - a ELSE i - a + cnRevolver

(* The claimed slots are among the c slots from a, where Alloc takes the   *)
(* next parcel, up to f, which the next free draws, and of the m parcels   *)
(* that exist n are without a slot.                                        *)
Window(c, a, f, claimed, n, m) ==
  /\ f = IF a + c < cnRevolver THEN a + c ELSE a + c - cnRevolver
  /\ c + n <= m
  /\ \A i \in claimed : Offset(a, i) < c

HasWindow(a, f, claimed, n, m) ==
  \E c \in 0 .. cnRevolver : Window(c, a, f, claimed, n, m)

Closed == <<Invalid>>

(* A slot is empty, closed, or holds a single parcel; one that is drawn    *)
(* holds none, and is drawn by one free only.                              *)
RingShape(r) ==
  /\ \A i \in SlotIndex : maListMT[r][i] \in {<<>>, Closed} \cup Single
  /\ \A t \in Drawing(r) :
       /\ maListMT[r][oRevolver[t]] \in {<<>>, Closed}
       /\ pc[t] = "cas" => pListMT[t] = NULL
  /\ \A t, u \in Drawing(r) : oRevolver[t] = oRevolver[u] => t = u

RingWindow(r) ==
  HasWindow(AllocSlot(r), Slot(mRevolverFree[r]), Claimed(r),
            Cardinality(Unclaimed(r)), Cardinality(CarvedIn(r)))

Rings == \A r \in Realm : RingShape(r) /\ RingWindow(r)

(* Clearance closes the slots of one realm after the other, each of them   *)
(* once, in the order in which they would have been allocated from.        *)
Closing ==
  \A r \in Realm, i \in SlotIndex : maListMT[r][i] = Closed /\ Sweeping =>
    \/ r < oCache
    \/ r = oCache /\ pc[Owner] = "sweep" /\ Offset(AllocSlot(r), i) < nSwept

(* Whoever is about to delete, or has deleted, found the count at zero.    *)
CountInv ==
  /\ Accounting
  /\ \A t \in Thread : pc[t] = "delete" => mnCache = 0
  /\ nDelete > 0 => mnCache = 0 /\ ~mbCache
  /\ dangling \cap {"idle", "fetch", "load", "cas", "dec"} = {}

Basis == CramInv /\ Stations /\ Apart /\ Rings

CountedInv == Basis /\ Closing /\ CountInv

-----------------------------------------------------------------------------
(* Offsets run from 0 to cnRevolver - 1.                                   *)
LEMMA OffsetRange ==
  ASSUME NEW a \in SlotIndex, NEW i \in SlotIndex
  PROVE  Offset(a, i) \in 0 .. cnRevolver - 1
  BY Constants DEF Offset

(* A free draws the slot behind the window, which nobody claims: as long   *)
(* as a parcel is without a slot the window is shorter than the ring.      *)
LEMMA WindowDraw ==
  ASSUME NEW a \in SlotIndex, NEW f \in SlotIndex, NEW claimed \in SUBSET SlotIndex,
         NEW n \in Nat \ {0}, NEW m \in 0 .. cnRevolver,
         HasWindow(a, f, claimed, n, m)
  PROVE  /\ f \notin claimed
         /\ HasWindow(a, IF f = cnRevolver - 1 THEN 0 ELSE f + 1, claimed \cup {f}, n - 1, m)
  <1> USE Constants
  <1>1. PICK c \in 0 .. cnRevolver : Window(c, a, f, claimed, n, m)
    BY DEF HasWindow
  <1>2. c < cnRevolver /\ c \in Nat
    BY <1>1 DEF Window
  <1>3. Offset(a, f) = c
    BY <1>1, <1>2 DEF Window, Offset
  <1>4. f \notin claimed
    BY <1>1, <1>2, <1>3 DEF Window
  <1>5. ASSUME NEW i \in claimed \cup {f} PROVE Offset(a, i) < c + 1
    <2>1. Offset(a, i) \in 0 .. cnRevolver - 1
      BY OffsetRange
    <2>2. i = f \/ Offset(a, i) < c
      BY <1>1 DEF Window
    <2> QED BY <1>2, <1>3, <2>1, <2>2
  <1>6. Window(c + 1, a, IF f = cnRevolver - 1 THEN 0 ELSE f + 1, claimed \cup {f}, n - 1, m)
    BY <1>1, <1>2, <1>5 DEF Window
  <1> QED BY <1>2, <1>4, <1>6 DEF HasWindow

(* Alloc takes the first slot of the window off it.                        *)
LEMMA WindowTake ==
  ASSUME NEW a \in SlotIndex, NEW f \in SlotIndex, NEW claimed \in SUBSET SlotIndex,
         NEW n \in Nat, NEW m \in Nat, a \in claimed,
         HasWindow(a, f, claimed, n, m)
  PROVE  HasWindow(IF a = cnRevolver - 1 THEN 0 ELSE a + 1, f, claimed \ {a}, n + 1, m)
  <1> USE Constants
  <1> DEFINE b == IF a = cnRevolver - 1 THEN 0 ELSE a + 1
  <1>1. PICK c \in 0 .. cnRevolver : Window(c, a, f, claimed, n, m)
    BY DEF HasWindow
  <1>2. Offset(a, a) = 0
    BY DEF Offset
  <1>3. c >= 1 /\ c \in Nat
    BY <1>1, <1>2 DEF Window
  <1>4. \A i \in SlotIndex \ {a} : Offset(b, i) = Offset(a, i) - 1
    BY DEF Offset
  <1>5. ASSUME NEW i \in claimed \ {a} PROVE Offset(b, i) < c - 1
    <2>1. Offset(a, i) \in 0 .. cnRevolver - 1
      BY OffsetRange
    <2>2. Offset(a, i) < c
      BY <1>1 DEF Window
    <2>3. Offset(b, i) = Offset(a, i) - 1
      BY <1>4
    <2> HIDE DEF b
    <2> QED BY <1>3, <2>1, <2>2, <2>3
  <1>6. f = IF b + (c - 1) < cnRevolver THEN b + (c - 1) ELSE b + (c - 1) - cnRevolver
    BY <1>1, <1>3 DEF Window
  <1> HIDE DEF b
  <1>7. Window(c - 1, b, f, claimed \ {a}, n + 1, m)
    BY <1>1, <1>3, <1>5, <1>6 DEF Window
  <1> QED BY <1>3, <1>7 DEF HasWindow, b

(* A window does for fewer slots, and for fewer parcels without one or for *)
(* more parcels in all.                                                    *)
LEMMA WindowLess ==
  ASSUME NEW a, NEW f, NEW claimed, NEW fewer \in SUBSET claimed,
         NEW n \in Nat, NEW m \in Nat, NEW k \in Nat, NEW l \in Nat,
         k + m <= n + l,
         HasWindow(a, f, claimed, n, m)
  PROVE  HasWindow(a, f, fewer, k, l)
  <1>1. PICK c \in 0 .. cnRevolver : Window(c, a, f, claimed, n, m)
    BY DEF HasWindow
  <1>2. c + k <= l
    <2>1. c \in Nat /\ c + n <= m
      BY <1>1, Constants DEF Window
    <2> QED BY <2>1
  <1>3. Window(c, a, f, fewer, k, l)
    BY <1>1, <1>2 DEF Window
  <1> QED BY <1>3 DEF HasWindow

-----------------------------------------------------------------------------
(* The parcels of a realm, and those without a slot, are finitely many.    *)
LEMMA RealmCounts ==
  ASSUME CramInv, NEW r \in Realm
  PROVE  /\ IsFiniteSet(CarvedIn(r)) /\ IsFiniteSet(Unclaimed(r))
         /\ Cardinality(CarvedIn(r)) \in 0 .. cnRevolver
         /\ Cardinality(Unclaimed(r)) \in Nat
  <1>1. IsFiniteSet(Carved) /\ Cardinality(Carved) \in 0 .. cnRevolver
    BY CarvedCount
  <1>2. CarvedIn(r) \subseteq Carved
    BY DEF CarvedIn
  <1>3. /\ IsFiniteSet(CarvedIn(r)) /\ Cardinality(CarvedIn(r)) <= Cardinality(Carved)
        /\ Cardinality(CarvedIn(r)) \in Nat
    BY <1>1, <1>2, FS_Subset, FS_CardinalityType
  <1>4. Unclaimed(r) \subseteq CarvedIn(r)
    BY DEF Unclaimed
  <1>5. IsFiniteSet(Unclaimed(r)) /\ Cardinality(Unclaimed(r)) \in Nat
    BY <1>3, <1>4, FS_Subset, FS_CardinalityType
  <1> QED BY <1>1, <1>3, <1>5, Constants

(* Being at one place at most is inherited by less.                        *)
LEMMA AtOneLess ==
  ASSUME NEW inHand, NEW holders, NEW listed, NEW slots,
         AtOne(inHand, holders, listed, slots),
         NEW inHand2, NEW holders2, NEW listed2, NEW slots2,
         inHand2 => inHand, holders2 \subseteq holders, listed2 => listed, slots2 \subseteq slots
  PROVE  AtOne(inHand2, holders2, listed2, slots2)
  BY DEF AtOne

-----------------------------------------------------------------------------
(* A step of thread t leaves what the other threads keep alone, and one    *)
(* that moves parcel p leaves the other parcels where they are.            *)
Acts(t) ==
  \A u \in Thread \ {t} :
    /\ pc'[u] = pc[u] /\ pParcel'[u] = pParcel[u]
    /\ oRevolver'[u] = oRevolver[u] /\ pListMT'[u] = pListMT[u]

Others(p) ==
  \A q \in Parcel \ {p} :
    /\ tag'[q] = tag[q]
    /\ q \in live' <=> q \in live
    /\ q \in Carved =>
         /\ Holders(q)' = Holders(q)
         /\ Fetching(q)' <=> Fetching(q)
         /\ Listed(q)' <=> Listed(q)
         /\ Slots(q)' = Slots(q)

(* A thread that lets go of p or takes it holds no other parcel.           *)
LEMMA HoldersKept ==
  ASSUME NEW t \in Thread, NEW p, Acts(t),
         pParcel[t] \in {NULL, p}, pParcel'[t] \in {NULL, p},
         NEW q \in Parcel \ {p}
  PROVE  Holders(q)' = Holders(q) /\ (Fetching(q)' <=> Fetching(q))
  <1>1. q # NULL
    BY Names
  <1>2. \A u \in Thread : (pParcel'[u] = q <=> pParcel[u] = q) /\ (pParcel[u] = q => u # t)
    BY <1>1 DEF Acts
  <1>3. Holders(q)' = Holders(q)
    BY <1>2 DEF Holders
  <1>4. \A u \in Holders(q) : pc'[u] = pc[u]
    BY <1>2 DEF Holders, Acts
  <1> QED BY <1>3, <1>4 DEF Fetching

(* What a step says of variables when it moves nothing but p.              *)
LEMMA OthersKept ==
  ASSUME CramTypes, NEW t \in Thread, NEW p, Acts(t),
         pParcel[t] \in {NULL, p}, pParcel'[t] \in {NULL, p},
         \A q \in Parcel \ {p} : tag'[q] = tag[q],
         \A q \in Parcel \ {p} : q \in live' <=> q \in live,
         \A r \in Realm : \A q \in Parcel \ {p} : q \in Range(mListST'[r]) <=> q \in Range(mListST[r]),
         \A r \in Realm, i \in SlotIndex : \A q \in Parcel \ {p} :
           maListMT'[r][i] = <<q>> <=> maListMT[r][i] = <<q>>
  PROVE  Others(p)
  <1> SUFFICES ASSUME NEW q \in Parcel \ {p}, q \in Carved
               PROVE  /\ Holders(q)' = Holders(q)
                      /\ Fetching(q)' <=> Fetching(q)
                      /\ Listed(q)' <=> Listed(q)
                      /\ Slots(q)' = Slots(q)
    BY DEF Others
  <1>1. tag[q] \in Realm /\ tag'[q] = tag[q]
    BY TaggedIsCarved
  <1>2. Listed(q)' <=> Listed(q)
    BY <1>1 DEF Listed
  <1>3. Slots(q)' = Slots(q)
    BY <1>1 DEF Slots
  <1> QED BY <1>2, <1>3, HoldersKept

(* All parcels stay apart when the one that moves is at one place.         *)
LEMMA ApartKept ==
  ASSUME Apart, NEW p, Others(p),
         p \in Carved' => AtOne(p \in live, Holders(p), Listed(p), Slots(p))',
         \A r \in Realm : Once(mListST'[r])
  PROVE  Apart'
  <1> SUFFICES ASSUME NEW q \in Carved' PROVE AtOne(q \in live, Holders(q), Listed(q), Slots(q))'
    BY DEF Apart
  <1>1. CASE q = p
    BY <1>1
  <1>2. CASE q # p
    <2>1. q \in Carved /\ q \in Parcel \ {p}
      BY <1>2 DEF Others, Carved
    <2>2. AtOne(q \in live, Holders(q), Listed(q), Slots(q))
      BY <2>1 DEF Apart
    <2>3. /\ q \in live' <=> q \in live
          /\ Holders(q)' = Holders(q)
          /\ Listed(q)' <=> Listed(q)
          /\ Slots(q)' = Slots(q)
      BY <2>1 DEF Others
    <2>4. AtOne(q \in live', Holders(q)', Listed(q)', Slots(q)')
      BY <2>2, <2>3, AtOneLess
    <2> QED BY <2>4 DEF AtOne
  <1> QED BY <1>1, <1>2

(* The realms keep their parcels, and those without a slot, but for p.     *)
LEMMA RealmKept ==
  ASSUME NEW p, Others(p), NEW s \in Realm
  PROVE  /\ CarvedIn(s)' \ {p} = CarvedIn(s) \ {p}
         /\ Unclaimed(s)' \ {p} = Unclaimed(s) \ {p}
  <1>1. \A q \in Parcel \ {p} : q \in CarvedIn(s)' <=> q \in CarvedIn(s)
    BY DEF Others, CarvedIn, Carved
  <1>2. CarvedIn(s)' \ {p} = CarvedIn(s) \ {p}
    BY <1>1 DEF CarvedIn, Carved
  <1>3. \A q \in CarvedIn(s) \ {p} : Waiting(q)' <=> Waiting(q)
    BY DEF Others, CarvedIn, Carved, Waiting
  <1>4. Unclaimed(s)' \ {p} = Unclaimed(s) \ {p}
    BY <1>2, <1>3 DEF Unclaimed
  <1> QED BY <1>2, <1>4

(* The threads other than t go on drawing as they did.                     *)
LEMMA DrawingKept ==
  ASSUME CramInv, Stations, NEW t \in Thread, Acts(t),
         \A q \in Carved : tag'[q] = tag[q],
         NEW s \in Realm, NEW u \in Thread \ {t}
  PROVE  /\ u \in Drawing(s)' <=> u \in Drawing(s)
         /\ pc'[u] = pc[u] /\ oRevolver'[u] = oRevolver[u] /\ pListMT'[u] = pListMT[u]
  <1>1. pc'[u] = pc[u] /\ pParcel'[u] = pParcel[u] /\ oRevolver'[u] = oRevolver[u]
        /\ pListMT'[u] = pListMT[u]
    BY DEF Acts
  <1>2. pc[u] \in {"load", "cas"} => pParcel[u] \in Carved
    BY DEF Stations, InFlight, CramInv, Filed
  <1> QED BY <1>1, <1>2 DEF Drawing

(* Slots that become empty or closed, or that the free which drew them     *)
(* fills, keep the shape of a ring and claim no new slot.                  *)
LEMMA ShapeFewer ==
  ASSUME Basis, NEW t \in Thread, Acts(t),
         \A q \in Carved : tag'[q] = tag[q],
         NEW s \in Realm,
         t \in Drawing(s)' => /\ t \in Drawing(s) /\ oRevolver'[t] = oRevolver[t]
                              /\ pc'[t] = "cas" => pListMT'[t] = NULL,
         \A i \in SlotIndex :
           \/ maListMT'[s][i] \in {maListMT[s][i], <<>>, Closed}
           \/ /\ maListMT'[s][i] \in Single
              /\ t \in Drawing(s) /\ t \notin Drawing(s)' /\ oRevolver[t] = i
  PROVE  RingShape(s)' /\ Claimed(s)' \subseteq Claimed(s)
  <1>1. CramInv /\ Stations /\ RingShape(s)
    BY DEF Basis, Rings
  <1>2. \A u \in Drawing(s)' :
          /\ u \in Drawing(s) /\ oRevolver'[u] = oRevolver[u]
          /\ pc'[u] = "cas" => pListMT'[u] = NULL
    <2> SUFFICES ASSUME NEW u \in Drawing(s)', u # t
                 PROVE  /\ u \in Drawing(s) /\ oRevolver'[u] = oRevolver[u]
                        /\ pc'[u] = "cas" => pListMT'[u] = NULL
      OBVIOUS
    <2>1. u \in Thread \ {t}
      BY DEF Drawing
    <2>2. /\ u \in Drawing(s) /\ oRevolver'[u] = oRevolver[u]
          /\ pc'[u] = pc[u] /\ pListMT'[u] = pListMT[u]
      BY <1>1, <2>1, DrawingKept
    <2> QED BY <1>1, <2>2 DEF RingShape
  <1>3. \A u \in Drawing(s) : oRevolver[u] \in SlotIndex
    BY <1>1 DEF CramInv, CramTypes, TypeOK, Drawing
  <1>4. <<>> \notin Single /\ Closed \notin Single
    BY Constants DEF Single, Closed
  <1>5. \A u \in Drawing(s)' : maListMT'[s][oRevolver[u]] \in {<<>>, Closed}
    <2> SUFFICES ASSUME NEW u \in Drawing(s)' PROVE maListMT'[s][oRevolver[u]] \in {<<>>, Closed}
      OBVIOUS
    <2>1. u \in Drawing(s) /\ oRevolver[u] \in SlotIndex /\ maListMT[s][oRevolver[u]] \in {<<>>, Closed}
      BY <1>1, <1>2, <1>3 DEF RingShape
    <2>2. t \in Drawing(s) /\ oRevolver[t] = oRevolver[u] => t = u
      BY <1>1, <2>1 DEF RingShape
    <2> QED BY <2>1, <2>2
  <1>6. \A i \in SlotIndex : maListMT'[s][i] \in {<<>>, Closed} \cup Single
    BY <1>1 DEF RingShape
  <1>7. RingShape(s)'
    <2>1. \A u, v \in Drawing(s)' : oRevolver'[u] = oRevolver'[v] => u = v
      BY <1>1, <1>2 DEF RingShape
    <2>2. Closed' = Closed /\ Single' = Single
      BY DEF Closed, Single
    <2> QED BY <1>2, <1>5, <1>6, <2>1, <2>2 DEF RingShape
  <1>8. \A i \in SlotIndex : maListMT'[s][i] \in Single => maListMT[s][i] \in Single \/ i \in Claimed(s)
    BY <1>4 DEF Claimed
  <1>9. \A i \in SlotIndex : maListMT'[s][i] \in Single => i \in Claimed(s)
    BY <1>8 DEF Claimed
  <1>10. \A u \in Drawing(s)' : oRevolver'[u] \in Claimed(s)
    BY <1>2 DEF Claimed
  <1>11. Claimed(s)' = {i \in SlotIndex : maListMT'[s][i] \in Single} \cup {oRevolver'[u] : u \in Drawing(s)'}
    BY DEF Claimed, Single
  <1> QED BY <1>7, <1>9, <1>10, <1>11

(* The window stays when no slot is claimed and no parcel loses its slot.  *)
LEMMA WindowKept ==
  ASSUME CramInv, CramInv', NEW s \in Realm, RingWindow(s),
         mRevolverAlloc'[s] = mRevolverAlloc[s], mRevolverFree'[s] = mRevolverFree[s],
         Claimed(s)' \subseteq Claimed(s),
         Unclaimed(s)' \subseteq Unclaimed(s), CarvedIn(s)' = CarvedIn(s)
  PROVE  RingWindow(s)'
  <1> DEFINE n == Cardinality(Unclaimed(s))
             m == Cardinality(CarvedIn(s))
             k == Cardinality(Unclaimed(s)')
             a == AllocSlot(s)
             f == Slot(mRevolverFree[s])
  <1>1. n \in Nat /\ m \in Nat /\ IsFiniteSet(Unclaimed(s))
    BY RealmCounts, Constants
  <1>2. k \in Nat /\ k <= n
    BY <1>1, FS_Subset, FS_CardinalityType
  <1>3. AllocSlot(s)' = a /\ Slot(mRevolverFree[s])' = f
    BY DEF AllocSlot, Slot
  <1>4. HasWindow(a, f, Claimed(s), n, m)
    BY DEF RingWindow
  <1> HIDE DEF n, m, k, a, f
  <1>5. HasWindow(a, f, Claimed(s)', k, m)
    BY <1>1, <1>2, <1>4, WindowLess
  <1>6. Cardinality(Unclaimed(s))' = k /\ Cardinality(CarvedIn(s))' = m
    BY DEF k, m
  <1>7. RingWindow(s)' <=> HasWindow(AllocSlot(s)', Slot(mRevolverFree[s])', Claimed(s)',
                                      Cardinality(Unclaimed(s))', Cardinality(CarvedIn(s))')
    BY DEF RingWindow, HasWindow, Window, Offset
  <1> QED BY <1>3, <1>5, <1>6, <1>7

(* A step that claims no slot and takes none from a parcel keeps the rings. *)
LEMMA RingsFewer ==
  ASSUME Basis, CramInv', NEW t \in Thread, Acts(t), UNCHANGED <<tag, ring>>,
         NEW p, Others(p), p \in Carved /\ Waiting(p)' => Waiting(p),
         \A s \in Realm :
           t \in Drawing(s)' => /\ t \in Drawing(s) /\ oRevolver'[t] = oRevolver[t]
                                /\ pc'[t] = "cas" => pListMT'[t] = NULL,
         \A s \in Realm, i \in SlotIndex :
           \/ maListMT'[s][i] \in {maListMT[s][i], <<>>, Closed}
           \/ /\ maListMT'[s][i] \in Single
              /\ t \in Drawing(s) /\ t \notin Drawing(s)' /\ oRevolver[t] = i
  PROVE  Rings'
  <1> SUFFICES ASSUME NEW s \in Realm PROVE RingShape(s)' /\ RingWindow(s)'
    BY DEF Rings
  <1>1. CramInv /\ RingWindow(s)
    BY DEF Basis, Rings
  <1>2. RingShape(s)' /\ Claimed(s)' \subseteq Claimed(s)
    <2>1. t \in Drawing(s)' => /\ t \in Drawing(s) /\ oRevolver'[t] = oRevolver[t]
                               /\ pc'[t] = "cas" => pListMT'[t] = NULL
      OBVIOUS
    <2>2. \A i \in SlotIndex :
           \/ maListMT'[s][i] \in {maListMT[s][i], <<>>, Closed}
           \/ /\ maListMT'[s][i] \in Single
              /\ t \in Drawing(s) /\ t \notin Drawing(s)' /\ oRevolver[t] = i
      OBVIOUS
    <2>3. \A q \in Carved : tag'[q] = tag[q]
      OBVIOUS
    <2> QED BY ONLY <2>1, <2>2, <2>3, Basis, t \in Thread, Acts(t), s \in Realm, ShapeFewer
  <1>3. CarvedIn(s)' = CarvedIn(s)
    BY DEF CarvedIn, Carved
  <1>4. Unclaimed(s)' \subseteq Unclaimed(s)
    <2>1. Unclaimed(s)' \ {p} = Unclaimed(s) \ {p}
      BY RealmKept
    <2>2. p \in Unclaimed(s)' => p \in Unclaimed(s)
      BY <1>3 DEF Unclaimed, CarvedIn
    <2> QED BY <2>1, <2>2
  <1>5. mRevolverAlloc'[s] = mRevolverAlloc[s] /\ mRevolverFree'[s] = mRevolverFree[s]
    BY DEF ring
  <1> QED BY <1>1, <1>2, <1>3, <1>4, <1>5, WindowKept

(* What the place of a thread says is kept when it holds of the one that   *)
(* steps.                                                                  *)
LEMMA StationsKept ==
  ASSUME Stations, NEW t \in Thread, Acts(t),
         mbCache' => mbCache /\ oCache' = oCache,
         t # Owner => pc'[t] \in {"idle", "fetch", "load", "cas", "dec", "delete"},
         pc'[t] \in {"dec", "delete"} => ~mbCache',
         pParcel'[t] # NULL <=> pc'[t] \in {"fetch", "load", "cas", "dec"}
  PROVE  Stations'
  BY DEF Stations, Acts, InFlight

(* A step that moves no parcel and starts or ends no free.                 *)
LEMMA QuietStep ==
  ASSUME Basis, CramInv', NEW t \in Thread,
         UNCHANGED <<lists, ring, freeing, live, tag>>,
         \A u \in Thread \ {t} : pc'[u] = pc[u],
         pc[t] \notin {"fetch", "load", "cas", "dec"},
         pc'[t] \notin {"fetch", "load", "cas", "dec"},
         mbCache' => mbCache /\ oCache' = oCache,
         t # Owner => pc'[t] = "idle",
         pc'[t] = "delete" => ~mbCache'
  PROVE  Others(NULL) /\ Stations' /\ Apart' /\ Rings'
  <1>1. CramInv /\ CramTypes /\ Stations /\ Apart /\ Rings
    BY DEF Basis, CramInv
  <1>2. Acts(t)
    BY DEF Acts, freeing
  <1>3. pParcel[t] = NULL /\ pParcel'[t] = NULL
    BY <1>1 DEF Stations, InFlight, freeing
  <1>4. UNCHANGED <<mListST, maListMT, live, tag>>
    BY DEF lists
  <1>5. Others(NULL)
    BY <1>1, <1>2, <1>3, <1>4, OthersKept
  <1>6. NULL \notin Carved /\ NULL \notin Carved'
    BY Names DEF Carved
  <1>7. Apart'
    <2>1. \A r \in Realm : Once(mListST'[r])
      BY <1>1, <1>4 DEF Apart, Once
    <2> QED BY <1>1, <1>5, <1>6, <2>1, ApartKept
  <1>8. Stations'
    BY <1>1, <1>2, <1>3, StationsKept
  <1>9. Rings'
    <2>1. \A s \in Realm : t \notin Drawing(s)'
      BY DEF Drawing
    <2> QED BY <1>2, <1>4, <1>5, <1>6, <2>1, RingsFewer
  <1> QED BY <1>5, <1>7, <1>8, <1>9

-----------------------------------------------------------------------------
(* Alloc from the owner's list of a realm.                                 *)
LEMMA AllocSTStep ==
  ASSUME Basis, CramInv', NEW r \in Realm, AllocCached(r), UNCHANGED <<mvParcel, tag>>,
         TakeST(r), live' = live \cup {Head(mListST[r])}
  PROVE  /\ \E p \in Carved : Others(p) /\ Listed(p) /\ p \notin live /\ live' = live \cup {p}
         /\ Stations' /\ Apart' /\ Rings'
  <1> DEFINE list == mListST[r]
  <1>1. CramInv /\ CramTypes /\ TypeOK /\ OwnerPhase /\ Filed /\ Stations /\ Apart /\ Rings
    BY DEF Basis, CramInv, CramTypes
  <1>2. /\ pc[Owner] = "idle" /\ mbCache
        /\ UNCHANGED <<maListMT, ring, pc, pParcel, oRevolver, pListMT, mbCache, oCache, tag>>
    BY <1>1 DEF AllocCached, TakeST, freeing, OwnerPhase
  <1>3. Owner \in Thread /\ Acts(Owner) /\ pParcel[Owner] = NULL
    BY <1>1, <1>2, Names DEF Acts, Stations, InFlight
  <1>4. list \in Seq(Parcel) /\ list # <<>> /\ Once(list)
    BY <1>1, ListTypes, Constants DEF TakeST, Apart
  <1> HIDE DEF list
  <1>5. PICK p \in Parcel :
          /\ p = Head(list) /\ p \in Range(list) /\ Tail(list) \in Seq(Parcel)
          /\ Range(Tail(list)) = Range(list) \ {p} /\ Once(Tail(list))
    BY <1>4, TailRange, HeadTailRange DEF Once
  <1>6. \A s \in Realm : mListST'[s] = IF s = r THEN Tail(list) ELSE mListST[s]
    <2>1. mListST' = [mListST EXCEPT ![r] = Tail(list)]
      BY DEF TakeST, list
    <2> QED BY <1>1, <1>5, <2>1, SetList
  <1>7. p \in Carved /\ tag[p] = r /\ Listed(p)
    <2>1. tag[p] = r
      BY <1>1, <1>5 DEF Filed, list
    <2> QED BY <1>1, <1>5, <2>1, TaggedIsCarved DEF Listed, list
  <1>8. p \notin live /\ Holders(p) = {} /\ Slots(p) = {}
    BY <1>1, <1>7 DEF Apart, AtOne
  <1>9. live' = live \cup {p}
    BY <1>5 DEF list
  <1>10. Others(p)
    <2>1. \A s \in Realm : \A q \in Parcel \ {p} : q \in Range(mListST'[s]) <=> q \in Range(mListST[s])
      BY <1>5, <1>6 DEF list
    <2> QED BY <1>1, <1>2, <1>3, <1>9, <2>1, OthersKept
  <1>11. Apart'
    <2>1. ~Listed(p)'
      BY <1>2, <1>5, <1>6, <1>7 DEF Listed
    <2>2. Holders(p)' = {} /\ Slots(p)' = {}
      BY <1>2, <1>8 DEF Holders, Slots
    <2>3. AtOne(p \in live, Holders(p), Listed(p), Slots(p))'
      BY <2>1, <2>2 DEF AtOne
    <2>4. \A s \in Realm : Once(mListST'[s])
      BY <1>1, <1>5, <1>6 DEF Apart
    <2> QED BY <1>1, <1>10, <2>3, <2>4, ApartKept
  <1>12. Stations'
    BY <1>1, <1>2, <1>3, StationsKept DEF Stations, InFlight
  <1>13. Rings'
    <2>1. Waiting(p)
      BY <1>7 DEF Waiting
    <2>2. \A s \in Realm : Owner \notin Drawing(s)'
      BY <1>2 DEF Drawing
    <2> QED BY <1>2, <1>3, <1>10, <2>1, <2>2, RingsFewer
  <1> QED BY <1>7, <1>8, <1>9, <1>10, <1>11, <1>12, <1>13

(* Alloc from the ring of a realm: the first slot of its window becomes    *)
(* empty and one more parcel is without a slot.                            *)
LEMMA AllocMTStep ==
  ASSUME Basis, CramInv', NEW r \in Realm, AllocCached(r), UNCHANGED <<mvParcel, tag>>,
         TakeMT(r), live' = live \cup {Head(maListMT[r][AllocSlot(r)])}
  PROVE  /\ \E p \in Carved : Others(p) /\ Slots(p) # {} /\ p \notin live /\ live' = live \cup {p}
         /\ Stations' /\ Apart' /\ Rings'
  <1> DEFINE a == AllocSlot(r)
  <1>1. CramInv /\ CramTypes /\ TypeOK /\ OwnerPhase /\ OpenRing /\ Filed /\ Stations /\ Apart /\ Rings
    BY DEF Basis, CramInv, CramTypes
  <1>2. /\ pc[Owner] = "idle" /\ mbCache
        /\ UNCHANGED <<mListST, mRevolverFree, pc, pParcel, oRevolver, pListMT, mbCache, oCache, tag>>
    BY <1>1 DEF AllocCached, TakeMT, freeing, OwnerPhase
  <1>3. Owner \in Thread /\ Acts(Owner) /\ pParcel[Owner] = NULL
    BY <1>1, <1>2, Names DEF Acts, Stations, InFlight
  <1>4. a \in SlotIndex
    BY <1>1, AllocSlotType
  <1>5. PICK p \in Parcel : maListMT[r][a] = <<p>>
    <2>1. maListMT[r][a] \in {Closed} \cup Single
      BY <1>1, <1>4 DEF Rings, RingShape, TakeMT
    <2>2. Invalid \notin Range(maListMT[r][a])
      BY <1>1, <1>2, <1>4 DEF OpenRing
    <2>3. Range(Closed) = {Invalid}
      BY DEF Range, Closed
    <2> QED BY <2>1, <2>2, <2>3 DEF Single
  <1>6. live' = live \cup {p}
    BY <1>5
  <1>7. \A s \in Realm, k \in SlotIndex :
          maListMT'[s][k] = IF s = r /\ k = a THEN <<>> ELSE maListMT[s][k]
    <2>1. maListMT' = [maListMT EXCEPT ![r][a] = <<>>]
      BY DEF TakeMT, Exchanged
    <2>2. <<>> \in Seq(Parcel \cup {Invalid})
      OBVIOUS
    <2> HIDE DEF a
    <2> QED BY ZenonT(60), <1>1, <1>4, <2>1, <2>2, SetSlot
  <1>8. AllocSlot(r)' = IF a = cnRevolver - 1 THEN 0 ELSE a + 1
    <2>1. mRevolverAlloc'[r] = a + 1
      BY <1>1 DEF TakeMT, Advanced, TypeOK
    <2>2. CASE a = cnRevolver - 1
      <3>1. mRevolverAlloc'[r] = cnRevolver
        BY <2>1, <2>2, Constants
      <3> QED BY <2>2, <3>1, SlotEnd DEF AllocSlot
    <2>3. CASE a # cnRevolver - 1
      <3>1. a + 1 \in SlotIndex
        BY <1>4, <2>3, Constants
      <3> QED BY <2>1, <2>3, <3>1, SlotId DEF AllocSlot
    <2> QED BY <2>2, <2>3
  <1>9. \A s \in Realm : s # r => mRevolverAlloc'[s] = mRevolverAlloc[s]
    BY <1>1 DEF TakeMT, TypeOK
  <1> HIDE DEF a
  <1>10. p \in Carved /\ tag[p] = r /\ a \in Slots(p)
    <2>1. Range(<<p>>) = {p}
      BY DEF Range
    <2>2. tag[p] = r
      BY <1>1, <1>4, <1>5, <2>1, Names DEF Filed
    <2> QED BY <1>1, <1>4, <1>5, <2>2, TaggedIsCarved DEF Slots
  <1>11. p \notin live /\ Holders(p) = {} /\ ~Listed(p) /\ Slots(p) = {a}
    BY <1>1, <1>10 DEF Apart, AtOne
  <1>12. Others(p)
    <2>1. \A s \in Realm, i \in SlotIndex : \A q \in Parcel \ {p} :
            maListMT'[s][i] = <<q>> <=> maListMT[s][i] = <<q>>
      BY <1>5, <1>7
    <2> QED BY <1>1, <1>2, <1>3, <1>6, <2>1, OthersKept
  <1>13. Apart'
    <2>1. Holders(p)' = {} /\ ~Listed(p)'
      BY <1>2, <1>11 DEF Holders, Listed
    <2>2. Slots(p)' = {}
      <3>1. <<p>> # <<>>
        OBVIOUS
      <3>2. \A i \in SlotIndex : maListMT[r][i] = <<p>> => i = a
        BY <1>10, <1>11 DEF Slots
      <3> QED BY <1>2, <1>7, <1>10, <3>1, <3>2 DEF Slots
    <2>3. AtOne(p \in live, Holders(p), Listed(p), Slots(p))'
      BY <2>1, <2>2 DEF AtOne
    <2>4. \A s \in Realm : Once(mListST'[s])
      BY <1>1, <1>2 DEF Apart
    <2> QED BY <1>1, <1>12, <2>3, <2>4, ApartKept
  <1>14. Stations'
    BY <1>1, <1>2, <1>3, StationsKept DEF Stations, InFlight
  <1>15. ASSUME NEW s \in Realm
         PROVE  RingShape(s)' /\ Claimed(s)' \subseteq Claimed(s) /\ CarvedIn(s)' = CarvedIn(s)
    <2>1. Owner \notin Drawing(s)'
      BY <1>2 DEF Drawing
    <2>2. \A i \in SlotIndex : maListMT'[s][i] \in {maListMT[s][i], <<>>, Closed}
      BY <1>7
    <2>3. \A q \in Carved : tag'[q] = tag[q]
      BY <1>2
    <2>4. CarvedIn(s)' = CarvedIn(s)
      BY <1>2 DEF CarvedIn, Carved
    <2> QED BY <1>3, <2>1, <2>2, <2>3, <2>4, ShapeFewer
  <1>16. ASSUME NEW s \in Realm, s # r PROVE RingWindow(s)'
    <2>1. RingWindow(s)
      BY <1>1 DEF Rings
    <2>2. Unclaimed(s)' \subseteq Unclaimed(s)
      <3>1. Unclaimed(s)' \ {p} = Unclaimed(s) \ {p}
        BY <1>12, RealmKept
      <3>2. p \notin Unclaimed(s)'
        BY <1>2, <1>10, <1>16 DEF Unclaimed, CarvedIn
      <3> QED BY <3>1, <3>2
    <2>3. mRevolverAlloc'[s] = mRevolverAlloc[s] /\ mRevolverFree'[s] = mRevolverFree[s]
      BY <1>2, <1>9, <1>16
    <2> QED BY <1>1, <1>15, <2>1, <2>2, <2>3, WindowKept
  <1>17. RingWindow(r)'
    <2> DEFINE U == Unclaimed(r)
               n == Cardinality(U)
               m == Cardinality(CarvedIn(r))
               f == Slot(mRevolverFree[r])
               claimed == Claimed(r)
               b == IF a = cnRevolver - 1 THEN 0 ELSE a + 1
    <2>1. IsFiniteSet(U) /\ n \in Nat /\ m \in Nat
      BY <1>1, RealmCounts, Constants
    <2>2. U' = U \cup {p} /\ p \notin U
      <3>1. U' \ {p} = U \ {p}
        BY <1>12, RealmKept
      <3>2. p \in U'
        BY <1>2, <1>6, <1>10 DEF Unclaimed, CarvedIn, Carved, Waiting
      <3>3. p \notin U
        BY <1>11 DEF Unclaimed, Waiting, Fetching
      <3> QED BY <3>1, <3>2, <3>3
    <2>3. Cardinality(U') = n + 1
      BY <2>1, <2>2, FS_AddElement
    <2>4. f \in SlotIndex
      <3>1. mRevolverFree[r] \in Nat
        BY <1>1 DEF TypeOK
      <3> QED BY <3>1, SlotRange
    <2>5. claimed \in SUBSET SlotIndex /\ a \in claimed
      <3>1. \A t \in Drawing(r) : oRevolver[t] \in SlotIndex
        BY <1>1 DEF TypeOK, Drawing
      <3>2. a \in claimed
        BY <1>4, <1>5 DEF Claimed, Single
      <3> QED BY <3>1, <3>2 DEF Claimed
    <2>6. Claimed(r)' \subseteq claimed \ {a}
      <3>1. Claimed(r)' \subseteq claimed
        BY <1>15
      <3>2. <<>> \notin Single /\ <<p>> \in Single /\ <<p>> # Closed /\ <<p>> # <<>>
        BY Names DEF Single, Closed
      <3>3. maListMT'[r][a] \notin Single
        BY <1>4, <1>7, <3>2
      <3>4. \A t \in Drawing(r) : oRevolver[t] # a
        BY <1>1, <1>5, <3>2 DEF Rings, RingShape
      <3>5. Drawing(r)' = Drawing(r)
        BY <1>2 DEF Drawing
      <3>6. a \notin Claimed(r)'
        BY <1>2, <3>3, <3>4, <3>5 DEF Claimed, Single
      <3> QED BY <3>1, <3>6
    <2>7. HasWindow(a, f, claimed, n, m)
      BY <1>1 DEF Rings, RingWindow, a
    <2>8. Slot(mRevolverFree[r])' = f /\ Cardinality(CarvedIn(r))' = m
      BY <1>2, <1>15 DEF Slot
    <2>9. Cardinality(Unclaimed(r))' = Cardinality(U')
      OBVIOUS
    <2>10. RingWindow(r)' <=> HasWindow(AllocSlot(r)', Slot(mRevolverFree[r])', Claimed(r)',
                                        Cardinality(Unclaimed(r))', Cardinality(CarvedIn(r))')
      BY DEF RingWindow, HasWindow, Window, Offset
    <2> HIDE DEF U, n, m, f, claimed
    <2>11. HasWindow(b, f, claimed \ {a}, n + 1, m)
      BY <1>4, <2>1, <2>4, <2>5, <2>7, WindowTake
    <2> HIDE DEF b
    <2>12. HasWindow(b, f, Claimed(r)', n + 1, m)
      <3>1. n + 1 \in Nat /\ (n + 1) + m <= (n + 1) + m
        BY <2>1
      <3> QED BY <2>1, <2>6, <2>11, <3>1, WindowLess
    <2>13. AllocSlot(r)' = b
      BY <1>8 DEF b
    <2> QED BY <2>3, <2>8, <2>9, <2>10, <2>12, <2>13
  <1>18. Rings'
    BY <1>15, <1>16, <1>17 DEF Rings
  <1> QED BY <1>6, <1>10, <1>11, <1>12, <1>13, <1>14, <1>18

(* A parcel that is carved was nowhere: it goes to the application.        *)
LEMMA CarveStep ==
  ASSUME Basis, CramInv', NEW r \in Realm, AllocCarve(r)
  PROVE  /\ \E p \in Parcel \ Carved : Others(p) /\ p \in Carved' /\ live' = live \cup {p}
         /\ Stations' /\ Apart' /\ Rings'
  <1>1. CramInv /\ CramTypes /\ TypeOK /\ OwnerPhase /\ Filed /\ Stations /\ Apart /\ Rings
    BY DEF Basis, CramInv, CramTypes
  <1>2. PICK p \in Parcel \ Carved : p = mvParcel
    BY <1>1, CarveFresh DEF AllocCarve
  <1>3. /\ pc[Owner] = "idle" /\ mbCache /\ live' = live \cup {p}
        /\ UNCHANGED <<lists, ring, pc, pParcel, oRevolver, pListMT, mbCache, oCache>>
    BY <1>1, <1>2 DEF AllocCarve, freeing, OwnerPhase
  <1>4. \A q \in Parcel : tag'[q] = IF q = p THEN r ELSE tag[q]
    BY <1>1, <1>2 DEF AllocCarve, CramTypes
  <1>5. Owner \in Thread /\ Acts(Owner) /\ pParcel[Owner] = NULL
    BY <1>1, <1>3, Names DEF Acts, Stations, InFlight
  <1>6. UNCHANGED <<mListST, maListMT>>
    BY <1>3 DEF lists
  <1>7. p \in Carved' /\ \A q \in Carved : tag'[q] = tag[q]
    BY <1>2, <1>4, NullRealm DEF Carved
  <1>8. Others(p)
    BY <1>1, <1>3, <1>4, <1>5, <1>6, OthersKept
  <1>9. Apart'
    <2>1. Holders(p)' = {}
      BY <1>1, <1>2, <1>3, Names DEF Holders, Filed
    <2>2. ~Listed(p)'
      <3>1. p \notin Range(mListST[r])
        BY <1>1, <1>2, TaggedIsCarved DEF Filed
      <3> QED BY <1>4, <1>6, <3>1 DEF Listed
    <2>3. Slots(p)' = {}
      <3>1. ASSUME NEW i \in SlotIndex PROVE maListMT[r][i] # <<p>>
        <4>1. Range(<<p>>) = {p}
          BY DEF Range
        <4> QED BY <1>1, <1>2, <4>1, TaggedIsCarved, Names DEF Filed
      <3> QED BY <1>4, <1>6, <3>1 DEF Slots
    <2>4. AtOne(p \in live, Holders(p), Listed(p), Slots(p))'
      BY <2>1, <2>2, <2>3 DEF AtOne
    <2>5. \A s \in Realm : Once(mListST'[s])
      BY <1>1, <1>6 DEF Apart
    <2> QED BY <1>1, <1>8, <2>4, <2>5, ApartKept
  <1>10. Stations'
    BY <1>1, <1>3, <1>5, StationsKept DEF Stations, InFlight
  <1>11. ASSUME NEW s \in Realm PROVE RingShape(s)' /\ Claimed(s)' \subseteq Claimed(s)
    <2>1. Owner \notin Drawing(s)'
      BY <1>3 DEF Drawing
    <2>2. \A i \in SlotIndex : maListMT'[s][i] \in {maListMT[s][i], <<>>, Closed}
      BY <1>6
    <2> QED BY <1>5, <1>7, <2>1, <2>2, ShapeFewer
  <1>12. \A s \in Realm : /\ CarvedIn(s)' \ {p} = CarvedIn(s) \ {p}
                          /\ Unclaimed(s)' \ {p} = Unclaimed(s) \ {p}
    BY <1>8, RealmKept
  <1>13. ASSUME NEW s \in Realm, s # r PROVE RingWindow(s)'
    <2>1. p \notin CarvedIn(s)' /\ p \notin CarvedIn(s)
      BY <1>2, <1>4, <1>13 DEF CarvedIn
    <2>2. CarvedIn(s)' = CarvedIn(s) /\ Unclaimed(s)' \subseteq Unclaimed(s)
      BY <1>12, <2>1 DEF Unclaimed
    <2>3. mRevolverAlloc'[s] = mRevolverAlloc[s] /\ mRevolverFree'[s] = mRevolverFree[s]
      BY <1>3 DEF ring
    <2>4. RingWindow(s)
      BY <1>1 DEF Rings
    <2> QED BY <1>1, <1>11, <2>2, <2>3, <2>4, WindowKept
  <1>14. RingWindow(r)'
    <2> DEFINE U == Unclaimed(r)
               C == CarvedIn(r)
               n == Cardinality(U)
               m == Cardinality(C)
               a == AllocSlot(r)
               f == Slot(mRevolverFree[r])
               claimed == Claimed(r)
    <2>1. IsFiniteSet(U) /\ IsFiniteSet(C) /\ n \in Nat /\ m \in Nat
      BY <1>1, RealmCounts, Constants
    <2>2. p \notin U /\ p \notin C
      BY <1>2 DEF Unclaimed, CarvedIn
    <2>3. p \in CarvedIn(r)' /\ p \in Unclaimed(r)'
      BY <1>2, <1>3, <1>4, <1>7 DEF CarvedIn, Unclaimed, Waiting
    <2>4. U' = U \cup {p} /\ C' = C \cup {p}
      BY <1>12, <2>2, <2>3
    <2>5. Cardinality(U') = n + 1 /\ Cardinality(C') = m + 1
      BY <2>1, <2>2, <2>4, FS_AddElement
    <2>6. AllocSlot(r)' = a /\ Slot(mRevolverFree[r])' = f /\ Claimed(r)' \subseteq claimed
      BY <1>3, <1>11 DEF AllocSlot, Slot, ring
    <2>7. HasWindow(a, f, claimed, n, m)
      BY <1>1 DEF Rings, RingWindow
    <2>8. Cardinality(Unclaimed(r))' = Cardinality(U') /\ Cardinality(CarvedIn(r))' = Cardinality(C')
      OBVIOUS
    <2>9. RingWindow(r)' <=> HasWindow(AllocSlot(r)', Slot(mRevolverFree[r])', Claimed(r)',
                                       Cardinality(Unclaimed(r))', Cardinality(CarvedIn(r))')
      BY DEF RingWindow, HasWindow, Window, Offset
    <2> HIDE DEF U, C, n, m, a, f, claimed
    <2>10. HasWindow(a, f, Claimed(r)', n + 1, m + 1)
      <3>1. n + 1 \in Nat /\ m + 1 \in Nat /\ (n + 1) + m <= n + (m + 1)
        BY <2>1
      <3> QED BY <2>1, <2>6, <2>7, <3>1, WindowLess
    <2> QED BY <2>5, <2>6, <2>8, <2>9, <2>10
  <1>15. Rings'
    BY <1>11, <1>13, <1>14 DEF Rings
  <1> QED BY <1>2, <1>3, <1>7, <1>8, <1>9, <1>10, <1>15

-----------------------------------------------------------------------------
(* The start of Free moves a parcel from the application to the owner's    *)
(* list or into the hands of the free.                                     *)
LEMMA FreePlace ==
  ASSUME Basis, CramInv', NEW t \in Thread, NEW p \in live, Free(t, p, tag[p]),
         UNCHANGED <<mvParcel, tag>>
  PROVE  /\ p \in Carved /\ Others(p) /\ live' = live \ {p}
         /\ Holders(p)' # {} \/ (mbCache /\ Listed(p)')
         /\ Stations' /\ Apart' /\ Rings'
  <1>1. CramInv /\ CramTypes /\ TypeOK /\ OwnerPhase /\ Filed /\ Stations /\ Apart /\ Rings
    BY DEF Basis, CramInv, CramTypes
  <1>2. /\ pc[t] = "idle" /\ live' = live \ {p}
        /\ UNCHANGED <<maListMT, ring, oRevolver, pListMT, mbCache, oCache, tag>>
    BY DEF Free, ListST, lists
  <1>3. p \in Carved /\ p \in Parcel /\ p # NULL /\ tag[p] \in Realm
    <2>1. p \in Carved /\ p \in Parcel
      BY <1>1 DEF Filed, TypeOK
    <2> QED BY <1>1, <2>1, TaggedIsCarved, Names
  <1>4. Holders(p) = {} /\ ~Listed(p) /\ Slots(p) = {}
    BY <1>1, <1>3 DEF Apart, AtOne
  <1>5. pParcel[t] = NULL /\ Waiting(p) /\ Slots(p)' = {}
    BY <1>1, <1>2, <1>4 DEF Stations, InFlight, Waiting, Slots
  <1>6. CASE mbCache /\ t = Owner /\ ListST(tag[p], p) /\ UNCHANGED <<pc, pParcel>>
    <2> DEFINE list == mListST[tag[p]]
    <2>1. list \in Seq(Parcel) /\ Once(list) /\ p \notin Range(list)
      BY <1>1, <1>3, <1>4, ListTypes, Constants DEF Apart, Listed
    <2> HIDE DEF list
    <2>2. /\ <<p>> \o list \in Seq(Parcel)
          /\ Range(<<p>> \o list) = Range(list) \cup {p} /\ Once(<<p>> \o list)
      <3>1. <<p>> \o list \in Seq(Parcel)
        BY <1>3, <2>1, PushRange
      <3>2. /\ Range(<<p>> \o list) = Range(list) \cup {p}
            /\ \A j, k \in 1 .. Len(<<p>> \o list) :
                 (<<p>> \o list)[j] = (<<p>> \o list)[k] => j = k
        BY <1>3, <2>1, ConsRange DEF Once
      <3> QED BY <3>1, <3>2 DEF Once
    <2> DEFINE longer == <<p>> \o list
    <2> HIDE DEF longer
    <2>3. \A s \in Realm : mListST'[s] = IF s = tag[p] THEN longer ELSE mListST[s]
      <3>1. mListST' = [mListST EXCEPT ![tag[p]] = longer]
        BY <1>6 DEF ListST, list, longer
      <3>2. longer \in Seq(Parcel)
        BY <2>2 DEF longer
      <3> QED BY <1>1, <1>3, <3>1, <3>2, SetList
    <2>4. Acts(t)
      BY <1>2, <1>6 DEF Acts
    <2>5. Range(longer) = Range(list) \cup {p} /\ Once(longer)
      BY <2>2 DEF longer
    <2>6. Others(p)
      <3>1. \A s \in Realm : \A q \in Parcel \ {p} : q \in Range(mListST'[s]) <=> q \in Range(mListST[s])
        BY <2>3, <2>5 DEF list
      <3> QED BY <1>1, <1>2, <1>5, <1>6, <2>4, <3>1, OthersKept
    <2>7. Listed(p)' /\ Holders(p)' = {}
      BY <1>2, <1>3, <1>4, <1>6, <2>3, <2>5 DEF Listed, Holders
    <2>8. Apart'
      <3>1. AtOne(p \in live, Holders(p), Listed(p), Slots(p))'
        BY <1>2, <1>5, <2>7 DEF AtOne
      <3>2. \A s \in Realm : Once(mListST'[s])
        BY <1>1, <2>3, <2>5 DEF Apart
      <3> QED BY <1>1, <2>6, <3>1, <3>2, ApartKept
    <2>9. Stations'
      BY <1>1, <1>2, <1>5, <1>6, <2>4, StationsKept
    <2>10. Rings'
      <3>1. \A s \in Realm : t \notin Drawing(s)'
        BY <1>2, <1>6 DEF Drawing
      <3> QED BY <1>2, <1>5, <2>4, <2>6, <3>1, RingsFewer
    <2> QED BY <1>2, <1>3, <1>6, <2>6, <2>7, <2>8, <2>9, <2>10
  <1>7. ASSUME NEW l \in {"fetch", "dec"}, Goto(t, l), pParcel' = [pParcel EXCEPT ![t] = p],
               UNCHANGED mListST, l = "dec" => ~mbCache
        PROVE  /\ Others(p) /\ Holders(p)' # {}
               /\ Stations' /\ Apart' /\ Rings'
    <2>1. /\ \A u \in Thread : pParcel'[u] = IF u = t THEN p ELSE pParcel[u]
          /\ \A u \in Thread : pc'[u] = IF u = t THEN l ELSE pc[u]
      BY <1>1, <1>7 DEF TypeOK, Goto
    <2>2. Acts(t)
      BY <1>2, <2>1 DEF Acts
    <2>3. Others(p)
      BY <1>1, <1>2, <1>5, <1>7, <2>1, <2>2, OthersKept
    <2>4. Holders(p)' = {t} /\ ~Listed(p)'
      BY <1>2, <1>4, <1>7, <2>1 DEF Holders, Listed
    <2>5. Apart'
      <3>1. AtOne(p \in live, Holders(p), Listed(p), Slots(p))'
        BY <1>2, <1>5, <2>4 DEF AtOne
      <3>2. \A s \in Realm : Once(mListST'[s])
        BY <1>1, <1>7 DEF Apart
      <3> QED BY <1>1, <2>3, <3>1, <3>2, ApartKept
    <2>6. Stations'
      <3>1. pc'[t] = l /\ pParcel'[t] # NULL
        BY <1>3, <2>1
      <3> QED BY <1>1, <1>2, <1>7, <2>2, <3>1, StationsKept
    <2>7. Rings'
      <3>1. \A s \in Realm : t \notin Drawing(s)'
        BY <2>1 DEF Drawing
      <3> QED BY <1>2, <1>5, <2>2, <2>3, <3>1, RingsFewer
    <2> QED BY <2>3, <2>4, <2>5, <2>6, <2>7
  <1>8. \/ mbCache /\ t = Owner /\ ListST(tag[p], p) /\ UNCHANGED <<pc, pParcel>>
        \/ \E l \in {"fetch", "dec"} :
             /\ Goto(t, l) /\ pParcel' = [pParcel EXCEPT ![t] = p]
             /\ UNCHANGED mListST /\ (l = "dec" => ~mbCache)
    BY DEF Free, lists
  <1> QED BY <1>2, <1>3, <1>6, <1>7, <1>8

(* Drawing a slot: the parcel gets the slot behind the window.             *)
LEMMA FetchPlace ==
  ASSUME Basis, CramInv', NEW t \in Thread, pParcel[t] # NULL, Fetch(t, tag[pParcel[t]]),
         UNCHANGED <<mvParcel, tag>>, UNCHANGED state
  PROVE  /\ \E p \in Carved : Others(p) /\ t \in Holders(p) /\ Holders(p)' # {} /\ live' = live
         /\ Stations' /\ Apart' /\ Rings'
  <1>1. CramInv /\ CramTypes /\ TypeOK /\ OwnerPhase /\ Filed /\ Stations /\ Apart /\ Rings
    BY DEF Basis, CramInv, CramTypes
  <1>2. PICK p \in Carved : p = pParcel[t]
    BY <1>1 DEF Filed
  <1>3. p \in Parcel /\ p # NULL
    BY <1>2, Names DEF Carved
  <1>4. PICK r \in Realm : r = tag[p]
    BY <1>1, <1>2, <1>3, TaggedIsCarved
  <1>5. PICK f \in SlotIndex : f = Slot(mRevolverFree[r])
    <2>1. mRevolverFree[r] \in Nat
      BY <1>1 DEF TypeOK
    <2> QED BY <2>1, SlotRange
  <1>6. /\ pc[t] = "fetch" /\ Goto(t, "load")
        /\ oRevolver' = [oRevolver EXCEPT ![t] = f]
        /\ mRevolverFree' = [mRevolverFree EXCEPT ![r] = Counted(mRevolverFree[r])]
        /\ UNCHANGED <<lists, mRevolverAlloc, pParcel, pListMT>>
        /\ UNCHANGED <<live, mbCache, oCache, tag>>
    BY <1>2, <1>4, <1>5 DEF Fetch, state
  <1>7. /\ \A u \in Thread : pc'[u] = IF u = t THEN "load" ELSE pc[u]
        /\ \A u \in Thread : oRevolver'[u] = IF u = t THEN f ELSE oRevolver[u]
    BY <1>1, <1>6 DEF TypeOK, Goto
  <1>8. Acts(t)
    BY <1>6, <1>7 DEF Acts
  <1>9. UNCHANGED <<mListST, maListMT>>
    BY <1>6 DEF lists
  <1>10. Others(p)
    BY <1>1, <1>2, <1>6, <1>8, <1>9, OthersKept
  <1>11. t \in Holders(p) /\ Holders(p) = {t} /\ p \notin live /\ ~Listed(p) /\ Slots(p) = {}
    <2>1. t \in Holders(p)
      BY <1>2 DEF Holders
    <2> QED BY <1>1, <1>2, <2>1 DEF Apart, AtOne
  <1>12. Holders(p)' = {t} /\ ~Listed(p)' /\ Slots(p)' = {}
    BY <1>6, <1>9, <1>11 DEF Holders, Listed, Slots
  <1>13. Apart'
    <2>1. AtOne(p \in live, Holders(p), Listed(p), Slots(p))'
      BY <1>6, <1>11, <1>12 DEF AtOne
    <2>2. \A s \in Realm : Once(mListST'[s])
      BY <1>1, <1>9 DEF Apart
    <2> QED BY <1>1, <1>10, <2>1, <2>2, ApartKept
  <1>14. Stations'
    BY <1>1, <1>2, <1>3, <1>6, <1>7, <1>8, StationsKept
  <1>15. \A s \in Realm : CarvedIn(s)' = CarvedIn(s)
    BY <1>6 DEF CarvedIn, Carved
  <1>16. \A s \in Realm : Unclaimed(s)' = Unclaimed(s) \ {p}
    <2> SUFFICES ASSUME NEW s \in Realm PROVE Unclaimed(s)' = Unclaimed(s) \ {p}
      OBVIOUS
    <2>1. Unclaimed(s)' \ {p} = Unclaimed(s) \ {p}
      BY <1>10, RealmKept
    <2>2. p \notin Unclaimed(s)'
      BY <1>6, <1>7, <1>11, <1>12 DEF Unclaimed, Waiting, Fetching
    <2> QED BY <2>1, <2>2
  <1>17. ASSUME NEW s \in Realm, s # r PROVE RingShape(s)' /\ RingWindow(s)'
    <2>1. t \notin Drawing(s)'
      BY <1>2, <1>4, <1>6, <1>17 DEF Drawing
    <2>2. RingShape(s)' /\ Claimed(s)' \subseteq Claimed(s)
      BY <1>6, <1>8, <1>9, <2>1, ShapeFewer
    <2>3. mRevolverAlloc'[s] = mRevolverAlloc[s] /\ mRevolverFree'[s] = mRevolverFree[s]
      BY <1>1, <1>6, <1>17 DEF TypeOK
    <2>4. RingWindow(s)
      BY <1>1 DEF Rings
    <2> QED BY <1>1, <1>15, <1>16, <2>2, <2>3, <2>4, WindowKept
  <1>18. f \notin Claimed(r) /\ RingWindow(r)'
    <2> DEFINE U == Unclaimed(r)
               n == Cardinality(U)
               m == Cardinality(CarvedIn(r))
               a == AllocSlot(r)
               claimed == Claimed(r)
               g == IF f = cnRevolver - 1 THEN 0 ELSE f + 1
    <2>1. IsFiniteSet(U) /\ n \in Nat /\ m \in 0 .. cnRevolver
      BY <1>1, RealmCounts
    <2>2. p \in U
      BY <1>2, <1>4, <1>6, <1>11 DEF Unclaimed, CarvedIn, Carved, Waiting, Fetching
    <2>3. Cardinality(U \ {p}) = n - 1 /\ n \in Nat \ {0}
      <3>1. Cardinality(U \ {p}) = n - 1 /\ IsFiniteSet(U \ {p})
        BY <2>1, <2>2, FS_RemoveElement
      <3>2. n - 1 \in Nat
        BY <3>1, FS_CardinalityType
      <3> HIDE DEF n
      <3> QED BY <2>1, <3>1, <3>2
    <2>4. a \in SlotIndex
      BY <1>1, AllocSlotType
    <2>5. claimed \in SUBSET SlotIndex
      BY <1>1 DEF TypeOK, Drawing, Claimed
    <2>6. HasWindow(a, f, claimed, n, m)
      BY <1>1, <1>5 DEF Rings, RingWindow
    <2>7. AllocSlot(r)' = a
      BY <1>6 DEF AllocSlot, Slot
    <2>8. Slot(mRevolverFree[r])' = g
      <3>1. mRevolverFree[r] \in 0 .. cnCounter - 1 /\ mRevolverFree'[r] = Counted(mRevolverFree[r])
        BY <1>1, <1>6 DEF TypeOK
      <3>2. Slot(mRevolverFree'[r]) = g
        BY <1>5, <3>1, CountedSlot
      <3> QED BY <3>2 DEF Slot
    <2>9. Claimed(r)' \subseteq claimed \cup {f}
      <3>1. \A u \in Drawing(r)' : u = t \/ (u \in Drawing(r) /\ oRevolver'[u] = oRevolver[u])
        BY <1>6, <1>7 DEF Drawing
      <3>2. \A u \in Drawing(r)' : oRevolver'[u] \in claimed \cup {f}
        BY <1>7, <3>1 DEF Claimed
      <3> QED BY <1>9, <3>2 DEF Claimed, Single
    <2>10. Cardinality(Unclaimed(r))' = Cardinality(U \ {p}) /\ Cardinality(CarvedIn(r))' = m
      BY <1>15, <1>16
    <2>11. RingWindow(r)' <=> HasWindow(AllocSlot(r)', Slot(mRevolverFree[r])', Claimed(r)',
                                        Cardinality(Unclaimed(r))', Cardinality(CarvedIn(r))')
      BY DEF RingWindow, HasWindow, Window, Offset
    <2> HIDE DEF U, n, m, a, claimed
    <2>12. f \notin claimed /\ HasWindow(a, g, claimed \cup {f}, n - 1, m)
      BY <2>1, <2>3, <2>4, <2>5, <2>6, WindowDraw
    <2> HIDE DEF g
    <2>13. HasWindow(a, g, Claimed(r)', n - 1, m)
      <3>1. n - 1 \in Nat /\ m \in Nat /\ (n - 1) + m <= (n - 1) + m
        BY <2>1, <2>3, Constants
      <3> QED BY <2>9, <2>12, <3>1, WindowLess
    <2> QED BY <2>3, <2>7, <2>8, <2>10, <2>11, <2>12, <2>13 DEF claimed
  <1>19. RingShape(r)'
    <2>1. RingShape(r)
      BY <1>1 DEF Rings
    <2>2. \A u \in Drawing(r)' :
            u = t \/ (u \in Drawing(r) /\ pc'[u] = pc[u] /\ oRevolver'[u] = oRevolver[u])
      BY <1>6, <1>7 DEF Drawing
    <2>3. maListMT[r][f] \in {<<>>, Closed} /\ \A u \in Drawing(r) : oRevolver[u] # f
      BY <1>18, <2>1 DEF Claimed, RingShape
    <2>4. Closed' = Closed /\ Single' = Single /\ maListMT' = maListMT /\ pListMT' = pListMT
      BY <1>6, <1>9 DEF Closed, Single
    <2>5. \A u \in Drawing(r)' : /\ maListMT[r][oRevolver'[u]] \in {<<>>, Closed}
                                 /\ pc'[u] = "cas" => pListMT[u] = NULL
      BY <1>7, <2>1, <2>2, <2>3 DEF RingShape
    <2>6. \A u, v \in Drawing(r)' : oRevolver'[u] = oRevolver'[v] => u = v
      BY <1>7, <2>1, <2>2, <2>3 DEF RingShape
    <2> QED BY <2>1, <2>4, <2>5, <2>6 DEF RingShape
  <1>20. Rings'
    BY <1>17, <1>18, <1>19 DEF Rings
  <1> QED BY <1>6, <1>10, <1>11, <1>12, <1>13, <1>14, <1>20

(* Reading the slot, which is empty or closed.                             *)
LEMMA LoadPlace ==
  ASSUME Basis, CramInv', NEW t \in Thread, pParcel[t] # NULL, Load(t, tag[pParcel[t]]),
         UNCHANGED <<mvParcel, tag>>, UNCHANGED state
  PROVE  /\ \E p \in Carved : Others(p) /\ t \in Holders(p) /\ Holders(p)' # {} /\ live' = live
         /\ Stations' /\ Apart' /\ Rings'
  <1>1. CramInv /\ CramTypes /\ TypeOK /\ OwnerPhase /\ OpenRing /\ Filed /\ Stations /\ Apart /\ Rings
    BY DEF Basis, CramInv, CramTypes
  <1>2. PICK p \in Carved : p = pParcel[t]
    BY <1>1 DEF Filed
  <1>3. p \in Parcel /\ p # NULL
    BY <1>2, Names DEF Carved
  <1>4. PICK r \in Realm : r = tag[p]
    BY <1>1, <1>2, <1>3, TaggedIsCarved
  <1> DEFINE slot == maListMT[r][oRevolver[t]]
             head == Top(slot)
  <1>5. /\ pc[t] = "load" /\ Goto(t, AfterRead(head))
        /\ pListMT' = [pListMT EXCEPT ![t] = head]
        /\ UNCHANGED <<mListST, maListMT, ring, pParcel, oRevolver>>
        /\ UNCHANGED <<live, mbCache, oCache, tag>>
    BY <1>2, <1>4 DEF Load, state, lists
  <1>6. t \in Drawing(r)
    BY <1>2, <1>4, <1>5 DEF Drawing
  <1>7. slot \in {<<>>, Closed} /\ (slot = Closed => ~mbCache)
    <2>1. slot \in {<<>>, Closed}
      BY <1>1, <1>6 DEF Rings, RingShape
    <2>2. Range(Closed) = {Invalid} /\ oRevolver[t] \in SlotIndex
      BY <1>1 DEF Range, Closed, TypeOK
    <2> QED BY <1>1, <2>1, <2>2 DEF OpenRing
  <1>8. \/ head = NULL /\ AfterRead(head) = "cas"
        \/ head = Invalid /\ AfterRead(head) = "dec" /\ ~mbCache
    <2>1. Top(<<>>) = NULL /\ Top(Closed) = Invalid
      BY DEF Top, Closed
    <2> QED BY <1>7, <2>1, Names DEF AfterRead
  <1> HIDE DEF head, slot
  <1>9. /\ \A u \in Thread : pc'[u] = IF u = t THEN AfterRead(head) ELSE pc[u]
        /\ \A u \in Thread : pListMT'[u] = IF u = t THEN head ELSE pListMT[u]
    BY <1>1, <1>5 DEF TypeOK, Goto
  <1>10. Acts(t)
    BY <1>5, <1>9 DEF Acts
  <1>11. Others(p)
    BY <1>1, <1>2, <1>5, <1>10, OthersKept
  <1>12. t \in Holders(p) /\ Holders(p) = {t} /\ p \notin live /\ ~Listed(p) /\ Slots(p) = {}
    <2>1. t \in Holders(p)
      BY <1>2 DEF Holders
    <2> QED BY <1>1, <1>2, <2>1 DEF Apart, AtOne
  <1>13. Holders(p)' = {t} /\ ~Listed(p)' /\ Slots(p)' = {}
    BY <1>5, <1>12 DEF Holders, Listed, Slots
  <1>14. Apart'
    <2>1. AtOne(p \in live, Holders(p), Listed(p), Slots(p))'
      BY <1>5, <1>12, <1>13 DEF AtOne
    <2>2. \A s \in Realm : Once(mListST'[s])
      BY <1>1, <1>5 DEF Apart
    <2> QED BY <1>1, <1>11, <2>1, <2>2, ApartKept
  <1>15. Stations'
    <2>1. pc'[t] \in {"cas", "dec"} /\ (pc'[t] = "dec" => ~mbCache) /\ pParcel'[t] # NULL
      BY <1>2, <1>3, <1>5, <1>8, <1>9
    <2> QED BY <1>1, <1>5, <1>10, <2>1, StationsKept
  <1>16. Rings'
    <2>1. \A s \in Realm :
           t \in Drawing(s)' => /\ t \in Drawing(s) /\ oRevolver'[t] = oRevolver[t]
                                /\ pc'[t] = "cas" => pListMT'[t] = NULL
      BY <1>5, <1>8, <1>9 DEF Drawing
    <2>2. ~Waiting(p)'
      BY <1>5, <1>8, <1>9, <1>12, <1>13 DEF Waiting, Fetching
    <2> QED BY <1>5, <1>10, <1>11, <2>1, <2>2, RingsFewer
  <1> QED BY <1>5, <1>11, <1>12, <1>13, <1>14, <1>15, <1>16

(* The compare-and-swap: on an empty slot it succeeds and the parcel goes  *)
(* to the slot, on a closed one it fails and the parcel will be counted    *)
(* off.                                                                    *)
LEMMA CasPlace ==
  ASSUME Basis, CramInv', NEW t \in Thread, pParcel[t] # NULL, Cas(t, tag[pParcel[t]]),
         UNCHANGED <<mvParcel, tag>>, UNCHANGED state
  PROVE  /\ \E p \in Carved : /\ Others(p) /\ t \in Holders(p) /\ live' = live
                              /\ Holders(p)' # {} \/ Slots(p)' # {}
         /\ Stations' /\ Apart' /\ Rings'
  <1>1. CramInv /\ CramTypes /\ TypeOK /\ OwnerPhase /\ OpenRing /\ Filed /\ Stations /\ Apart /\ Rings
    BY DEF Basis, CramInv, CramTypes
  <1>2. PICK p \in Carved : p = pParcel[t]
    BY <1>1 DEF Filed
  <1>3. p \in Parcel /\ p # NULL
    BY <1>2, Names DEF Carved
  <1>4. PICK r \in Realm : r = tag[p]
    BY <1>1, <1>2, <1>3, TaggedIsCarved
  <1>5. PICK i \in SlotIndex : i = oRevolver[t]
    BY <1>1 DEF TypeOK
  <1> DEFINE slot == maListMT[r][i]
             head == Top(slot)
  <1>6. /\ pc[t] = "cas"
        /\ UNCHANGED <<mListST, ring, live, mbCache, oCache, tag>>
        /\ \/ /\ head = pListMT[t]
              /\ maListMT' = [maListMT EXCEPT ![r][i] = <<p>> \o slot]
              /\ Goto(t, "idle")
              /\ pParcel' = [pParcel EXCEPT ![t] = NULL]
              /\ oRevolver' = [oRevolver EXCEPT ![t] = 0]
              /\ pListMT' = [pListMT EXCEPT ![t] = NULL]
           \/ /\ head # pListMT[t]
              /\ pListMT' = [pListMT EXCEPT ![t] = head]
              /\ Goto(t, AfterRead(head))
              /\ UNCHANGED <<maListMT, pParcel, oRevolver>>
    BY <1>2, <1>4, <1>5 DEF Cas, state
  <1>7. t \in Drawing(r)
    BY <1>2, <1>4, <1>6 DEF Drawing
  <1>8. slot \in {<<>>, Closed} /\ (slot = Closed => ~mbCache) /\ pListMT[t] = NULL
    <2>1. slot \in {<<>>, Closed} /\ pListMT[t] = NULL
      BY <1>1, <1>5, <1>6, <1>7 DEF Rings, RingShape
    <2>2. Range(Closed) = {Invalid}
      BY DEF Range, Closed
    <2> QED BY <1>1, <2>1, <2>2 DEF OpenRing
  <1>9. t # Owner /\ t \in Holders(p) /\ Holders(p) = {t} /\ p \notin live /\ ~Listed(p) /\ Slots(p) = {}
    <2>1. t \in Holders(p)
      BY <1>2 DEF Holders
    <2> QED BY <1>1, <1>2, <1>6, <2>1 DEF Apart, AtOne, OwnerPhase
  <1>10. \/ slot = <<>> /\ head = NULL
         \/ slot = Closed /\ head = Invalid /\ AfterRead(head) = "dec" /\ ~mbCache
    <2>1. Top(<<>>) = NULL /\ Top(Closed) = Invalid
      BY DEF Top, Closed
    <2> QED BY <1>8, <2>1, Names DEF AfterRead
  <1> HIDE DEF head
  <1>11. CASE slot = <<>>
    <2>1. /\ maListMT' = [maListMT EXCEPT ![r][i] = <<p>> \o slot]
          /\ Goto(t, "idle")
          /\ pParcel' = [pParcel EXCEPT ![t] = NULL]
          /\ oRevolver' = [oRevolver EXCEPT ![t] = 0]
          /\ pListMT' = [pListMT EXCEPT ![t] = NULL]
      BY <1>6, <1>8, <1>10, <1>11, Names DEF Closed
    <2>2. \A s \in Realm, k \in SlotIndex :
            maListMT'[s][k] = IF s = r /\ k = i THEN <<p>> ELSE maListMT[s][k]
      <3>1. <<p>> \o slot = <<p>> /\ <<p>> \in Seq(Parcel \cup {Invalid})
        BY <1>3, <1>11
      <3> HIDE DEF slot
      <3>2. maListMT' = [maListMT EXCEPT ![r][i] = <<p>>]
        BY <2>1, <3>1
      <3> QED BY ZenonT(60), <1>1, <3>1, <3>2, SetSlot
    <2>3. /\ \A u \in Thread : pc'[u] = IF u = t THEN "idle" ELSE pc[u]
          /\ \A u \in Thread : pParcel'[u] = IF u = t THEN NULL ELSE pParcel[u]
          /\ \A u \in Thread : oRevolver'[u] = IF u = t THEN 0 ELSE oRevolver[u]
          /\ \A u \in Thread : pListMT'[u] = IF u = t THEN NULL ELSE pListMT[u]
      BY <1>1, <2>1 DEF TypeOK, Goto
    <2>4. Acts(t)
      BY <2>3 DEF Acts
    <2>5. Others(p)
      <3>1. \A s \in Realm, k \in SlotIndex : \A q \in Parcel \ {p} :
              maListMT'[s][k] = <<q>> <=> maListMT[s][k] = <<q>>
        BY <1>11, <2>2
      <3> QED BY <1>1, <1>2, <1>6, <2>3, <2>4, <3>1, OthersKept
    <2>6. Holders(p)' = {} /\ ~Listed(p)' /\ Slots(p)' = {i}
      <3>1. Holders(p)' = {}
        BY <1>3, <1>9, <2>3 DEF Holders
      <3>2. ~Listed(p)'
        BY <1>6, <1>9 DEF Listed
      <3>3. \A k \in SlotIndex : maListMT[r][k] # <<p>>
        BY <1>4, <1>9 DEF Slots
      <3>4. Slots(p)' = {i}
        BY <1>4, <1>6, <2>2, <3>3 DEF Slots
      <3> QED BY <3>1, <3>2, <3>4
    <2>7. Apart'
      <3>1. AtOne(p \in live, Holders(p), Listed(p), Slots(p))'
        BY <1>6, <1>9, <2>6 DEF AtOne
      <3>2. \A s \in Realm : Once(mListST'[s])
        BY <1>1, <1>6 DEF Apart
      <3> QED BY <1>1, <2>5, <3>1, <3>2, ApartKept
    <2>8. Stations'
      BY <1>1, <1>6, <2>3, <2>4, StationsKept
    <2>9. Rings'
      <3>1. \A s \in Realm : t \notin Drawing(s)'
        BY <2>3 DEF Drawing
      <3>2. \A s \in Realm, k \in SlotIndex :
             \/ maListMT'[s][k] \in {maListMT[s][k], <<>>, Closed}
             \/ /\ maListMT'[s][k] \in Single
                /\ t \in Drawing(s) /\ t \notin Drawing(s)' /\ oRevolver[t] = k
        BY <1>3, <1>5, <1>7, <2>2, <3>1 DEF Single
      <3>3. ~Waiting(p)'
        BY <1>6, <1>9, <2>6 DEF Waiting, Fetching
      <3> QED BY <1>6, <2>4, <2>5, <3>1, <3>2, <3>3, RingsFewer
    <2> QED BY <1>6, <1>9, <2>5, <2>6, <2>7, <2>8, <2>9
  <1>12. CASE slot = Closed /\ ~mbCache
    <2>1. /\ pListMT' = [pListMT EXCEPT ![t] = head]
          /\ Goto(t, "dec")
          /\ UNCHANGED <<maListMT, pParcel, oRevolver>>
      BY <1>6, <1>8, <1>10, <1>12, Names DEF Closed
    <2>2. /\ \A u \in Thread : pc'[u] = IF u = t THEN "dec" ELSE pc[u]
          /\ \A u \in Thread : pListMT'[u] = IF u = t THEN head ELSE pListMT[u]
      BY <1>1, <2>1 DEF TypeOK, Goto
    <2>3. Acts(t)
      BY <2>1, <2>2 DEF Acts
    <2>4. Others(p)
      BY <1>1, <1>2, <1>6, <2>1, <2>3, OthersKept
    <2>5. Holders(p)' = {t} /\ ~Listed(p)' /\ Slots(p)' = {}
      BY <1>6, <1>9, <2>1 DEF Holders, Listed, Slots
    <2>6. Apart'
      <3>1. AtOne(p \in live, Holders(p), Listed(p), Slots(p))'
        BY <1>6, <1>9, <2>5 DEF AtOne
      <3>2. \A s \in Realm : Once(mListST'[s])
        BY <1>1, <1>6 DEF Apart
      <3> QED BY <1>1, <2>4, <3>1, <3>2, ApartKept
    <2>7. Stations'
      <3>1. pc'[t] = "dec" /\ pParcel'[t] # NULL
        BY <1>2, <1>3, <2>1, <2>2
      <3> QED BY <1>1, <1>6, <1>12, <2>3, <3>1, StationsKept
    <2>8. Rings'
      <3>1. \A s \in Realm : t \notin Drawing(s)'
        BY <2>2 DEF Drawing
      <3>2. ~Waiting(p)'
        BY <1>6, <1>9, <2>2, <2>5 DEF Waiting, Fetching
      <3> QED BY <1>6, <2>1, <2>3, <2>4, <3>1, <3>2, RingsFewer
    <2> QED BY <1>6, <1>9, <2>4, <2>5, <2>6, <2>7, <2>8
  <1> QED BY <1>8, <1>11, <1>12

(* Counting a parcel off: after that it is nowhere.                        *)
LEMMA FreeDecPlace ==
  ASSUME Basis, CramInv', NEW t \in Thread, FreeDec(t), UNCHANGED <<mvParcel, tag>>
  PROVE  /\ \E p \in Carved : /\ Others(p) /\ t \in Holders(p) /\ live' = live
                              /\ p \notin live' /\ Holders(p)' = {} /\ ~Listed(p)' /\ Slots(p)' = {}
         /\ Stations' /\ Apart' /\ Rings'
  <1>1. CramInv /\ CramTypes /\ TypeOK /\ OwnerPhase /\ Filed /\ Stations /\ Apart /\ Rings
    BY DEF Basis, CramInv, CramTypes
  <1>2. /\ pc[t] = "dec"
        /\ pParcel' = [pParcel EXCEPT ![t] = NULL]
        /\ oRevolver' = [oRevolver EXCEPT ![t] = 0]
        /\ pListMT' = [pListMT EXCEPT ![t] = NULL]
        /\ UNCHANGED <<mListST, maListMT, ring, mbCache, oCache, live, tag>>
    BY DEF FreeDec, lists
  <1>3. PICK l \in {"delete", "idle"} : Goto(t, l)
    BY DEF FreeDec, AfterDec
  <1>4. pParcel[t] # NULL /\ ~mbCache
    BY <1>1, <1>2 DEF Stations, InFlight
  <1>5. PICK p \in Carved : p = pParcel[t]
    BY <1>1, <1>4 DEF Filed
  <1>6. p \in Parcel /\ p # NULL
    BY <1>5, Names DEF Carved
  <1>7. /\ \A u \in Thread : pc'[u] = IF u = t THEN l ELSE pc[u]
        /\ \A u \in Thread : pParcel'[u] = IF u = t THEN NULL ELSE pParcel[u]
        /\ \A u \in Thread : oRevolver'[u] = IF u = t THEN 0 ELSE oRevolver[u]
        /\ \A u \in Thread : pListMT'[u] = IF u = t THEN NULL ELSE pListMT[u]
    BY <1>1, <1>2, <1>3 DEF TypeOK, Goto
  <1>8. Acts(t)
    BY <1>7 DEF Acts
  <1>9. Others(p)
    BY <1>1, <1>2, <1>5, <1>7, <1>8, OthersKept
  <1>10. t \in Holders(p) /\ Holders(p) = {t} /\ p \notin live /\ ~Listed(p) /\ Slots(p) = {}
    <2>1. t \in Holders(p)
      BY <1>5 DEF Holders
    <2> QED BY <1>1, <1>5, <2>1 DEF Apart, AtOne
  <1>11. p \notin live' /\ Holders(p)' = {} /\ ~Listed(p)' /\ Slots(p)' = {}
    <2>1. Holders(p)' = {}
      BY <1>6, <1>7, <1>10 DEF Holders
    <2> QED BY <1>2, <1>10, <2>1 DEF Listed, Slots
  <1>12. Apart'
    <2>1. AtOne(p \in live, Holders(p), Listed(p), Slots(p))'
      BY <1>11 DEF AtOne
    <2>2. \A s \in Realm : Once(mListST'[s])
      BY <1>1, <1>2 DEF Apart
    <2> QED BY <1>1, <1>9, <2>1, <2>2, ApartKept
  <1>13. Stations'
    BY <1>1, <1>2, <1>4, <1>7, <1>8, StationsKept
  <1>14. Rings'
    <2>1. \A s \in Realm : t \notin Drawing(s)'
      BY <1>7 DEF Drawing
    <2>2. ~Waiting(p)'
      BY <1>11 DEF Waiting, Fetching
    <2> QED BY <1>2, <1>8, <1>9, <2>1, <2>2, RingsFewer
  <1> QED BY <1>2, <1>9, <1>10, <1>11, <1>12, <1>13, <1>14

(* Clearance closes a slot; the parcel that was there, if any, is nowhere. *)
LEMMA SweepPlace ==
  ASSUME Basis, CramInv', ClearanceSweep, UNCHANGED <<mvParcel, tag>>,
         NEW i \in SlotIndex, i = Slot(mRevolverAlloc[oCache] + nSwept)
  PROVE  /\ \/ maListMT[oCache][i] \in {<<>>, Closed} /\ Others(NULL)
            \/ \E p \in Carved : /\ maListMT[oCache][i] = <<p>> /\ i \in Slots(p) /\ Others(p)
                                 /\ p \notin live' /\ Holders(p)' = {} /\ ~Listed(p)' /\ Slots(p)' = {}
         /\ Stations' /\ Apart' /\ Rings'
  <1>1. CramInv /\ CramTypes /\ TypeOK /\ OwnerPhase /\ Filed /\ Stations /\ Apart /\ Rings
    BY DEF Basis, CramInv, CramTypes
  <1>2. PICK r \in Realm : r = oCache
    BY <1>1 DEF TypeOK
  <1>3. /\ pc[Owner] = "sweep" /\ ~mbCache
        /\ UNCHANGED <<mListST, ring, freeing, live, mbCache, tag>>
    BY <1>1 DEF ClearanceSweep, Sweep, OwnerPhase
  <1>4. PICK l \in {"sub", "walk", "sweep"} : Goto(Owner, l)
    BY DEF ClearanceSweep, Sweep
  <1>5. \A u \in Thread : pc'[u] = IF u = Owner THEN l ELSE pc[u]
    BY <1>1, <1>4 DEF TypeOK, Goto
  <1>6. \A s \in Realm, k \in SlotIndex :
          maListMT'[s][k] = IF s = r /\ k = i THEN Closed ELSE maListMT[s][k]
    <2>1. maListMT' = [maListMT EXCEPT ![r][i] = Closed]
      BY <1>2 DEF ClearanceSweep, Sweep, Closed
    <2>2. Closed \in Seq(Parcel \cup {Invalid})
      BY DEF Closed
    <2> QED BY ZenonT(60), <1>1, <2>1, <2>2, SetSlot
  <1>7. Owner \in Thread /\ Acts(Owner) /\ pParcel[Owner] = NULL /\ pParcel'[Owner] = NULL
    BY <1>1, <1>3, <1>5, Names DEF Acts, Stations, InFlight, freeing
  <1>8. \A s \in Realm : Once(mListST'[s])
    BY <1>1, <1>3 DEF Apart
  <1>9. Stations'
    BY <1>1, <1>3, <1>5, <1>7, StationsKept
  <1>10. \A s \in Realm : Owner \notin Drawing(s)'
    BY <1>5 DEF Drawing
  <1>11. maListMT[r][i] \in {<<>>, Closed} \cup Single
    BY <1>1 DEF Rings, RingShape
  <1>12. CASE maListMT[r][i] \in {<<>>, Closed}
    <2>1. Others(NULL)
      <3>1. \A s \in Realm, k \in SlotIndex : \A q \in Parcel \ {NULL} :
              maListMT'[s][k] = <<q>> <=> maListMT[s][k] = <<q>>
        <4>1. \A q \in Parcel : <<q>> # Closed /\ <<q>> # <<>>
          BY Names DEF Closed
        <4> QED BY <1>6, <1>12, <4>1
      <3> QED BY <1>1, <1>3, <1>7, <3>1, OthersKept
    <2>2. NULL \notin Carved /\ NULL \notin Carved'
      BY Names DEF Carved
    <2>3. Apart'
      BY <1>1, <1>8, <2>1, <2>2, ApartKept
    <2>4. Rings'
      BY <1>3, <1>6, <1>7, <1>10, <2>1, <2>2, RingsFewer
    <2> QED BY <1>2, <1>9, <1>12, <2>1, <2>3, <2>4
  <1>13. CASE maListMT[r][i] \in Single
    <2>1. PICK p \in Parcel : maListMT[r][i] = <<p>>
      BY <1>13 DEF Single
    <2>2. p \in Carved /\ tag[p] = r /\ i \in Slots(p)
      <3>1. Range(<<p>>) = {p}
        BY DEF Range
      <3>2. tag[p] = r
        BY <1>1, <2>1, <3>1, Names DEF Filed
      <3> QED BY <1>1, <2>1, <3>2, TaggedIsCarved DEF Slots
    <2>3. p \notin live /\ Holders(p) = {} /\ ~Listed(p) /\ Slots(p) = {i}
      BY <1>1, <2>2 DEF Apart, AtOne
    <2>4. <<p>> # Closed
      BY <2>1, Names DEF Closed
    <2>5. Others(p)
      <3>1. \A s \in Realm, k \in SlotIndex : \A q \in Parcel \ {p} :
              maListMT'[s][k] = <<q>> <=> maListMT[s][k] = <<q>>
        <4>1. \A q \in Parcel : <<q>> # Closed
          BY Names DEF Closed
        <4> TAKE s \in Realm, k \in SlotIndex
        <4> TAKE q \in Parcel \ {p}
        <4>2. CASE s = r /\ k = i
          <5>1. maListMT'[s][k] = Closed /\ maListMT[s][k] = <<p>>
            BY <1>6, <2>1, <4>2
          <5>2. <<p>> # <<q>>
            OBVIOUS
          <5> QED BY <4>1, <5>1, <5>2
        <4>3. CASE ~(s = r /\ k = i)
          <5>1. maListMT'[s][k] = maListMT[s][k]
            BY <1>6, <4>3
          <5> QED BY <5>1
        <4> QED BY <4>2, <4>3
      <3> QED BY <1>1, <1>3, <1>7, <3>1, OthersKept
    <2>6. p \notin live' /\ Holders(p)' = {} /\ ~Listed(p)' /\ Slots(p)' = {}
      <3>1. \A k \in SlotIndex : maListMT[r][k] = <<p>> => k = i
        BY <2>2, <2>3 DEF Slots
      <3>2. \A k \in SlotIndex : maListMT'[r][k] # <<p>>
        <4> TAKE k \in SlotIndex
        <4>1. CASE k = i
          BY <1>6, <2>4, <4>1
        <4>2. CASE k # i
          <5>1. maListMT'[r][k] = maListMT[r][k]
            BY <1>6, <4>2
          <5> QED BY <3>1, <4>2, <5>1
        <4> QED BY <4>1, <4>2
      <3>3. tag'[p] = r
        BY <1>3, <2>2
      <3>4. Slots(p)' = {}
        BY <3>2, <3>3 DEF Slots
      <3> QED BY <1>3, <2>3, <3>4 DEF Holders, Listed, freeing
    <2>7. Apart'
      <3>1. AtOne(p \in live, Holders(p), Listed(p), Slots(p))'
        BY <2>6 DEF AtOne
      <3> QED BY <1>1, <1>8, <2>5, <3>1, ApartKept
    <2>8. Rings'
      <3>1. ~Waiting(p)'
        BY <2>6 DEF Waiting, Fetching
      <3> QED BY <1>3, <1>6, <1>7, <1>10, <2>5, <3>1, RingsFewer
    <2> QED BY <1>2, <1>9, <2>1, <2>2, <2>5, <2>6, <2>7, <2>8
  <1> QED BY <1>11, <1>12, <1>13

(* The steps that move no parcel.                                          *)
LEMMA OtherPlaces ==
  ASSUME Basis, CramInv', UNCHANGED <<mvParcel, tag>>,
         \/ \E r \in Realm : AllocExhausted(r)
         \/ ThreadExit \/ ClearanceBegin \/ ClearanceWalk \/ ClearanceEnd \/ Renew
         \/ \E t \in Thread : Delete(t)
  PROVE  Others(NULL) /\ Stations' /\ Apart' /\ Rings' /\ live' = live
  <1>1. TypeOK /\ OwnerPhase /\ Stations
    BY DEF Basis, CramInv, CramTypes
  <1>2. UNCHANGED <<lists, ring, freeing, live, tag>>
    BY DEF AllocExhausted, ThreadExit, ClearanceBegin, ClearanceWalk, Walk, ClearanceEnd,
           Renew, Delete, state
  <1>3. ASSUME \/ \E r \in Realm : AllocExhausted(r)
               \/ ThreadExit \/ ClearanceBegin \/ ClearanceWalk \/ ClearanceEnd \/ Renew
        PROVE  /\ pc[Owner] \notin {"fetch", "load", "cas", "dec"}
               /\ mbCache' => mbCache /\ oCache' = oCache
               /\ \E l \in {"clear", "exited", "walk", "sweep", "delete", "renew", "idle"} :
                    Goto(Owner, l) /\ (l = "delete" => ~mbCache')
    <2>1. CASE \E r \in Realm : AllocExhausted(r)
      BY <2>1 DEF AllocExhausted, state
    <2>2. CASE ThreadExit
      BY <2>2 DEF ThreadExit
    <2>3. CASE ClearanceBegin
      BY <2>3 DEF ClearanceBegin
    <2>4. CASE ClearanceWalk
      BY <2>4 DEF ClearanceWalk, Walk, state
    <2>5. CASE ClearanceEnd
      BY <1>1, <2>5 DEF ClearanceEnd, AfterClearance, OwnerPhase
    <2>6. CASE Renew
      BY <2>6 DEF Renew
    <2> QED BY <1>3, <2>1, <2>2, <2>3, <2>4, <2>5, <2>6
  <1>4. ASSUME NEW t \in Thread, Delete(t)
        PROVE  /\ pc[t] \notin {"fetch", "load", "cas", "dec"}
               /\ mbCache' => mbCache /\ oCache' = oCache
               /\ \E l \in {"idle", "exited"} : Goto(t, l) /\ (t # Owner => l = "idle")
    BY <1>4 DEF Delete, state
  <1>5. PICK t \in Thread :
          /\ pc[t] \notin {"fetch", "load", "cas", "dec"}
          /\ mbCache' => mbCache /\ oCache' = oCache
          /\ \E l \in {"clear", "exited", "walk", "sweep", "delete", "renew", "idle"} :
               /\ Goto(t, l) /\ (l = "delete" => ~mbCache')
               /\ t # Owner => l = "idle"
    BY <1>3, <1>4, Names
  <1>6. PICK l \in {"clear", "exited", "walk", "sweep", "delete", "renew", "idle"} :
          /\ Goto(t, l) /\ (l = "delete" => ~mbCache')
          /\ t # Owner => l = "idle"
    BY <1>5
  <1>7. \A u \in Thread : pc'[u] = IF u = t THEN l ELSE pc[u]
    BY <1>1, <1>6 DEF TypeOK, Goto
  <1> QED BY <1>2, <1>5, <1>6, <1>7, QuietStep

(* Every step keeps Basis.                                                 *)
LEMMA BasisKept == Basis /\ [Next]_cramVars => Basis'
  <1> SUFFICES ASSUME Basis, [Next]_cramVars PROVE Basis'
    OBVIOUS
  <1>1. CramInv'
    BY CramKeeps DEF Basis
  <1> DEFINE Kept == Stations' /\ Apart' /\ Rings'
  <1>2. ASSUME NEW r \in Realm, CramAlloc(r) PROVE Kept
    <2>1. CASE AllocCarve(r)
      BY <1>1, <2>1, CarveStep
    <2>2. CASE AllocCached(r) /\ UNCHANGED <<mvParcel, tag>>
      <3>1. CASE TakeST(r) /\ live' = live \cup {Head(mListST[r])}
        BY <1>1, <2>2, <3>1, AllocSTStep
      <3>2. CASE TakeMT(r) /\ live' = live \cup {Head(maListMT[r][AllocSlot(r)])}
        BY <1>1, <2>2, <3>2, AllocMTStep
      <3> QED BY <2>2, <3>1, <3>2 DEF AllocCached
    <2>3. CASE AllocExhausted(r) /\ UNCHANGED <<mvParcel, tag>>
      BY <1>1, <2>3, OtherPlaces
    <2> QED BY <1>2, <2>1, <2>2, <2>3 DEF CramAlloc
  <1>3. ASSUME CramClearance PROVE Kept
    <2>1. UNCHANGED <<mvParcel, tag>>
      BY <1>3 DEF CramClearance
    <2>2. CASE ClearanceSweep
      <3>1. mRevolverAlloc[oCache] + nSwept \in Nat
        BY DEF Basis, CramInv, CramTypes, TypeOK
      <3>2. PICK i \in SlotIndex : i = Slot(mRevolverAlloc[oCache] + nSwept)
        BY <3>1, SlotRange
      <3> QED BY <1>1, <2>1, <2>2, <3>2, SweepPlace
    <2>3. CASE ClearanceBegin \/ ClearanceWalk \/ ClearanceEnd \/ Renew
      BY <1>1, <2>1, <2>3, OtherPlaces
    <2> QED BY <1>3, <2>2, <2>3 DEF CramClearance, Clearance
  <1>4. ASSUME CramExit PROVE Kept
    BY <1>1, <1>4, OtherPlaces DEF CramExit
  <1>5. ASSUME NEW t \in Thread, CramFree(t) PROVE Kept
    BY <1>1, <1>5, FreePlace DEF CramFree
  <1>6. ASSUME NEW t \in Thread, CramStep(t) PROVE Kept
    <2>1. UNCHANGED <<mvParcel, tag>>
      BY <1>6 DEF CramStep
    <2>2. CASE pParcel[t] # NULL /\ ListMT(t, tag[pParcel[t]])
      <3>1. UNCHANGED state
        BY <2>2 DEF ListMT
      <3> QED BY <1>1, <2>1, <2>2, <3>1, FetchPlace, LoadPlace, CasPlace DEF ListMT
    <2>3. CASE FreeDec(t)
      BY <1>1, <2>1, <2>3, FreeDecPlace
    <2>4. CASE Delete(t)
      BY <1>1, <2>1, <2>4, OtherPlaces
    <2> QED BY <1>6, <2>2, <2>3, <2>4 DEF CramStep
  <1>7. ASSUME UNCHANGED cramVars PROVE Kept
    <2>1. UNCHANGED <<mListST, maListMT, mRevolverFree, mRevolverAlloc, pc>> /\ UNCHANGED freeing
          /\ UNCHANGED <<mbCache, oCache, live, tag>>
      BY <1>7 DEF cramVars, vars, lists, ring, state
    <2>2. UNCHANGED <<pParcel, oRevolver, pListMT>>
      BY <2>1 DEF freeing
    <2>3. Stations'
      BY <2>1, <2>2 DEF Basis, Stations, InFlight
    <2>4. /\ \A p \in Parcel : /\ Holders(p)' = Holders(p) /\ Fetching(p)' = Fetching(p)
                              /\ Listed(p)' = Listed(p) /\ Slots(p)' = Slots(p)
          /\ Carved' = Carved
      BY <2>1, <2>2 DEF Holders, Fetching, Listed, Slots, Carved
    <2>5. Apart'
      <3>1. Apart /\ Carved \subseteq Parcel
        BY DEF Basis, Carved
      <3> QED BY <2>1, <2>4, <3>1 DEF Apart, Once
    <2>6. Rings'
      <3>1. Rings /\ Carved \subseteq Parcel
        BY DEF Basis, Carved
      <3> SUFFICES ASSUME NEW r \in Realm PROVE RingShape(r)' /\ RingWindow(r)'
        BY DEF Rings
      <3>2. CarvedIn(r)' = CarvedIn(r)
        BY <2>1, <2>4 DEF CarvedIn
      <3>3. Unclaimed(r)' = Unclaimed(r)
        BY <2>1, <2>4, <3>1, <3>2 DEF Unclaimed, Waiting, CarvedIn
      <3>4. Drawing(r)' = Drawing(r)
        BY <2>1, <2>2 DEF Drawing
      <3>5. Claimed(r)' = Claimed(r)
        BY <2>1, <2>2, <3>4 DEF Claimed
      <3>6. RingShape(r)'
        BY <2>1, <2>2, <3>1, <3>4 DEF Rings, RingShape
      <3>7. AllocSlot(r)' = AllocSlot(r) /\ Slot(mRevolverFree[r])' = Slot(mRevolverFree[r])
        BY <2>1 DEF AllocSlot, Slot
      <3>8. RingWindow(r)'
        BY <3>1, <3>2, <3>3, <3>5, <3>7 DEF Rings, RingWindow
      <3> QED BY <3>6, <3>8
    <2> QED BY <2>3, <2>5, <2>6
  <1>8. \/ \E r \in Realm : CramAlloc(r)
        \/ CramClearance
        \/ CramExit
        \/ \E t \in Thread : CramFree(t) \/ CramStep(t)
        \/ UNCHANGED cramVars
    <2>1. Next => \/ \E r \in Realm : CramAlloc(r)
                  \/ CramClearance
                  \/ CramExit
                  \/ \E t \in Thread : CramFree(t) \/ CramStep(t)
                  \/ Finished /\ UNCHANGED <<mvParcel, tag>>
      BY DEF Next
    <2>2. Finished /\ UNCHANGED <<mvParcel, tag>> => UNCHANGED cramVars
      BY DEF Finished, cramVars
    <2> QED BY <2>1, <2>2
  <1> HIDE DEF Kept
  <1>9. Kept
    BY <1>2, <1>3, <1>4, <1>5, <1>6, <1>7, <1>8
  <1> QED BY <1>1, <1>9 DEF Kept, Basis

-----------------------------------------------------------------------------
(* Where the parcels that still have to come back are: every one of them   *)
(* is at one of the places of Apart, but for the lists Clearance has       *)
(* counted already.                                                        *)
Where ==
  \A p \in Parcel :
    /\ p \in Freeing <=> p \in Carved /\ Holders(p) # {}
    /\ p \in ListedST <=> p \in Carved /\ Listed(p) /\ ~Walked(tag[p])
    /\ p \in ListedMT <=> p \in Carved /\ Slots(p) # {}

(* The places, and what is outstanding.                                    *)
LEMMA Whereabouts == Basis => Where
  <1> SUFFICES ASSUME Basis, NEW p \in Parcel
               PROVE  /\ p \in Freeing <=> p \in Carved /\ Holders(p) # {}
                      /\ p \in ListedST <=> p \in Carved /\ Listed(p) /\ ~Walked(tag[p])
                      /\ p \in ListedMT <=> p \in Carved /\ Slots(p) # {}
    BY DEF Where
  <1>1. CramTypes /\ Filed /\ Stations /\ Rings /\ p # NULL /\ p # Invalid
    BY Names DEF Basis, CramInv
  <1>2. p \in Carved <=> tag[p] \in Realm
    BY <1>1, TaggedIsCarved
  <1>3. p \in Freeing <=> p \in Carved /\ Holders(p) # {}
    <2>1. p \in Freeing <=> \E t \in InFlight : pParcel[t] = p
      BY DEF Freeing
    <2>2. \A t \in Thread : pParcel[t] = p => t \in InFlight /\ p \in Carved
      BY <1>1 DEF Stations, Filed
    <2>3. InFlight \subseteq Thread
      BY DEF InFlight
    <2> QED BY <2>1, <2>2, <2>3 DEF Holders
  <1>4. p \in ListedST <=> p \in Carved /\ Listed(p) /\ ~Walked(tag[p])
    BY <1>1, <1>2 DEF ListedST, Listed, Filed
  <1>5. p \in ListedMT <=> p \in Carved /\ Slots(p) # {}
    <2>1. ASSUME NEW r \in Realm, NEW i \in SlotIndex
          PROVE  p \in Range(maListMT[r][i]) <=> maListMT[r][i] = <<p>>
      <3> DEFINE list == maListMT[r][i]
      <3>1. list \in {<<>>, Closed} \/ \E q \in Parcel : list = <<q>>
        BY <1>1 DEF Rings, RingShape, Single
      <3>2. /\ Range(<<>>) = {} /\ Range(Closed) = {Invalid}
            /\ \A q : Range(<<q>>) = {q}
        BY DEF Range, Closed
      <3> HIDE DEF list
      <3>3. CASE list = <<>>
        <4>1. <<p>> # <<>>
          OBVIOUS
        <4> QED BY <3>2, <3>3, <4>1 DEF list
      <3>4. CASE list = Closed
        <4>1. <<p>> # Closed
          BY <1>1 DEF Closed
        <4> QED BY <1>1, <3>2, <3>4, <4>1 DEF list
      <3>5. ASSUME NEW q \in Parcel, list = <<q>> PROVE p \in Range(list) <=> list = <<p>>
        <4>1. Range(list) = {q}
          BY <3>2, <3>5
        <4>2. <<q>> = <<p>> <=> q = p
          OBVIOUS
        <4> QED BY <3>5, <4>1, <4>2
      <3> QED BY <3>1, <3>3, <3>4, <3>5 DEF list
    <2>2. \A r \in Realm, i \in SlotIndex : p \in Range(maListMT[r][i]) => tag[p] = r
      BY <1>1 DEF Filed
    <2>3. p \in ListedMT <=> \E r \in Realm, i \in SlotIndex : maListMT[r][i] = <<p>> /\ tag[p] = r
      BY <2>1, <2>2 DEF ListedMT
    <2> QED BY <1>2, <2>3 DEF Slots
  <1> QED BY <1>3, <1>4, <1>5

(* The same of the next state.                                             *)
LEMMA WhereaboutsNext == Basis' => Where'
  BY Whereabouts, PTL

(* A parcel is out if it is somewhere.                                     *)
Out(p) ==
  \/ p \in live \/ Holders(p) # {}
  \/ Listed(p) /\ ~Walked(tag[p])
  \/ Slots(p) # {}

OutAt == \A p \in Parcel : p \in Outstanding <=> p \in Carved /\ Out(p)

(* Those are the parcels that have to come back.                           *)
LEMMA OutIs == Basis => OutAt
  <1> SUFFICES ASSUME Basis PROVE OutAt
    OBVIOUS
  <1>1. Where /\ live \subseteq Carved
    BY Whereabouts DEF Basis, CramInv, Filed
  <1> QED BY <1>1 DEF Where, OutAt, Outstanding, Out

(* The same of the next state.                                             *)
LEMMA OutIsNext == Basis' => OutAt'
  BY OutIs, PTL

(* The parcels to come back are finitely many.                             *)
LEMMA OutstandingFinite ==
  ASSUME TypeOK
  PROVE  Outstanding \subseteq Parcel /\ IsFiniteSet(Outstanding) /\ Cardinality(Outstanding) \in Nat
  <1>1. Outstanding \subseteq Parcel
    BY DEF Outstanding, Freeing, ListedST, ListedMT, TypeOK
  <1> QED BY <1>1, Constants, FS_Subset, FS_CardinalityType

(* They are parcels in the next state, too.                                *)
LEMMA OutstandingNext == Basis' => (Outstanding \subseteq Parcel)'
  BY DEF Basis, CramInv, CramTypes, TypeOK, Outstanding, Freeing, ListedST, ListedMT

(* The lists Clearance has counted are the same after the step.            *)
Steady == \A s \in Realm : Walked(s)' <=> Walked(s)

(* Then only the parcel that moves can come or go.                         *)
LEMMA OutOthers ==
  ASSUME Basis, Basis', NEW p, Others(p), Steady
  PROVE  \A q \in Parcel \ {p} : q \in Outstanding' <=> q \in Outstanding
  <1> SUFFICES ASSUME NEW q \in Parcel \ {p} PROVE q \in Outstanding' <=> q \in Outstanding
    OBVIOUS
  <1>1. q \in Outstanding <=> q \in Carved /\ Out(q)
    BY OutIs DEF OutAt
  <1>2. q \in Outstanding' <=> q \in Carved' /\ Out(q)'
    BY OutIsNext DEF OutAt
  <1>3. q \in Carved' <=> q \in Carved
    BY DEF Others, Carved
  <1>4. ASSUME q \in Carved PROVE Out(q)' <=> Out(q)
    <2>1. /\ q \in live' <=> q \in live
          /\ Holders(q)' = Holders(q)
          /\ Listed(q)' <=> Listed(q)
          /\ Slots(q)' = Slots(q)
          /\ tag'[q] = tag[q]
      BY <1>4 DEF Others
    <2>2. PICK s \in Realm : s = tag[q]
      BY <1>4, TaggedIsCarved DEF Basis, CramInv
    <2>3. Walked(tag[q]) <=> Walked(s)
      BY <2>2
    <2>4. Walked(tag[q])' <=> Walked(s)'
      BY <2>1, <2>2 DEF Walked
    <2> QED BY <2>1, <2>3, <2>4 DEF Out, Steady
  <1> QED BY <1>1, <1>2, <1>3, <1>4

(* If that parcel neither comes nor goes, none does.                       *)
LEMMA OutSame ==
  ASSUME Basis, Basis', NEW p, Others(p), Steady,
         p \in Parcel => (p \in Outstanding' <=> p \in Outstanding)
  PROVE  Outstanding' = Outstanding
  <1>1. Outstanding \subseteq Parcel /\ Outstanding' \subseteq Parcel
    BY OutstandingFinite, OutstandingNext DEF Basis, CramInv, CramTypes
  <1>2. \A q \in Parcel : q \in Outstanding' <=> q \in Outstanding
    BY OutOthers
  <1> QED BY <1>1, <1>2

(* If it was somewhere and is nowhere any more, it is the one that goes.   *)
LEMMA OutLess ==
  ASSUME Basis, Basis', NEW p \in Carved, Others(p), Steady, Out(p), ~Out(p)'
  PROVE  p \in Outstanding /\ Outstanding' = Outstanding \ {p}
  <1>1. Outstanding \subseteq Parcel /\ Outstanding' \subseteq Parcel /\ p \in Parcel
    BY OutstandingFinite, OutstandingNext DEF Basis, CramInv, CramTypes, Carved
  <1>2. p \in Outstanding
    BY <1>1, OutIs DEF OutAt
  <1>3. p \notin Outstanding'
    BY <1>1, OutIsNext DEF OutAt
  <1>4. \A q \in Parcel \ {p} : q \in Outstanding' <=> q \in Outstanding
    BY OutOthers
  <1> QED BY <1>1, <1>2, <1>3, <1>4

(* A parcel that stays somewhere stays out.                                *)
LEMMA OutStays ==
  ASSUME Basis, Basis', NEW p \in Carved, Others(p), Steady, tag'[p] = tag[p], Out(p), Out(p)'
  PROVE  Outstanding' = Outstanding
  <1>1. p \in Parcel /\ p \in Carved'
    BY DEF Carved
  <1>2. p \in Outstanding
    BY <1>1, OutIs DEF OutAt
  <1>3. p \in Outstanding'
    BY <1>1, OutIsNext DEF OutAt
  <1> QED BY <1>2, <1>3, OutSame

-----------------------------------------------------------------------------
(* Which lists are counted depends on the owner; when it is not at them,   *)
(* or stays where it is, they stay the same.                               *)
LEMMA SteadyKept ==
  ASSUME mbCache' = mbCache,
         \/ mbCache
         \/ ~Sweeping /\ pc'[Owner] \notin {"walk", "sweep"}
         \/ pc'[Owner] = pc[Owner] /\ oCache' = oCache
  PROVE  Steady
  BY DEF Steady, Walked, Sweeping

(* A step of thread t, which is not the owner at a list, is such a step.   *)
LEMMA SteadyThread ==
  ASSUME TypeOK, mbCache' = mbCache, oCache' = oCache,
         NEW t \in Thread, pc[t] \notin {"walk", "sweep"},
         NEW l \in Label \ {"walk", "sweep"}, Goto(t, l)
  PROVE  /\ pc'[Owner] = pc[Owner] \/ (~Sweeping /\ pc'[Owner] \notin {"walk", "sweep"})
         /\ Steady
  <1>1. \A u \in Thread : pc'[u] = IF u = t THEN l ELSE pc[u]
    BY DEF TypeOK, Goto
  <1>2. pc'[Owner] = pc[Owner] \/ (~Sweeping /\ pc'[Owner] \notin {"walk", "sweep"})
    BY <1>1, Names DEF Sweeping
  <1> QED BY <1>2, SteadyKept

(* Alloc from a cache moves a parcel, none gets lost: the slot it empties  *)
(* held no other.                                                          *)
LEMMA AllocOut ==
  ASSUME Basis, Basis', NEW r \in Realm, AllocCached(r), UNCHANGED <<mvParcel, tag>>
  PROVE  Outstanding' = Outstanding
  <1>1. mbCache /\ mbCache' = mbCache /\ tag' = tag
    BY DEF AllocCached, Basis, CramInv, OwnerPhase
  <1>2. Steady
    BY <1>1, SteadyKept
  <1>3. CramInv'
    BY DEF Basis
  <1>4. \E p \in Carved : /\ Others(p) /\ (Listed(p) \/ Slots(p) # {})
                          /\ live' = live \cup {p}
    BY <1>3, AllocSTStep, AllocMTStep DEF AllocCached
  <1>5. PICK p \in Carved : Others(p) /\ (Listed(p) \/ Slots(p) # {}) /\ live' = live \cup {p}
    BY <1>4
  <1>6. ~Walked(tag[p])
    BY <1>1 DEF Walked
  <1>7. Out(p) /\ Out(p)'
    BY <1>5, <1>6 DEF Out
  <1> QED BY <1>1, <1>2, <1>5, <1>7, OutStays

(* Carving adds a parcel to those that have to come back.                  *)
LEMMA CarveOut ==
  ASSUME Basis, Basis', NEW r \in Realm, AllocCarve(r)
  PROVE  \E p \in Parcel \ Outstanding : Outstanding' = Outstanding \cup {p}
  <1>1. mbCache /\ mbCache' = mbCache
    BY DEF AllocCarve, Basis, CramInv, OwnerPhase
  <1>2. Steady
    BY <1>1, SteadyKept
  <1>3. CramInv'
    BY DEF Basis
  <1>4. PICK p \in Parcel \ Carved : Others(p) /\ p \in Carved' /\ live' = live \cup {p}
    BY <1>3, CarveStep
  <1>5. Outstanding \subseteq Parcel /\ Outstanding' \subseteq Parcel
    BY OutstandingFinite, OutstandingNext DEF Basis, CramInv, CramTypes
  <1>6. p \notin Outstanding
    BY OutIs DEF OutAt
  <1>7. p \in Outstanding'
    BY <1>4, OutIsNext DEF OutAt, Out
  <1>8. \A q \in Parcel \ {p} : q \in Outstanding' <=> q \in Outstanding
    BY <1>2, <1>4, OutOthers
  <1>9. Outstanding' = Outstanding \cup {p}
    BY <1>5, <1>7, <1>8
  <1> QED BY <1>6, <1>9

(* A parcel that is freed is held by the free, or on the owner's list.     *)
LEMMA FreeOut ==
  ASSUME Basis, Basis', NEW t \in Thread, NEW p \in live, Free(t, p, tag[p]),
         UNCHANGED <<mvParcel, tag>>
  PROVE  Outstanding' = Outstanding
  <1>1. /\ TypeOK /\ CramInv' /\ UNCHANGED <<mbCache, oCache>> /\ pc[t] = "idle"
        /\ tag' = tag
    BY DEF Basis, CramInv, CramTypes, Free
  <1>2. \E l \in {"idle", "fetch", "dec"} : Goto(t, l)
    BY <1>1 DEF Free, Goto, TypeOK
  <1>3. PICK l \in {"idle", "fetch", "dec"} : Goto(t, l)
    BY <1>2
  <1>4. Steady
    BY <1>1, <1>3, SteadyThread DEF Label
  <1>5. /\ p \in Carved /\ Others(p) /\ live' = live \ {p}
        /\ Holders(p)' # {} \/ (mbCache /\ Listed(p)')
    BY <1>1, FreePlace
  <1>6. mbCache => ~Walked(tag[p])'
    BY <1>1 DEF Walked
  <1>7. Out(p) /\ Out(p)'
    BY <1>5, <1>6 DEF Out
  <1> QED BY <1>1, <1>4, <1>5, <1>7, OutStays

(* Cache::ListMT keeps the parcel, or puts it on the ring.                 *)
LEMMA ListMTOut ==
  ASSUME Basis, Basis', NEW t \in Thread, pParcel[t] # NULL, ListMT(t, tag[pParcel[t]]),
         UNCHANGED <<mvParcel, tag>>
  PROVE  Outstanding' = Outstanding
  <1>1. /\ TypeOK /\ CramInv' /\ UNCHANGED state /\ pc[t] \in {"fetch", "load", "cas"}
        /\ tag' = tag
    BY DEF Basis, CramInv, CramTypes, ListMT, Fetch, Load, Cas
  <1>2. UNCHANGED <<mbCache, oCache>>
    BY <1>1 DEF state
  <1>3. PICK l \in {"idle", "load", "cas", "dec"} : Goto(t, l)
    BY DEF ListMT, Fetch, Load, Cas, AfterRead
  <1>4. Steady
    BY <1>1, <1>2, <1>3, SteadyThread DEF Label
  <1>5. \E p \in Carved : Others(p) /\ t \in Holders(p) /\ (Holders(p)' # {} \/ Slots(p)' # {})
    BY <1>1, FetchPlace, LoadPlace, CasPlace DEF ListMT
  <1>6. PICK p \in Carved : Others(p) /\ t \in Holders(p) /\ (Holders(p)' # {} \/ Slots(p)' # {})
    BY <1>5
  <1>7. Out(p) /\ Out(p)'
    BY <1>6 DEF Out
  <1> QED BY <1>1, <1>4, <1>6, <1>7, OutStays

(* The parcel DecCache(1) counts off is no longer out.                     *)
LEMMA FreeDecOut ==
  ASSUME Basis, Basis', NEW t \in Thread, FreeDec(t), UNCHANGED <<mvParcel, tag>>
  PROVE  \E p \in Outstanding : Outstanding' = Outstanding \ {p}
  <1>1. TypeOK /\ CramInv' /\ UNCHANGED <<mbCache, oCache>> /\ pc[t] = "dec"
    BY DEF Basis, CramInv, CramTypes, FreeDec
  <1>2. PICK l \in {"idle", "delete"} : Goto(t, l)
    BY DEF FreeDec, AfterDec
  <1>3. Steady
    BY <1>1, <1>2, SteadyThread DEF Label
  <1>4. PICK p \in Carved : /\ Others(p) /\ t \in Holders(p) /\ live' = live
                            /\ p \notin live' /\ Holders(p)' = {} /\ ~Listed(p)' /\ Slots(p)' = {}
    BY <1>1, FreeDecPlace
  <1>5. Out(p) /\ ~Out(p)'
    BY <1>4 DEF Out
  <1> QED BY <1>3, <1>4, <1>5, OutLess

(* What else a thread does leaves every parcel where it is.                *)
LEMMA QuietOut ==
  ASSUME Basis, Basis', UNCHANGED <<mvParcel, tag>>,
         \/ \E r \in Realm : AllocExhausted(r)
         \/ ThreadExit \/ ClearanceBegin \/ ClearanceEnd \/ Renew
         \/ \E t \in Thread : Delete(t)
  PROVE  Outstanding' = Outstanding
  <1>1. TypeOK /\ OwnerPhase /\ Stations /\ CramInv'
    BY DEF Basis, CramInv, CramTypes
  <1>2. Others(NULL)
    BY <1>1, OtherPlaces
  <1>3. Steady
    <2>1. CASE ClearanceBegin
      <3>1. pc[Owner] = "clear" /\ oCache' = oCache /\ Goto(Owner, "walk")
        BY <2>1 DEF ClearanceBegin
      <3>2. mbCache /\ oCache = 0 /\ pc'[Owner] = "walk"
        BY <1>1, <3>1, Names DEF OwnerPhase, Stations, Goto, TypeOK
      <3> QED BY <3>1, <3>2, Constants DEF Steady, Walked, Sweeping
    <2>2. CASE ClearanceEnd
      <3>1. pc[Owner] = "sub" /\ mbCache' = mbCache
            /\ \E l \in {"renew", "delete", "exited"} : Goto(Owner, l)
        BY <2>2 DEF ClearanceEnd, AfterClearance
      <3>2. pc'[Owner] \in {"renew", "delete", "exited"}
        BY <1>1, <3>1, Names DEF Goto, TypeOK
      <3> QED BY <3>1, <3>2, SteadyKept DEF Sweeping
    <2>3. CASE (\E r \in Realm : AllocExhausted(r)) \/ ThreadExit \/ Renew
      <3>1. pc[Owner] \in {"idle", "renew"} /\ UNCHANGED <<mbCache, oCache>>
            /\ \E l \in {"clear", "exited", "idle"} : Goto(Owner, l)
        BY <2>3 DEF AllocExhausted, ThreadExit, Renew, state
      <3> QED BY <1>1, <3>1, Names, SteadyThread DEF Label
    <2>4. ASSUME NEW t \in Thread, Delete(t) PROVE Steady
      <3>1. pc[t] = "delete" /\ UNCHANGED <<mbCache, oCache>>
            /\ \E l \in {"exited", "idle"} : Goto(t, l)
        BY <2>4 DEF Delete, state
      <3> QED BY <1>1, <3>1, SteadyThread DEF Label
    <2> QED BY <2>1, <2>2, <2>3, <2>4
  <1> QED BY <1>2, <1>3, Names, OutSame

(* Clearance counts the owner's list of a realm off, as long as it is.     *)
LEMMA WalkOut ==
  ASSUME Basis, Basis', ClearanceWalk, UNCHANGED <<mvParcel, tag>>
  PROVE  \E list \in SUBSET Outstanding :
           /\ Outstanding' = Outstanding \ list
           /\ nCache' = nCache + Cardinality(list)
  <1>1. TypeOK /\ OwnerPhase /\ Apart /\ Filed /\ CramTypes /\ CramInv'
    BY DEF Basis, CramInv, CramTypes
  <1>2. PICK r \in Realm : r = oCache
    BY <1>1 DEF TypeOK
  <1>3. /\ pc[Owner] = "walk" /\ Goto(Owner, "sweep")
        /\ UNCHANGED <<mListST, live, mbCache, oCache, tag>>
        /\ nCache' = nCache + Len(mListST[r])
    BY <1>2 DEF ClearanceWalk, Walk, lists, state
  <1>4. ~mbCache /\ pc'[Owner] = "sweep"
    BY <1>1, <1>3, Names DEF OwnerPhase, Goto, TypeOK
  <1>5. /\ ~Walked(r) /\ \A s \in Realm : Walked(s)' <=> Walked(s) \/ s = r
    BY <1>2, <1>3, <1>4, Constants DEF Walked, Sweeping
  <1>6. PICK list \in SUBSET Parcel : list = Range(mListST[r])
    <2>1. mListST[r] \in Seq(Parcel)
      BY <1>1 DEF TypeOK
    <2>2. Range(mListST[r]) \subseteq Parcel
      BY <2>1 DEF Range
    <2> QED BY <2>2
  <1>7. Cardinality(list) = Len(mListST[r])
    <2> DEFINE s == mListST[r]
    <2>1. s \in Seq(Parcel) /\ \A j, k \in 1 .. Len(s) : s[j] = s[k] => j = k
      BY <1>1 DEF TypeOK, Apart, Once
    <2> HIDE DEF s
    <2>2. Cardinality(Range(s)) = Len(s)
      BY <2>1, OnceCount
    <2> QED BY <1>6, <2>2 DEF s
  <1>8. Outstanding \subseteq Parcel /\ Outstanding' \subseteq Parcel
    BY <1>1, OutstandingFinite, OutstandingNext
  <1>9. ASSUME NEW q \in Parcel
        PROVE  /\ q \in list => q \in Outstanding
               /\ q \in Outstanding' <=> q \in Outstanding /\ q \notin list
    <2>1. q \in Outstanding <=> q \in Carved /\ Out(q)
      BY OutIs DEF OutAt
    <2>2. q \in Outstanding' <=> q \in Carved' /\ Out(q)'
      BY OutIsNext DEF OutAt
    <2>3. Carved' = Carved
      BY <1>3 DEF Carved
    <2>4. CASE q \notin Carved
      <3>1. q \notin list
        BY <1>1, <1>6, <2>4, TaggedIsCarved DEF Filed
      <3> QED BY <2>1, <2>2, <2>3, <2>4, <3>1
    <2>5. CASE q \in Carved
      <3>1. PICK s \in Realm : s = tag[q] /\ s = tag'[q]
        BY <1>1, <1>3, <2>5, TaggedIsCarved
      <3>2. Others(NULL) /\ q # NULL
        BY <1>1, OtherPlaces, Names
      <3>3. /\ q \in live' <=> q \in live
            /\ Holders(q)' = Holders(q)
            /\ Listed(q)' <=> Listed(q)
            /\ Slots(q)' = Slots(q)
        BY <2>5, <3>2 DEF Others
      <3>4. q \in list <=> Listed(q) /\ s = r
        BY <1>1, <1>6, <3>1 DEF Filed, Listed
      <3>5. Listed(q) => q \notin live /\ Holders(q) = {} /\ Slots(q) = {}
        BY <1>1, <2>5 DEF Apart, AtOne
      <3>6. Out(q) <=> \/ q \in live \/ Holders(q) # {}
                       \/ Listed(q) /\ ~Walked(s)
                       \/ Slots(q) # {}
        BY <3>1 DEF Out
      <3>7. Out(q)' <=> \/ q \in live \/ Holders(q) # {}
                        \/ Listed(q) /\ ~(Walked(s) \/ s = r)
                        \/ Slots(q) # {}
        <4>1. Walked(tag[q])' <=> Walked(s)'
          BY <3>1 DEF Walked
        <4> QED BY <1>5, <3>3, <4>1 DEF Out
      <3> QED BY <1>5, <2>1, <2>2, <2>3, <2>5, <3>4, <3>5, <3>6, <3>7
    <2> QED BY <2>4, <2>5
  <1>10. list \in SUBSET Outstanding /\ Outstanding' = Outstanding \ list
    BY <1>8, <1>9
  <1> QED BY <1>3, <1>7, <1>10

-----------------------------------------------------------------------------
(* The steps of a cram one by one.                                         *)
LEMMA Steps ==
  ASSUME [Next]_cramVars
  PROVE  \/ \E r \in Realm : AllocCarve(r)
         \/ /\ UNCHANGED <<mvParcel, tag>>
            /\ \/ \E r \in Realm : AllocCached(r) \/ AllocExhausted(r)
               \/ ClearanceBegin \/ ClearanceWalk \/ ClearanceSweep \/ ClearanceEnd \/ Renew
               \/ ThreadExit
               \/ \E t \in Thread :
                    \/ \E p \in live : Free(t, p, tag[p])
                    \/ pParcel[t] # NULL /\ ListMT(t, tag[pParcel[t]])
                    \/ FreeDec(t)
                    \/ Delete(t)
               \/ UNCHANGED vars
  <1>1. ASSUME NEW r \in Realm, CramAlloc(r)
        PROVE  \/ AllocCarve(r)
               \/ (AllocCached(r) \/ AllocExhausted(r)) /\ UNCHANGED <<mvParcel, tag>>
    BY <1>1 DEF CramAlloc
  <1>2. ASSUME NEW t \in Thread, CramFree(t) \/ CramStep(t)
        PROVE  /\ UNCHANGED <<mvParcel, tag>>
               /\ \/ \E p \in live : Free(t, p, tag[p])
                  \/ pParcel[t] # NULL /\ ListMT(t, tag[pParcel[t]])
                  \/ FreeDec(t)
                  \/ Delete(t)
    BY <1>2 DEF CramFree, CramStep
  <1>3. UNCHANGED cramVars => UNCHANGED vars /\ UNCHANGED <<mvParcel, tag>>
    BY DEF cramVars
  <1>4. Finished => UNCHANGED vars
    BY DEF Finished
  <1>5. \/ \E r \in Realm : CramAlloc(r)
        \/ CramClearance
        \/ CramExit
        \/ \E t \in Thread : CramFree(t) \/ CramStep(t)
        \/ Finished /\ UNCHANGED <<mvParcel, tag>>
        \/ UNCHANGED cramVars
    BY DEF Next
  <1>6. CramClearance => /\ UNCHANGED <<mvParcel, tag>>
                         /\ \/ ClearanceBegin \/ ClearanceWalk \/ ClearanceSweep
                            \/ ClearanceEnd \/ Renew
    BY DEF CramClearance, Clearance
  <1>7. CramExit => ThreadExit /\ UNCHANGED <<mvParcel, tag>>
    BY DEF CramExit
  <1> QED BY <1>1, <1>2, <1>3, <1>4, <1>5, <1>6, <1>7

(* The slot Clearance closes next lies nSwept slots behind the one that    *)
(* would be allocated from.                                                *)
LEMMA SweepOffset ==
  ASSUME TypeOK, NEW r \in Realm, nSwept < cnRevolver,
         NEW i \in SlotIndex, i = Slot(mRevolverAlloc[r] + nSwept)
  PROVE  Offset(AllocSlot(r), i) = nSwept
  <1> DEFINE n == mRevolverAlloc[r]
  <1>1. n \in 0 .. cnRevolver /\ nSwept \in 0 .. cnRevolver - 1
    BY Constants DEF TypeOK
  <1> HIDE DEF n
  <1>2. n + nSwept \in 0 .. 2 * cnRevolver - 1 /\ n \in 0 .. 2 * cnRevolver - 1
    BY <1>1, Constants
  <1>3. AllocSlot(r) = IF n < cnRevolver THEN n ELSE n - cnRevolver
    <2>1. Slot(n) = IF n < cnRevolver THEN n ELSE n - cnRevolver
      BY <1>2, SlotTwice
    <2> QED BY <2>1 DEF AllocSlot, n
  <1>4. i = IF n + nSwept < cnRevolver THEN n + nSwept ELSE (n + nSwept) - cnRevolver
    <2> DEFINE m == n + nSwept
    <2>1. m \in 0 .. 2 * cnRevolver - 1
      BY <1>2
    <2> HIDE DEF m
    <2>2. Slot(m) = IF m < cnRevolver THEN m ELSE m - cnRevolver
      BY <2>1, SlotTwice
    <2> QED BY <2>2 DEF m, n
  <1> QED BY <1>1, <1>3, <1>4, Constants DEF Offset

(* A step that closes no slot and leaves the owner where it is, or takes   *)
(* it away from the lists.                                                 *)
LEMMA ClosingKept ==
  ASSUME Closing,
         \/ pc'[Owner] \notin {"walk", "sweep"}
         \/ /\ \A r \in Realm, i \in SlotIndex : maListMT'[r][i] = Closed => maListMT[r][i] = Closed
            /\ UNCHANGED <<mRevolverAlloc, nSwept, oCache>>
            /\ pc'[Owner] = pc[Owner]
  PROVE  Closing'
  <1>1. CASE pc'[Owner] \notin {"walk", "sweep"}
    BY <1>1 DEF Closing, Sweeping
  <1>2. CASE /\ \A r \in Realm, i \in SlotIndex : maListMT'[r][i] = Closed => maListMT[r][i] = Closed
             /\ UNCHANGED <<mRevolverAlloc, nSwept, oCache>>
             /\ pc'[Owner] = pc[Owner]
    <2>1. \A r, i : Offset(AllocSlot(r), i)' = Offset(AllocSlot(r), i)
      BY <1>2 DEF Offset, AllocSlot, Slot
    <2>2. Sweeping' <=> Sweeping
      BY <1>2 DEF Sweeping
    <2>3. Closed' = Closed
      BY DEF Closed
    <2> QED BY <1>2, <2>1, <2>2, <2>3 DEF Closing
  <1> QED BY <1>1, <1>2

(* Slots are closed in order, by ClearanceSweep only.                      *)
LEMMA ClosingSweep ==
  ASSUME Basis, Closing, ClearanceSweep
  PROVE  Closing'
  <1>1. TypeOK /\ OwnerPhase
    BY DEF Basis, CramInv, CramTypes
  <1>2. PICK r \in Realm : r = oCache
    BY <1>1 DEF TypeOK
  <1>3. PICK i \in SlotIndex : i = Slot(mRevolverAlloc[r] + nSwept)
    <2>1. mRevolverAlloc[r] + nSwept \in Nat
      BY <1>1 DEF TypeOK
    <2> QED BY <2>1, SlotRange
  <1>4. /\ pc[Owner] = "sweep" /\ nSwept' = nSwept + 1 /\ nSwept \in Nat
        /\ mRevolverAlloc' = mRevolverAlloc
        /\ Goto(Owner, IF AllSwept(nSwept + 1) THEN IF r = LastRealm THEN "sub" ELSE "walk" ELSE "sweep")
        /\ oCache' = IF AllSwept(nSwept + 1) /\ r < LastRealm THEN r + 1 ELSE r
    BY <1>1, <1>2 DEF ClearanceSweep, Sweep, ring, TypeOK
  <1>5. Offset(AllocSlot(r), i) = nSwept
    BY <1>1, <1>3, <1>4, SweepOffset DEF OwnerPhase
  <1>6. \A s \in Realm, k \in SlotIndex :
          maListMT'[s][k] = IF s = r /\ k = i THEN Closed ELSE maListMT[s][k]
    <2>1. maListMT' = [maListMT EXCEPT ![r][i] = Closed]
      BY <1>2, <1>3 DEF ClearanceSweep, Sweep, Closed
    <2>2. Closed \in Seq(Parcel \cup {Invalid})
      BY DEF Closed
    <2> QED BY ZenonT(60), <1>1, <2>1, <2>2, SetSlot
  <1>7. pc'[Owner] = IF AllSwept(nSwept + 1) THEN IF r = LastRealm THEN "sub" ELSE "walk" ELSE "sweep"
    BY <1>1, <1>4, Names DEF Goto, TypeOK
  <1>8. ASSUME NEW s \in Realm, NEW k \in SlotIndex, maListMT'[s][k] = Closed, Sweeping'
        PROVE  \/ s < oCache'
               \/ s = oCache' /\ pc'[Owner] = "sweep" /\ Offset(AllocSlot(s), k)' < nSwept'
    <2>1. Offset(AllocSlot(s), k)' = Offset(AllocSlot(s), k)
      BY <1>4 DEF Offset, AllocSlot, Slot
    <2>2. s < r \/ (s = r /\ Offset(AllocSlot(r), k) < nSwept + 1)
      <3>1. CASE s = r /\ k = i
        BY <1>4, <1>5, <3>1
      <3>2. CASE ~(s = r /\ k = i)
        <4>1. maListMT[s][k] = Closed
          BY <1>6, <1>8, <3>2
        <4>2. s < r \/ (s = r /\ Offset(AllocSlot(r), k) < nSwept)
          BY <1>2, <1>4, <4>1 DEF Closing, Sweeping
        <4>3. s = r => Offset(AllocSlot(r), k) \in Int
          BY <1>1, AllocSlotType, OffsetRange, Constants
        <4> QED BY <1>4, <4>2, <4>3
      <3> QED BY <3>1, <3>2
    <2>3. CASE ~AllSwept(nSwept + 1)
      BY <1>4, <1>7, <2>1, <2>2, <2>3
    <2>4. CASE AllSwept(nSwept + 1) /\ r = LastRealm
      BY <1>7, <1>8, <2>4 DEF Sweeping
    <2>5. CASE AllSwept(nSwept + 1) /\ r # LastRealm
      <3>1. oCache' = r + 1
        BY <1>4, <2>5, Constants DEF cnFrac
      <3> QED BY <2>2, <3>1, Constants
    <2> QED BY <2>3, <2>4, <2>5
  <1> QED BY <1>8 DEF Closing, Closed

(* The order in which slots are closed, step by step.                      *)
LEMMA ClosingStep ==
  ASSUME Basis, Closing, [Next]_cramVars
  PROVE  Closing'
  <1>1. TypeOK /\ OwnerPhase /\ OpenRing /\ Stations /\ Filed
    BY DEF Basis, CramInv, CramTypes
  <1>2. ASSUME NEW r \in Realm, AllocCached(r) \/ AllocCarve(r) PROVE Closing'
    <2>1. pc'[Owner] = "idle"
      BY <1>2 DEF AllocCached, AllocCarve
    <2> QED BY <2>1, ClosingKept
  <1>3. ASSUME (\E r \in Realm : AllocExhausted(r)) \/ ThreadExit \/ Renew \/ ClearanceEnd
        PROVE  Closing'
    <2>1. \E l \in {"clear", "exited", "idle", "renew", "delete"} : Goto(Owner, l)
      BY <1>3 DEF AllocExhausted, ThreadExit, Renew, ClearanceEnd, AfterClearance
    <2>2. pc'[Owner] \notin {"walk", "sweep"}
      BY <1>1, <2>1, Names DEF Goto, TypeOK
    <2> QED BY <2>2, ClosingKept
  <1>4. CASE ClearanceBegin
    <2>1. mbCache /\ maListMT' = maListMT
      BY <1>1, <1>4 DEF ClearanceBegin, OwnerPhase, lists
    <2>2. \A r \in Realm, i \in SlotIndex : maListMT[r][i] # Closed
      <3>1. Range(Closed) = {Invalid}
        BY DEF Range, Closed
      <3> QED BY <1>1, <2>1, <3>1 DEF OpenRing
    <2> QED BY <2>1, <2>2 DEF Closing, Closed
  <1>5. CASE ClearanceWalk
    <2>1. pc[Owner] = "walk" /\ UNCHANGED <<maListMT, oCache>>
      BY <1>5 DEF ClearanceWalk, Walk, lists, state
    <2>2. \A r \in Realm, i \in SlotIndex : maListMT[r][i] = Closed => r < oCache
      BY <2>1 DEF Closing, Sweeping
    <2> QED BY <2>1, <2>2 DEF Closing, Closed
  <1>6. CASE ClearanceSweep
    BY <1>6, ClosingSweep
  <1>7. ASSUME NEW t \in Thread,
               \/ \E p \in live : Free(t, p, tag[p])
               \/ pParcel[t] # NULL /\ ListMT(t, tag[pParcel[t]])
               \/ FreeDec(t)
               \/ Delete(t)
        PROVE  Closing'
    <2>1. /\ UNCHANGED <<mRevolverAlloc, nSwept, oCache>>
          /\ pc[t] \notin {"walk", "sweep"}
      BY <1>7 DEF Free, ListST, ListMT, Fetch, Load, Cas, FreeDec, Delete, ring, clearing, state
    <2>2. pc' = pc \/ \E l \in {"idle", "fetch", "load", "cas", "dec", "delete", "exited"} : Goto(t, l)
      BY <1>7 DEF Free, ListMT, Fetch, Load, Cas, AfterRead, FreeDec, AfterDec, Delete
    <2>3. pc'[Owner] = pc[Owner] \/ pc'[Owner] \notin {"walk", "sweep"}
      BY <1>1, <2>2, Names DEF Goto, TypeOK
    <2>4. ASSUME NEW s \in Realm, NEW k \in SlotIndex, maListMT'[s][k] = Closed
          PROVE  maListMT[s][k] = Closed
      <3>1. CASE maListMT' = maListMT
        BY <2>4, <3>1
      <3>2. CASE maListMT' # maListMT
        <4>1. PICK p \in Parcel : p = pParcel[t] /\ p \in Carved
          BY <1>1, <1>7, <3>2
          DEF Free, ListST, ListMT, Fetch, Load, Cas, FreeDec, Delete, lists, Filed, Carved
        <4>2. PICK r \in Realm : r = tag[p]
          BY <4>1, TaggedIsCarved DEF Basis, CramInv
        <4>3. PICK i \in SlotIndex : i = oRevolver[t]
          BY <1>1 DEF TypeOK
        <4>4. PICK list \in Seq(Parcel \cup {Invalid}) :
                list = <<p>> \o maListMT[r][i]
          <5>1. maListMT[r][i] \in Seq(Parcel \cup {Invalid})
            BY <1>1, ListTypes
          <5>2. <<p>> \in Seq(Parcel \cup {Invalid})
            OBVIOUS
          <5> QED BY <5>1, <5>2, ConcatProperties
        <4>5. maListMT' = [maListMT EXCEPT ![r][i] = list]
          BY <1>7, <3>2, <4>1, <4>2, <4>3, <4>4
          DEF Free, ListST, ListMT, Fetch, Load, Cas, FreeDec, Delete, lists
        <4>6. maListMT'[s][k] = IF s = r /\ k = i THEN list ELSE maListMT[s][k]
          BY <1>1, <4>5, SetSlot
        <4>7. list # Closed
          <5>1. maListMT[r][i] \in Seq(Parcel \cup {Invalid})
            BY <1>1, ListTypes
          <5>2. list[1] = p
            BY <4>4, <5>1
          <5>3. Closed[1] = Invalid /\ Invalid # p
            BY Names DEF Closed
          <5> QED BY <5>2, <5>3
        <4> QED BY <2>4, <4>6, <4>7
      <3> QED BY <3>1, <3>2
    <2> QED BY <2>1, <2>3, <2>4, ClosingKept
  <1>8. CASE UNCHANGED vars
    BY <1>8, ClosingKept DEF vars, lists, ring, clearing, state
  <1> QED BY <1>2, <1>3, <1>4, <1>5, <1>6, <1>7, <1>8, Steps

(* Initially no slot is closed.                                            *)
LEMMA ClosingInit == Init => Closing
  <1> SUFFICES ASSUME Init PROVE Closing
    OBVIOUS
  <1>1. pc[Owner] = "idle"
    BY Names DEF Init, CacheInit
  <1> QED BY <1>1 DEF Closing, Sweeping

(* Clearance counts a slot as one exactly when a parcel is on it: no slot  *)
(* is closed twice.                                                        *)
LEMMA SweepOut ==
  ASSUME Basis, Basis', Closing, ClearanceSweep, UNCHANGED <<mvParcel, tag>>
  PROVE  \/ nCache' = nCache /\ Outstanding' = Outstanding
         \/ nCache' = nCache + 1 /\ \E p \in Outstanding : Outstanding' = Outstanding \ {p}
  <1>1. TypeOK /\ OwnerPhase /\ CramInv'
    BY DEF Basis, CramInv, CramTypes
  <1>2. PICK r \in Realm : r = oCache
    BY <1>1 DEF TypeOK
  <1>3. PICK i \in SlotIndex : i = Slot(mRevolverAlloc[r] + nSwept)
    <2>1. mRevolverAlloc[r] + nSwept \in Nat
      BY <1>1 DEF TypeOK
    <2> QED BY <2>1, SlotRange
  <1>4. /\ pc[Owner] = "sweep" /\ mbCache' = mbCache /\ ~mbCache /\ nSwept \in Nat
        /\ Goto(Owner, IF AllSwept(nSwept + 1) THEN IF r = LastRealm THEN "sub" ELSE "walk" ELSE "sweep")
        /\ oCache' = IF AllSwept(nSwept + 1) /\ r < LastRealm THEN r + 1 ELSE r
        /\ nCache' = nCache + CountSlot(maListMT[r][i])
    BY <1>1, <1>2, <1>3 DEF ClearanceSweep, Sweep, TypeOK, OwnerPhase
  <1>5. pc'[Owner] = IF AllSwept(nSwept + 1) THEN IF r = LastRealm THEN "sub" ELSE "walk" ELSE "sweep"
    BY <1>1, <1>4, Names DEF Goto, TypeOK
  <1>6. Steady
    <2>1. \A s \in Realm : Walked(s) <=> s <= r
      BY <1>2, <1>4, Constants DEF Walked, Sweeping
    <2>2. \A s \in Realm : Walked(s)' <=> s <= r
      <3>1. CASE ~AllSwept(nSwept + 1)
        <4>1. pc'[Owner] = "sweep" /\ oCache' = r
          BY <1>4, <1>5, <3>1
        <4> QED BY <1>4, <4>1, Constants DEF Walked, Sweeping
      <3>2. CASE AllSwept(nSwept + 1) /\ r = LastRealm
        <4>1. pc'[Owner] = "sub"
          BY <1>5, <3>2
        <4>2. \A s \in Realm : s <= r
          BY <3>2, Constants DEF cnFrac
        <4> QED BY <1>4, <4>1, <4>2 DEF Walked, Sweeping
      <3>3. CASE AllSwept(nSwept + 1) /\ r # LastRealm
        <4>1. pc'[Owner] = "walk" /\ oCache' = r + 1
          BY <1>4, <1>5, <3>3, Constants DEF cnFrac
        <4> QED BY <1>4, <4>1, Constants DEF Walked, Sweeping
      <3> QED BY <3>1, <3>2, <3>3
    <2> QED BY <2>1, <2>2 DEF Steady
  <1>7. Offset(AllocSlot(r), i) = nSwept
    BY <1>1, <1>3, <1>4, SweepOffset DEF OwnerPhase
  <1>8. maListMT[r][i] # Closed
    <2>1. maListMT[r][i] = Closed => r < r \/ nSwept < nSwept
      BY <1>2, <1>4, <1>7 DEF Closing, Sweeping
    <2> QED BY <1>4, <2>1, Constants
  <1>9. \/ maListMT[r][i] \in {<<>>, Closed} /\ Others(NULL)
        \/ \E p \in Carved : /\ maListMT[r][i] = <<p>> /\ i \in Slots(p) /\ Others(p)
                             /\ p \notin live' /\ Holders(p)' = {} /\ ~Listed(p)' /\ Slots(p)' = {}
    BY <1>1, <1>2, <1>3, SweepPlace
  <1>10. CASE maListMT[r][i] \in {<<>>, Closed} /\ Others(NULL)
    <2>1. CountSlot(maListMT[r][i]) = 0
      BY <1>8, <1>10 DEF CountSlot
    <2>2. Outstanding' = Outstanding
      BY <1>6, <1>10, Names, OutSame
    <2> QED BY <1>1, <1>4, <2>1, <2>2 DEF TypeOK
  <1>11. ASSUME NEW p \in Carved, maListMT[r][i] = <<p>>, i \in Slots(p), Others(p),
                p \notin live', Holders(p)' = {}, ~Listed(p)', Slots(p)' = {}
         PROVE  nCache' = nCache + 1 /\ \E q \in Outstanding : Outstanding' = Outstanding \ {q}
    <2>1. CountSlot(maListMT[r][i]) = 1
      <3>1. <<p>> # <<>>
        OBVIOUS
      <3> QED BY <1>11, <3>1 DEF CountSlot
    <2>2. Out(p) /\ ~Out(p)'
      BY <1>11 DEF Out
    <2>3. p \in Outstanding /\ Outstanding' = Outstanding \ {p}
      BY <1>6, <1>11, <2>2, OutLess
    <2> QED BY <1>4, <2>1, <2>3
  <1> QED BY <1>9, <1>10, <1>11

-----------------------------------------------------------------------------
(* As long as a parcel is out nobody deletes, nor has deleted.             *)
LEMMA StillThere ==
  ASSUME TypeOK, CountInv, Outstanding # {} \/ nCache > 0
  PROVE  /\ mnCache > 0 /\ nDelete = 0
         /\ \A t \in Thread : pc[t] # "delete"
  <1>1. Cardinality(Outstanding) \in Nat /\ (Cardinality(Outstanding) = 0 <=> Outstanding = {})
    BY OutstandingFinite, FS_EmptySet
  <1>2. mnCache > 0
    BY <1>1 DEF CountInv, Accounting, TypeOK
  <1> QED BY <1>2 DEF CountInv, TypeOK

(* A thread that is freeing, or that may start to, keeps a parcel out; an  *)
(* owner that may allocate has its cram open.                              *)
LEMMA Inside ==
  ASSUME Basis, CountInv
  PROVE  /\ \A t \in InFlight : Outstanding # {}
         /\ live # {} => Outstanding # {}
         /\ pc[Owner] = "idle" /\ mapped => nDelete = 0
  <1>1. TypeOK /\ OwnerPhase /\ Stations /\ Filed
    BY DEF Basis, CramInv, CramTypes
  <1>2. ASSUME NEW t \in InFlight PROVE Outstanding # {}
    <2>1. pParcel[t] \in Parcel
      BY <1>1 DEF Stations, Filed, Carved, InFlight
    <2> QED BY <2>1 DEF Outstanding, Freeing
  <1>3. live # {} => Outstanding # {}
    BY DEF Outstanding
  <1>4. pc[Owner] = "idle" /\ mapped => nDelete = 0
    BY <1>1 DEF CountInv, OwnerPhase, TypeOK
  <1> QED BY <1>2, <1>3, <1>4

(* Accounting is kept by a step that leaves parcels and counts alone, by   *)
(* carving, which adds to both, and by a step that moves as many parcels   *)
(* from Outstanding to nCache or off mnCache.                              *)
LEMMA AccountingStep ==
  ASSUME Basis, Basis', Closing, CountInv, [Next]_cramVars
  PROVE  Accounting'
  <1> DEFINE n == Cardinality(Outstanding)
  <1>1. /\ mnCache = n + nCache /\ n \in Nat /\ nCache \in Nat /\ mnCache \in Int
        /\ IsFiniteSet(Outstanding)
    BY OutstandingFinite DEF CountInv, Accounting, Basis, CramInv, CramTypes, TypeOK
  <1>2. \A p \in Outstanding : Cardinality(Outstanding \ {p}) = n - 1
    BY <1>1, FS_RemoveElement
  <1>3. CASE Outstanding' = Outstanding /\ UNCHANGED <<mnCache, nCache>>
    BY <1>1, <1>3 DEF Accounting
  <1>4. ASSUME NEW r \in Realm, AllocCarve(r) PROVE Accounting'
    <2>1. mnCache' = mnCache + 1 /\ nCache' = nCache
      BY <1>4 DEF AllocCarve, clearing
    <2>2. PICK p \in Parcel \ Outstanding : Outstanding' = Outstanding \cup {p}
      BY <1>4, CarveOut
    <2>3. Cardinality(Outstanding') = n + 1
      BY <1>1, <2>2, FS_AddElement
    <2> QED BY <1>1, <2>1, <2>3 DEF Accounting
  <1>5. ASSUME NEW r \in Realm, AllocCached(r), UNCHANGED <<mvParcel, tag>> PROVE Accounting'
    <2>1. UNCHANGED <<mnCache, nCache>>
      BY <1>5 DEF AllocCached, clearing
    <2> QED BY <1>3, <1>5, <2>1, AllocOut
  <1>6. ASSUME NEW t \in Thread, NEW p \in live, Free(t, p, tag[p]), UNCHANGED <<mvParcel, tag>>
        PROVE  Accounting'
    <2>1. UNCHANGED <<mnCache, nCache>>
      BY <1>6 DEF Free, clearing
    <2> QED BY <1>3, <1>6, <2>1, FreeOut
  <1>7. ASSUME NEW t \in Thread, pParcel[t] # NULL, ListMT(t, tag[pParcel[t]]),
               UNCHANGED <<mvParcel, tag>>
        PROVE  Accounting'
    <2>1. UNCHANGED <<mnCache, nCache>>
      BY <1>7 DEF ListMT, Fetch, Load, Cas, clearing, state
    <2> QED BY <1>3, <1>7, <2>1, ListMTOut
  <1>8. ASSUME NEW t \in Thread, FreeDec(t), UNCHANGED <<mvParcel, tag>> PROVE Accounting'
    <2>1. mnCache' = mnCache - 1 /\ nCache' = nCache
      BY <1>8 DEF FreeDec, clearing
    <2>2. PICK p \in Outstanding : Outstanding' = Outstanding \ {p}
      BY <1>8, FreeDecOut
    <2>3. Cardinality(Outstanding') = n - 1
      BY <1>2, <2>2
    <2> QED BY <1>1, <2>1, <2>3 DEF Accounting
  <1>9. CASE ClearanceWalk /\ UNCHANGED <<mvParcel, tag>>
    <2>1. PICK list \in SUBSET Outstanding :
            Outstanding' = Outstanding \ list /\ nCache' = nCache + Cardinality(list)
      BY <1>9, WalkOut
    <2>2. mnCache' = mnCache /\ Outstanding \cap list = list
      BY <1>9, <2>1 DEF ClearanceWalk, state
    <2>3. IsFiniteSet(list) /\ Cardinality(list) \in Nat
      BY <1>1, FS_Subset, FS_CardinalityType
    <2>4. Cardinality(Outstanding \ list) = n - Cardinality(Outstanding \cap list)
      BY <1>1, <2>3, FS_Difference
    <2>5. Cardinality(Outstanding') = n - Cardinality(list)
      BY <2>1, <2>2, <2>4
    <2> QED BY <1>1, <2>1, <2>2, <2>3, <2>5 DEF Accounting
  <1>10. CASE ClearanceSweep /\ UNCHANGED <<mvParcel, tag>>
    <2>1. mnCache' = mnCache
      BY <1>10 DEF ClearanceSweep
    <2>2. CASE nCache' = nCache /\ Outstanding' = Outstanding
      BY <1>3, <2>1, <2>2
    <2>3. CASE nCache' = nCache + 1 /\ \E p \in Outstanding : Outstanding' = Outstanding \ {p}
      <3>1. Cardinality(Outstanding') = n - 1
        BY <1>2, <2>3
      <3> QED BY <1>1, <2>1, <2>3, <3>1 DEF Accounting
    <2> QED BY <1>10, <2>2, <2>3, SweepOut
  <1>11. CASE ClearanceEnd /\ UNCHANGED <<mvParcel, tag>>
    <2>1. Outstanding' = Outstanding /\ nCache' = 0
      BY <1>11, QuietOut DEF ClearanceEnd
    <2>2. CASE nDelete = 0
      <3>1. mnCache' = mnCache - nCache
        BY <1>11, <2>2 DEF ClearanceEnd
      <3> QED BY <1>1, <2>1, <3>1 DEF Accounting
    <2>3. CASE nDelete # 0
      <3>1. mnCache' = mnCache /\ mnCache = 0
        BY <1>11, <2>3 DEF ClearanceEnd, CountInv, Basis, CramInv, CramTypes, TypeOK
      <3> QED BY <1>1, <2>1, <3>1 DEF Accounting
    <2> QED BY <2>2, <2>3
  <1>12. ASSUME \/ \E r \in Realm : AllocExhausted(r)
                \/ ThreadExit \/ ClearanceBegin \/ Renew
                \/ \E t \in Thread : Delete(t),
                UNCHANGED <<mvParcel, tag>>
         PROVE  Accounting'
    <2>1. UNCHANGED <<mnCache, nCache>>
      BY <1>12 DEF AllocExhausted, ThreadExit, ClearanceBegin, Renew, Delete, clearing, state
    <2>2. Outstanding' = Outstanding
      BY <1>12, QuietOut
    <2> QED BY <1>3, <2>1, <2>2
  <1>13. CASE UNCHANGED vars
    <2>1. Outstanding' = Outstanding
      BY <1>13 DEF vars, lists, ring, freeing, clearing, state, Outstanding, Freeing, InFlight,
                   ListedST, ListedMT, Walked, Sweeping
    <2> QED BY <1>3, <1>13, <2>1 DEF vars, clearing, state
  <1> HIDE DEF n
  <1> QED BY <1>4, <1>5, <1>6, <1>7, <1>8, <1>9, <1>10, <1>11, <1>12, <1>13, Steps

-----------------------------------------------------------------------------
(* The count: whoever deletes found it at zero, and then nothing is out.   *)
LEMMA CountStep ==
  ASSUME Basis, Basis', Closing, CountInv, [Next]_cramVars
  PROVE  CountInv'
  <1>1. Accounting'
    BY AccountingStep
  <1> DEFINE Here == {"idle", "fetch", "load", "cas", "dec"}
             NoDeleter == \A t \in Thread : pc[t] = "delete" => mnCache = 0
             Gone == nDelete > 0 => mnCache = 0 /\ ~mbCache
  <1>2. /\ NoDeleter /\ Gone /\ dangling \cap Here = {}
        /\ TypeOK /\ OwnerPhase /\ Stations /\ nDelete \in Nat /\ mnCache \in Int
    BY DEF CountInv, Basis, CramInv, CramTypes, TypeOK
  <1>3. CASE /\ UNCHANGED <<mnCache, nDelete>>
             /\ mbCache' => mbCache
             /\ \A t \in Thread : pc'[t] = "delete" => pc[t] = "delete"
             /\ dangling' = dangling \/ \E t \in Thread : Uses(t) /\ pc[t] \notin Here
    <2>1. NoDeleter' /\ Gone'
      BY <1>2, <1>3
    <2>2. dangling' \cap Here = {}
      BY <1>2, <1>3 DEF Uses
    <2> QED BY <1>1, <2>1, <2>2 DEF CountInv
  <1>4. ASSUME NEW r \in Realm, AllocCarve(r) \/ AllocCached(r) \/ AllocExhausted(r)
        PROVE  CountInv'
    <2>1. pc[Owner] = "idle" /\ mapped /\ Touch(Owner) /\ mbCache' = mbCache
      BY <1>4 DEF AllocCarve, AllocCached, AllocExhausted, state
    <2>2. mbCache /\ nDelete = 0
      BY <1>2, <2>1, Inside DEF OwnerPhase
    <2>3. dangling' = dangling /\ nDelete' = nDelete
      BY <2>1, <2>2 DEF Touch, Uses
    <2>4. pc' = pc \/ pc' = [pc EXCEPT ![Owner] = "clear"]
      BY <1>4 DEF AllocCarve, AllocCached, AllocExhausted, Goto
    <2>5. \A t \in Thread : pc'[t] # "delete"
      BY <1>2, <2>2, <2>4 DEF TypeOK, Stations
    <2>6. dangling' \cap {"idle", "fetch", "load", "cas", "dec"} = {}
      BY <1>2, <2>3
    <2> HIDE DEF Here, NoDeleter, Gone
    <2> QED BY <1>1, <2>2, <2>3, <2>5, <2>6 DEF CountInv
  <1> HIDE DEF Here, NoDeleter, Gone
  <1>5. ASSUME NEW t \in Thread,
               \/ \E p \in live : Free(t, p, tag[p])
               \/ ListMT(t, tag[pParcel[t]])
        PROVE  CountInv'
    <2>1. Outstanding # {}
      BY <1>5, Inside DEF Free, ListMT, Fetch, Load, Cas, InFlight
    <2>2. nDelete = 0 /\ \A u \in Thread : pc[u] # "delete"
      BY <2>1, StillThere, <1>2
    <2>3. Touch(t) /\ UNCHANGED <<mnCache, mbCache>>
      BY <1>5 DEF Free, ListMT, Fetch, Load, Cas, state
    <2>4. dangling' = dangling /\ nDelete' = nDelete
      BY <2>2, <2>3 DEF Touch, Uses
    <2>5. pc' = pc \/ \E l \in {"idle", "fetch", "load", "cas", "dec"} : pc' = [pc EXCEPT ![t] = l]
      BY <1>5 DEF Free, ListMT, Fetch, Load, Cas, AfterRead, Goto
    <2>6. \A u \in Thread : pc'[u] = "delete" => pc[u] = "delete"
      BY <1>2, <2>5 DEF TypeOK
    <2> QED BY <1>3, <2>3, <2>4, <2>6
  <1>6. ASSUME NEW t \in Thread, FreeDec(t) PROVE CountInv'
    <2>1. Outstanding # {}
      BY <1>6, Inside DEF FreeDec, InFlight
    <2>2. nDelete = 0 /\ \A u \in Thread : pc[u] # "delete"
      BY <2>1, StillThere, <1>2
    <2>3. nDelete' = 0 /\ dangling' = dangling
      BY <1>6, <2>2 DEF FreeDec, Touch, Uses
    <2>4. \A u \in Thread : pc'[u] = "delete" => mnCache' = 0
      <3>1. mnCache' = mnCache - 1 /\ pc' = [pc EXCEPT ![t] = AfterDec(mnCache - 1)]
        BY <1>6 DEF FreeDec, Goto
      <3>2. \A u \in Thread : pc'[u] = "delete" => u = t /\ AfterDec(mnCache - 1) = "delete"
        BY <1>2, <2>2, <3>1 DEF TypeOK
      <3> QED BY <3>1, <3>2 DEF AfterDec
    <2> QED BY <1>1, <1>2, <2>3, <2>4 DEF CountInv, Here
  <1>7. ASSUME NEW t \in Thread, Delete(t) PROVE CountInv'
    <2>1. mnCache = 0 /\ ~mbCache
      BY <1>2, <1>7 DEF NoDeleter, Stations, Delete
    <2>2. UNCHANGED <<mnCache, mbCache>>
      BY <1>7 DEF Delete, state
    <2>3. dangling' \cap Here = {}
      BY <1>2, <1>7 DEF Delete, Uses, Here
    <2> QED BY <1>1, <2>1, <2>2, <2>3 DEF CountInv, Here
  <1>8. CASE ClearanceEnd
    <2>1. PICK rest \in IF nDelete = 0 THEN {mnCache - nCache} ELSE {0, 1} :
            /\ mnCache' = IF nDelete = 0 THEN rest ELSE mnCache
            /\ pc' = [pc EXCEPT ![Owner] = AfterClearance(rest)]
      BY <1>8 DEF ClearanceEnd, Goto
    <2>2. pc[Owner] = "sub" /\ Uses(Owner) /\ UNCHANGED <<nDelete, mbCache>> /\ nCache \in Nat
      BY <1>8, <1>2 DEF ClearanceEnd, TypeOK
    <2>3. dangling' \cap Here = {}
      BY <1>2, <2>2 DEF Uses, Here
    <2>4. nDelete' > 0 => mnCache' = 0 /\ ~mbCache'
      BY <1>2, <2>1, <2>2 DEF Gone
    <2>5. ASSUME NEW u \in Thread, pc'[u] = "delete" PROVE mnCache' = 0
      <3>1. CASE nDelete > 0
        BY <2>2, <2>4, <3>1
      <3>2. CASE nDelete = 0 /\ u = Owner
        <4>1. AfterClearance(rest) = "delete" /\ mnCache' = rest
          BY <1>2, <2>1, <2>5, <3>2 DEF TypeOK
        <4> QED BY <4>1 DEF AfterClearance
      <3>3. CASE nDelete = 0 /\ u # Owner
        <4>1. pc[u] = "delete" /\ mnCache' = mnCache - nCache
          BY <1>2, <2>1, <2>5, <3>3 DEF TypeOK
        <4>2. mnCache = 0
          BY <1>2, <4>1 DEF NoDeleter
        <4>3. nCache = 0
          BY <1>2, <2>2, <4>2, StillThere
        <4> QED BY <4>1, <4>2, <4>3
      <3> QED BY <1>2, <3>1, <3>2, <3>3
    <2> QED BY <1>1, <2>3, <2>4, <2>5 DEF CountInv, Here
  <1>9. CASE ClearanceBegin \/ ClearanceWalk \/ ClearanceSweep \/ Renew
    <2>1. Uses(Owner) /\ UNCHANGED <<mnCache, nDelete>> /\ pc[Owner] \notin Here
      BY <1>9 DEF ClearanceBegin, ClearanceWalk, Walk, ClearanceSweep, Sweep, Renew, Touch, state, Here
    <2>2. mbCache' => mbCache
      BY <1>9 DEF ClearanceBegin, ClearanceWalk, ClearanceSweep, Renew, state
    <2>3. \E l \in {"walk", "sweep", "sub", "idle"} : pc' = [pc EXCEPT ![Owner] = l]
      BY <1>9 DEF ClearanceBegin, ClearanceWalk, Walk, ClearanceSweep, Sweep, Renew, Goto
    <2>4. \A t \in Thread : pc'[t] = "delete" => pc[t] = "delete"
      BY <1>2, <2>3 DEF TypeOK
    <2> QED BY <1>3, <2>1, <2>2, <2>4, Names
  <1>10. CASE ThreadExit
    <2>1. UNCHANGED <<mnCache, nDelete, mbCache, dangling>>
      BY <1>10 DEF ThreadExit, history
    <2>2. \E l \in {"clear", "exited"} : pc' = [pc EXCEPT ![Owner] = l]
      BY <1>10 DEF ThreadExit, Goto
    <2>3. \A t \in Thread : pc'[t] = "delete" => pc[t] = "delete"
      BY <1>2, <2>2 DEF TypeOK
    <2> QED BY <1>3, <2>1, <2>3
  <1>11. CASE UNCHANGED vars
    BY <1>3, <1>11 DEF vars, state, history
  <1> QED BY <1>4, <1>5, <1>6, <1>7, <1>8, <1>9, <1>10, <1>11, Steps

-----------------------------------------------------------------------------
(* A new cram: no parcel is anywhere, and nobody frees one.                *)
LEMMA CountedStart == Init => CountedInv
  <1> SUFFICES ASSUME Init PROVE CountedInv
    OBVIOUS
  <1>1. CramInv /\ Closing
    BY CramStart, ClosingInit
  <1>2. /\ \A t \in Thread : pc[t] = "idle" /\ pParcel[t] = NULL
        /\ \A r \in Realm : mListST[r] = <<>>
        /\ \A r \in Realm, i \in SlotIndex : maListMT[r][i] = <<>>
        /\ \A r \in Realm : mRevolverFree[r] = 0 /\ mRevolverAlloc[r] = 0
        /\ Carved = {} /\ live = {} /\ mnCache = 0 /\ nCache = 0 /\ oCache = 0
        /\ nDelete = 0 /\ dangling = {}
    BY DEF Init, CacheInit, LocalInit, Carved
  <1>3. Stations
    BY <1>2 DEF Stations, InFlight
  <1>4. Apart
    BY <1>2 DEF Apart, Once
  <1>5. ASSUME NEW r \in Realm PROVE RingShape(r) /\ RingWindow(r)
    <2>1. Drawing(r) = {}
      BY <1>2 DEF Drawing
    <2>2. RingShape(r)
      BY <1>2, <2>1 DEF RingShape
    <2>3. Claimed(r) = {}
      <3>1. \A p \in Parcel : <<p>> # <<>>
        OBVIOUS
      <3>2. \A i \in SlotIndex : maListMT[r][i] \notin Single
        BY <1>2, <3>1 DEF Single
      <3> QED BY <2>1, <3>2 DEF Claimed
    <2>4. CarvedIn(r) = {} /\ Unclaimed(r) = {}
      BY <1>2 DEF CarvedIn, Unclaimed
    <2>5. Slot(0) = 0
      BY SlotId, Constants
    <2>6. Window(0, 0, 0, {}, 0, 0)
      BY Constants DEF Window
    <2>7. HasWindow(0, 0, {}, 0, 0)
      BY <2>6, Constants DEF HasWindow
    <2> QED BY <1>2, <2>2, <2>3, <2>4, <2>5, <2>7, FS_EmptySet DEF RingWindow, AllocSlot
  <1>6. Outstanding = {}
    BY <1>1, <1>2, OutIsCarved
  <1>7. CountInv
    BY <1>2, <1>6, FS_EmptySet DEF CountInv, Accounting
  <1> QED BY <1>1, <1>3, <1>4, <1>5, <1>7 DEF CountedInv, Basis, Rings

(* LocalCram: the ring, the places of the parcels, the order in which      *)
(* Clearance closes the slots and the count agree in every state, for any  *)
(* number of realms, parcels, slots and threads.                           *)
THEOREM CountedInductive == Spec => []CountedInv
  <1>1. CountedInv /\ [Next]_cramVars => CountedInv'
    <2> SUFFICES ASSUME CountedInv, [Next]_cramVars PROVE CountedInv'
      OBVIOUS
    <2>1. Basis /\ Basis'
      BY BasisKept DEF CountedInv
    <2>2. Closing' /\ CountInv'
      BY <2>1, ClosingStep, CountStep DEF CountedInv
    <2> QED BY <2>1, <2>2 DEF CountedInv
  <1> QED BY <1>1, CountedStart, PTL DEF Spec

(* LocalCram: a parcel is never in two places at a time, in the            *)
(* application's hands, in a Free under way, on a list of the owner, on    *)
(* the ring of a realm.                                                    *)
THEOREM CramNeverTwice == Spec => []OnePlace
  <1>1. CountedInv => OnePlace
    <2> SUFFICES ASSUME CountedInv PROVE OnePlace
      OBVIOUS
    <2>1. Where /\ Apart /\ Stations /\ CramTypes /\ Filed
      BY Whereabouts DEF CountedInv, Basis, CramInv
    <2>2. live \subseteq Parcel /\ Freeing \subseteq Parcel /\ ListedST \subseteq Parcel
          /\ ListedMT \subseteq Parcel
      BY <2>1 DEF CramTypes, TypeOK, Freeing, ListedST, ListedMT
    <2>3. ASSUME NEW p \in Carved
          PROVE  /\ p \in live => p \notin Freeing /\ p \notin ListedST /\ p \notin ListedMT
                 /\ p \in Freeing => p \notin ListedST /\ p \notin ListedMT
                 /\ p \in ListedST => p \notin ListedMT
      <3>1. p \in Parcel /\ AtOne(p \in live, Holders(p), Listed(p), Slots(p))
        BY <2>1 DEF Apart, Carved
      <3>2. /\ p \in Freeing => Holders(p) # {}
            /\ p \in ListedST => Listed(p)
            /\ p \in ListedMT => Slots(p) # {}
        BY <2>1, <3>1 DEF Where
      <3> QED BY <3>1, <3>2 DEF AtOne
    <2>4. live \subseteq Carved /\ Freeing \subseteq Carved /\ ListedST \subseteq Carved
      BY <2>1, <2>2 DEF Where, Filed
    <2>5. ASSUME NEW t \in InFlight, NEW u \in InFlight, t # u PROVE pParcel[t] # pParcel[u]
      <3>1. t \in Thread /\ u \in Thread /\ pParcel[t] \in Carved
        BY <2>1 DEF InFlight, Stations, Filed
      <3> QED BY <2>1, <2>5, <3>1 DEF Apart, AtOne, Holders
    <2>6. live \cap (Freeing \cup ListedST \cup ListedMT) = {}
      BY <2>3, <2>4
    <2>7. Freeing \cap (ListedST \cup ListedMT) = {} /\ ListedST \cap ListedMT = {}
      BY <2>3, <2>4
    <2> QED BY <2>5, <2>6, <2>7 DEF OnePlace
  <1> QED BY <1>1, CountedInductive, PTL

(* LocalCram: mnCache counts exactly the parcels that still have to come   *)
(* back, those of all realms together.                                     *)
THEOREM CramCountExact == Spec => []Accounting
  <1>1. CountedInv => Accounting
    BY DEF CountedInv, CountInv
  <1> QED BY <1>1, CountedInductive, PTL

(* Nobody destroys the cram under a parcel; no Alloc or Free ever touches  *)
(* a destroyed cram.                                                       *)
THEOREM CramDeletedIdle == Spec => []DeleteWhenIdle
  <1>1. CountedInv => DeleteWhenIdle
    <2> SUFFICES ASSUME CountedInv PROVE DeleteWhenIdle
      OBVIOUS
    <2>1. TypeOK /\ CountInv
      BY DEF CountedInv, Basis, CramInv, CramTypes
    <2>2. nDelete > 0 => Outstanding = {}
      BY <2>1, StillThere DEF TypeOK
    <2> QED BY <2>1, <2>2 DEF DeleteWhenIdle, CountInv
  <1> QED BY <1>1, CountedInductive, PTL

-----------------------------------------------------------------------------
(* A LocalCram is an abstract allocator: a parcel has one holder at a      *)
(* time, none is handed out after Clearance, and the memory is reclaimed   *)
(* only when nobody holds one.                                             *)
THEOREM CramImplements == Spec => ImplementsAllocator
  <1> DEFINE abstract == <<live, mbCache, nDelete > 0>>
  <1>1. Init => A!Init
    BY DEF Init, LocalInit, A!Init
  <1>2. ASSUME CountedInv, [Next]_cramVars
        PROVE  A!Next \/ UNCHANGED abstract
    <2>1. /\ TypeOK /\ OwnerPhase /\ Stations /\ Filed /\ CountInv /\ Basis
          /\ live \subseteq Parcel /\ nDelete \in Nat
      BY <1>2 DEF CountedInv, Basis, CramInv, CramTypes, TypeOK
    <2>2. CramInv'
      BY <1>2, CramKeeps DEF CountedInv, Basis
    <2>3. ASSUME NEW r \in Realm, AllocCarve(r) \/ (AllocCached(r) /\ UNCHANGED <<mvParcel, tag>>)
          PROVE  A!Next
      <3>1. mbCache /\ nDelete = 0 /\ UNCHANGED <<mbCache, nDelete>>
        BY <2>1, <2>3, Inside DEF AllocCarve, AllocCached, OwnerPhase, Touch
      <3>2. \E p \in Parcel : p \notin live /\ live' = live \cup {p}
        <4>1. CASE AllocCarve(r)
          BY <2>1, <2>2, <4>1, CarveStep DEF Filed
        <4>2. CASE AllocCached(r) /\ UNCHANGED <<mvParcel, tag>>
          <5>1. CASE TakeST(r) /\ live' = live \cup {Head(mListST[r])}
            BY <2>1, <2>2, <4>2, <5>1, AllocSTStep DEF Carved
          <5>2. CASE TakeMT(r) /\ live' = live \cup {Head(maListMT[r][AllocSlot(r)])}
            BY <2>1, <2>2, <4>2, <5>2, AllocMTStep DEF Carved
          <5> QED BY <4>2, <5>1, <5>2 DEF AllocCached
        <4> QED BY <2>3, <4>1, <4>2
      <3> QED BY <3>1, <3>2 DEF A!Next, A!Alloc
    <2>4. ASSUME NEW t \in Thread, NEW p \in live, Free(t, p, tag[p]) PROVE A!Next
      <3>1. p \in Parcel /\ live' = live \ {p} /\ UNCHANGED <<mbCache, nDelete>>
        BY <2>1, <2>4 DEF Free, Touch
      <3>2. nDelete = 0
        BY <2>1, <2>4, Inside, StillThere
      <3> QED BY <2>4, <3>1, <3>2 DEF A!Next, A!Free
    <2>5. CASE ClearanceBegin
      <3>1. mbCache \in BOOLEAN /\ UNCHANGED <<live, nDelete>> /\ mbCache' = FALSE
        BY <2>1, <2>5 DEF ClearanceBegin, Touch, TypeOK
      <3> QED BY <3>1 DEF A!Next, A!Close
    <2>6. ASSUME NEW t \in Thread, Delete(t) PROVE A!Next
      <3>1. mnCache = 0 /\ ~mbCache
        BY <2>1, <2>6 DEF CountInv, Stations, Delete
      <3>2. live = {}
        BY <2>1, <3>1, Inside, StillThere
      <3>3. UNCHANGED <<live, mbCache>> /\ (nDelete > 0)' = TRUE
        BY <2>1, <2>6 DEF Delete, state
      <3> QED BY <3>1, <3>2, <3>3 DEF A!Next, A!Reclaim
    <2>7. ASSUME \/ \E r \in Realm : AllocExhausted(r)
                 \/ ClearanceWalk \/ ClearanceSweep \/ ClearanceEnd \/ Renew \/ ThreadExit
          PROVE  UNCHANGED abstract
      BY <2>7 DEF AllocExhausted, ClearanceWalk, ClearanceSweep, ClearanceEnd, Renew, ThreadExit,
                  Touch, state, history
    <2>8. ASSUME NEW t \in Thread, ListMT(t, tag[pParcel[t]]) \/ FreeDec(t) PROVE UNCHANGED abstract
      BY <2>8 DEF ListMT, FreeDec, Touch, state
    <2>9. CASE UNCHANGED vars
      BY <2>9 DEF vars, state, history
    <2> HIDE DEF abstract
    <2> QED BY <1>2, <2>3, <2>4, <2>5, <2>6, <2>7, <2>8, <2>9, Steps
  <1>3. CountedInv /\ [Next]_cramVars => [A!Next]_abstract
    BY <1>2
  <1> QED BY <1>1, <1>3, CountedInductive, PTL DEF Spec, ImplementsAllocator, A!Spec
=============================================================================
