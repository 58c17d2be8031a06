----------------------------- MODULE LocalCram -----------------------------
(***************************************************************************)
(* LocalCram (src/src/LocalCram.cpp): the allocator of one thread for the  *)
(* sizes from 2^mb up to 2^(mb+1), of which there are cnFrac + 1 (realms). *)
(* It starts with no parcel at all and carves them from its memory one by  *)
(* one; a parcel keeps the realm it was carved for in its tag, and goes to *)
(* the cache of that realm whenever it is freed.                           *)
(*                                                                         *)
(* Addresses are offsets into that memory in units of csAlign = 16 bytes,  *)
(* and a parcel is its offset.                                             *)
(***************************************************************************)
EXTENDS CachedLocal

CONSTANT bitB    \* bit(mb), in units of csAlign

VARIABLES
  mvParcel,      \* first byte that is not carved yet
  tag            \* [parcel -> realm], Tag::mRealm in front of each parcel

cramVars == <<vars, mvParcel, tag>>

(* Realms 0 .. cnFrac: a size just below 2^(mb+1) rounds up to it.         *)
cnFrac == LastRealm

cnCramParcel == cnRevolver

(* meParcel - (this+1)                                                     *)
meParcel == bitB * cnCramParcel

(* Variant: Tag::Size of the realm relative to mRealm.                     *)
FootprintRelative(r) == 2 + r

(* A carved parcel: its tag and header, then Tag::Size of its realm.       *)
Footprint(r) == 1 + bitB + r * (bitB \div cnFrac)

ASSUME CramAssumption ==
  /\ cnFrac > 0
  /\ bitB \in Nat \ {0} /\ bitB % cnFrac = 0
  /\ Parcel = 0 .. meParcel - 1
  /\ Footprint(cnFrac) <= meParcel

Init ==
  /\ CacheInit([r \in Realm |-> <<>>])
  /\ LocalInit(0)
  /\ mvParcel = 0
  /\ tag = [p \in Parcel |-> NULL]

-----------------------------------------------------------------------------
(* Variant: tests the start of the parcel instead of its end.              *)
FitsStart(r) == mvParcel < meParcel

(* vParcel <= meParcel                                                     *)
Fits(r) == mvParcel + Footprint(r) <= meParcel

(* Alloc, nothing cached for the realm: carve a parcel and tag it.         *)
AllocCarve(r) ==
  /\ pc[Owner] = "idle" /\ mapped
  /\ Exhausted(r) /\ Fits(r)
  /\ mvParcel' = mvParcel + Footprint(r)
  /\ tag' = [tag EXCEPT ![mvParcel] = r]
  /\ live' = live \cup {mvParcel}
  /\ mnCache' = mnCache + 1
  /\ Touch(Owner)
  /\ UNCHANGED <<lists, ring, pc, freeing, clearing, mbCache, oCache, mapped, bExit>>

CramAlloc(r) ==
  \/ AllocCarve(r)
  \/ /\ \/ AllocCached(r)
        \/ ~Fits(r) /\ AllocExhausted(r)
     /\ UNCHANGED <<mvParcel, tag>>

(* LocalCram::Free: the tag names the cache.                               *)
CramFree(t) == \E p \in live : Free(t, p, tag[p]) /\ UNCHANGED <<mvParcel, tag>>

CramStep(t) ==
  /\ \/ pParcel[t] # NULL /\ ListMT(t, tag[pParcel[t]])
     \/ FreeDec(t)
     \/ Delete(t)
  /\ UNCHANGED <<mvParcel, tag>>

CramClearance == Clearance /\ UNCHANGED <<mvParcel, tag>>

(* NewCram allocates from a new LocalCram at once: it is never empty.      *)
CramExit == mvParcel > 0 /\ ThreadExit /\ UNCHANGED <<mvParcel, tag>>

Next ==
  \/ \E r \in Realm : CramAlloc(r)
  \/ CramClearance
  \/ CramExit
  \/ \E t \in Thread : CramFree(t) \/ CramStep(t)
  \/ Finished /\ UNCHANGED <<mvParcel, tag>>

Spec == Init /\ [][Next]_cramVars

Fairness ==
  /\ WF_cramVars(CramClearance)
  /\ \A t \in Thread : WF_cramVars(CramStep(t))

FairSpec == Spec /\ Fairness

-----------------------------------------------------------------------------
(* The assertion of Alloc: no more parcels than a ring has slots, although *)
(* the code never compares the two.                                        *)
CarvedFitsRing ==
  /\ mnCache <= cnCramParcel
  /\ Cardinality({p \in Parcel : tag[p] # NULL}) <= cnCramParcel

(* Carved parcels lie one behind the other and end before meParcel, and    *)
(* a parcel is only ever listed in the cache of the realm it was carved    *)
(* for: Alloc never hands out less memory than was asked for.              *)
ParcelsApart ==
  LET carved == {p \in Parcel : tag[p] # NULL}
  IN /\ Outstanding \subseteq carved
     /\ \A p \in carved : p + Footprint(tag[p]) <= mvParcel
     /\ \A p, q \in carved : p < q => p + Footprint(tag[p]) <= q
     /\ \A r \in Realm :
          /\ \A p \in Range(mListST[r]) : tag[p] = r
          /\ \A i \in SlotIndex : \A p \in Range(maListMT[r][i]) \ {Invalid} : tag[p] = r
     /\ mvParcel <= meParcel

(* The cram implements the abstract allocator.                             *)
A == INSTANCE Allocator WITH open <- mbCache, reclaimed <- nDelete > 0

ImplementsAllocator == A!Spec
=============================================================================
