----------------------------- MODULE SizeClass ------------------------------
(***************************************************************************)
(* Sizes: how a request is rounded to a size class (a realm), how large    *)
(* the memory of each kind of local allocator is, and how much of it a     *)
(* client may use.  All of it is arithmetic of src/src; the numbers are    *)
(* the program's own, in bytes.                                            *)
(*                                                                         *)
(* A realm is an exponent and cbFrac bits of the fraction behind it, as in *)
(* a floating-point number; sizes below 2^cbFrac have none.                *)
(***************************************************************************)
EXTENDS Integers

CONSTANTS
  sAny, sPool, sCram    \* sizeof LocalAny, LocalPool and LocalCram

cbFrac == 4
cnFrac == 16
cmFrac == 15
cnVoid == 64            \* cbFrac << cbFrac
cnRealm == 512          \* for sizes up to 64 GiB
csSizeT == 8
csAlign == 16
csCacheLine == 64
csPool == 1024
cnPool == 128
cnPoolParcel == 256
csCram == 1048576
cnCramParcel == 32

bit(v) == 2 ^ v

(* The highest bit that is set, up to 2^30.                                *)
Msb(v) == CHOOSE b \in 0 .. 30 : v \div bit(b) = 1

(* v & w, by halves, for w below 2^32: the ones of v where w has one.      *)
And1(v, w) == (v % 2) * (w % 2)
And2(v, w) == IF w = 0 THEN 0 ELSE 2 * And1(v \div 2, w \div 2) + And1(v, w)
And4(v, w) == IF w = 0 THEN 0 ELSE 4 * And2(v \div 4, w \div 4) + And2(v, w)
And8(v, w) == IF w = 0 THEN 0 ELSE 16 * And4(v \div 16, w \div 16) + And4(v, w)
And16(v, w) == IF w = 0 THEN 0 ELSE 256 * And8(v \div 256, w \div 256) + And8(v, w)
And(v, w) == IF w = 0 THEN 0 ELSE 65536 * And16(v \div 65536, w \div 65536) + And16(v, w)

(* v & -b; -b has the ones that b - 1 has not, and for b = 0 none.         *)
bound_t(v, b) == IF b = 0 THEN 0 ELSE v - And(v, b - 1)

align_t(v, a) == bound_t(v + a - 1, a)

Larger(x, y) == IF x > y THEN x ELSE y
Smaller(x, y) == IF x < y THEN x ELSE y

(* Variant: the bits behind the fraction are cut off, not rounded up.      *)
RoundedDown(s) == bound_t(Larger(s, bit(cbFrac)), bit(Msb(Larger(s, bit(cbFrac))) - cbFrac))

(* Up to the next size that has a realm; it may carry into the exponent.   *)
Rounded(s) ==
  LET large == Larger(s, bit(cbFrac))
  IN align_t(large, bit(Msb(large) - cbFrac))

(* Tag::Realm                                                              *)
Realm(s) ==
  LET sAlign == Rounded(s)
      bExpo == Msb(sAlign)
  IN bExpo * cnFrac + ((sAlign \div bit(bExpo - cbFrac)) % cnFrac) - cnVoid

(* Tag::Size                                                               *)
Size(r) ==
  LET bExpo == (r + cnVoid) \div cnFrac
  IN bit(bExpo) + ((r + cnVoid) % cnFrac) * bit(bExpo - cbFrac)

-----------------------------------------------------------------------------
(* Parcels: a header with the owner in front of the data.                  *)

sParcel == 8

(* Parcel::SizeofS                                                         *)
SizeofS(s) == align_t(sParcel + s, csAlign)

(* Where the data of the first parcel lies that fits behind address v.     *)
FirstData(v) == align_t(v + sParcel, csAlign)

-----------------------------------------------------------------------------
(* LocalCntx::Alloc: which kind of allocator serves a request, and which   *)
(* of that kind.                                                           *)
Kind(s) == IF s <= csPool THEN "pool" ELSE IF s <= csCram THEN "cram" ELSE "any"

Pool(s) == (IF s = 0 THEN 0 ELSE s - 1) \div csSizeT

Cram(s) == Msb(s)

ByKind(s, ofPool, ofCram, ofAny) ==
  CASE Kind(s) = "pool" -> ofPool [] Kind(s) = "cram" -> ofCram [] Kind(s) = "any" -> ofAny

(* The size of a parcel as its allocator tells it: LocalPool::Size,        *)
(* LocalCram::Size; LocalAny::Size is the request itself.                  *)
PoolSize(o) == (o + 1) * csSizeT
CramSize(s) == Size(Realm(s))

ClassSize(s) == ByKind(s, PoolSize(Pool(s)), CramSize(s), s)

(* The operators new: what the allocator for a request takes from the      *)
(* reserver.                                                               *)
PoolBudget(o) == sPool + csAlign + SizeofS(PoolSize(o)) * cnPoolParcel
CramBudget(b) == sCram + bit(b) * cnCramParcel
AnyBudget(s) == sAny + csAlign + SizeofS(s)

Budget(s) == ByKind(s, PoolBudget(Pool(s)), CramBudget(Cram(s)), AnyBudget(s))

(* How far the data of the parcels reach into the allocator's memory: the  *)
(* parcels of a pool stand in a row, those of a cram end at meParcel.      *)
PoolExtent(o) ==
  FirstData(sPool) + (cnPoolParcel - 1) * SizeofS(PoolSize(o)) + PoolSize(o)
CramExtent(b) == sCram + bit(b) * cnCramParcel
AnyExtent(s) == FirstData(sAny) + s

Extent(s) == ByKind(s, PoolExtent(Pool(s)), CramExtent(Cram(s)), AnyExtent(s))

(* How many bytes from the data of a parcel on belong to the parcel.       *)
Room(s) ==
  ByKind(s, SizeofS(PoolSize(Pool(s))) - sParcel,
            CramSize(s),
            Size(Realm(AnyBudget(s))) - FirstData(sAny))
=============================================================================
