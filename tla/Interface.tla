----------------------------- MODULE Interface ------------------------------
(***************************************************************************)
(* The allocation functions an application calls: KanameShiki::Alloc,      *)
(* Free, Align, ReAlloc and Size (src/src/Func.cpp), operator new and      *)
(* delete, and the functions of src/src/Posix.cpp that are built on them.  *)
(*                                                                         *)
(* Every block of memory the application holds starts behind a Parcel      *)
(* header that names its owner.  For an aligned block this is a Relay,     *)
(* which lies in a larger block, between that one's own header and the     *)
(* aligned address.  What the local allocators do with a request is here   *)
(* the address they return: any one in a page of its own, on a multiple of *)
(* csAlign.  A call that gets no memory returns null and changes nothing.  *)
(***************************************************************************)
EXTENDS SizeClass, FiniteSets, FiniteSetsExt

CONSTANTS
  Request,        \* the sizes that are asked for
  Alignment,      \* the alignments that are asked for
  Residue,        \* where in its page a block may start
  Page,           \* room for any block, wherever in its page it starts
  Largest,        \* bound: of requests, alignments and local allocators
  MaxHeld         \* bound: how many blocks the application holds at a time

SystemPageSize == 4096

ASSUME InterfaceAssumption ==
  /\ Largest \in Nat /\ Largest <= bit(27)
  /\ Request \subseteq 0 .. Largest /\ Alignment \subseteq 1 .. Largest
  /\ sAny \in 0 .. Largest /\ sPool \in 0 .. Largest /\ sCram \in 0 .. Largest
  /\ sPool % csCacheLine = 0 /\ sCram % csCacheLine = 0
  /\ Page \in Nat
  /\ \A x \in Residue : x \in Nat /\ x % csAlign = 0 /\ x + 3 * Largest + 3 * SystemPageSize <= Page
  /\ MaxHeld \in Nat \ {0}

VARIABLES
  block,          \* [address -> request], what LocalCntx::Alloc has given
  relay,          \* [address -> the Relay in front of it]
  held,           \* [address the application has -> what it asked for]
  copied          \* history: what the last call copied, and had to copy

vars == <<block, relay, held, copied>>

With(fn, x, y) == [z \in DOMAIN fn \cup {x} |-> IF z = x THEN y ELSE fn[z]]
Without(fn, x) == [z \in DOMAIN fn \ {x} |-> fn[z]]

Nothing == [n |-> 0, least |-> 0, most |-> 0]

Init ==
  /\ block = <<>> /\ relay = <<>> /\ held = <<>>
  /\ copied = Nothing

(* LocalCntx::Alloc: somewhere in the first page that is free.             *)
Fresh ==
  LET page == Min({k \in 1 .. MaxHeld + 1 : \A p \in DOMAIN block : p \div Page # k})
  IN {page * Page + x : x \in Residue}

Hold(p, s, a, by) == held' = With(held, p, [s |-> s, a |-> a, by |-> by])

CanHold == Cardinality(DOMAIN held) < MaxHeld

-----------------------------------------------------------------------------
(* Alloc: malloc, the operators new.                                       *)
Alloc(s) ==
  /\ CanHold
  /\ \E p \in Fresh :
       /\ block' = With(block, p, s)
       /\ Hold(p, s, 1, "Alloc")
  /\ copied' = Nothing
  /\ UNCHANGED relay

(* calloc; the product is far from its overflow.                           *)
calloc(nmemb, size) == Alloc(nmemb * size)

sRelay == 24
sHeader == sRelay + sParcel

(* Variant: aligned from the start of the block, as if it had no headers.  *)
AlignedBare(p, a) == align_t(p, a)

(* align_p(offset_p(p, sHeader), a)                                        *)
Aligned(p, a) == align_t(p + sHeader, a)

(* Align: an address inside a larger block, behind a Relay to it.  An      *)
(* alignment of 0 is left out: align_t would return 0, and the headers     *)
(* would be written in front of the null address.                          *)
Align(a, s, asked) ==
  /\ CanHold /\ a > 0
  /\ \E p \in Fresh :
       /\ block' = With(block, p, sHeader + a + s)
       /\ relay' = With(relay, Aligned(p, a), [mp |-> p, ms |-> s])
       /\ Hold(Aligned(p, a), asked.s, asked.a, asked.by)
  /\ copied' = Nothing

-----------------------------------------------------------------------------
(* Variant: Relay::Free frees its own parcel.                              *)
ReleasedSelf(p) == p

(* Free asks the owner in the header: a Relay frees the block it lies in.  *)
Released(p) == IF p \in DOMAIN relay THEN relay[p].mp ELSE p

Free(p) ==
  /\ block' = Without(block, Released(p))
  /\ relay' = Without(relay, p)
  /\ held' = Without(held, p)
  /\ copied' = Nothing

(* Size, malloc_usable_size                                                *)
UsableSize(p) == IF p \in DOMAIN relay THEN relay[p].ms ELSE ClassSize(block[p])

(* Variant: the larger of the two.                                         *)
CopyLengthLarger(sNew, sOld) == IF sNew < sOld THEN sOld ELSE sNew

CopyLength(sNew, sOld) == IF sNew < sOld THEN sNew ELSE sOld

(* The bytes from p to the end of its block.                               *)
Reach(p) == IF p \in DOMAIN relay
            THEN relay[p].mp + Room(block[relay[p].mp]) - p
            ELSE Room(block[p])

(* ReAlloc(p, s) with p not null: a new block, a copy, and the old one is  *)
(* freed; for s = 0 it is only freed.                                      *)
ReAlloc(p, s) ==
  \/ s = 0 /\ Free(p)
  \/ /\ s > 0
     /\ \E q \in Fresh :
          /\ block' = Without(With(block, q, s), Released(p))
          /\ relay' = Without(relay, p)
          /\ held' = Without(With(held, q, [s |-> s, a |-> 1, by |-> "Alloc"]), p)
     /\ copied' = [n |-> CopyLength(s, UsableSize(p)),
                   least |-> Smaller(s, held[p].s),
                   most |-> Smaller(Room(s), Reach(p))]

-----------------------------------------------------------------------------
(* The functions of Posix.cpp that take an alignment.                      *)

(* v & -v                                                                  *)
LowestBit(v) == IF v = 0 THEN 0 ELSE bound_t(v, v)

IsPowerOf2(alignment) == LowestBit(alignment) = alignment

AlignedFor(alignment, size, asked) ==
  LowestBit(size) >= alignment /\ Align(alignment, size, asked)

aligned_alloc(alignment, size) ==
  AlignedFor(alignment, size, [s |-> size, a |-> alignment, by |-> "Align"])

(* It calls aligned_alloc(size, alignment).                                *)
memalign(alignment, size) ==
  /\ IsPowerOf2(alignment)
  /\ AlignedFor(size, alignment, [s |-> size, a |-> alignment, by |-> "memalign"])

posix_memalign(alignment, size) ==
  /\ IsPowerOf2(alignment) /\ alignment >= csSizeT
  /\ memalign(alignment, size)

valloc(size) == memalign(SystemPageSize, size)

pvalloc(size) == valloc(align_t(size, SystemPageSize))

-----------------------------------------------------------------------------
Next ==
  \/ \E s \in Request : Alloc(s)
  \/ \E s \in Request : calloc(3, s)
  \/ \E a \in Alignment, s \in Request : Align(a, s, [s |-> s, a |-> a, by |-> "Align"])
  \/ \E a \in Alignment, s \in Request : aligned_alloc(a, s)
  \/ \E a \in Alignment, s \in Request : posix_memalign(a, s)
  \/ \E s \in Request : valloc(s) \/ pvalloc(s)
  \/ \E p \in DOMAIN held : Free(p)
  \/ \E p \in DOMAIN held, s \in Request : ReAlloc(p, s)

Spec == Init /\ [][Next]_vars

-----------------------------------------------------------------------------
(* What the application holds is its own from end to end: it lies in its   *)
(* block behind the headers, and on the alignment that was asked of Align. *)
Contained ==
  \A p \in DOMAIN held :
    /\ held[p].s <= Reach(p)
    /\ p \in DOMAIN relay => p - sHeader >= relay[p].mp
    /\ held[p].by = "Align" /\ IsPowerOf2(held[p].a) => p % held[p].a = 0

(* Every block is held by the application under one address: none is lost  *)
(* by Free or ReAlloc, none is held twice.                                 *)
OneBlockEach ==
  /\ DOMAIN block = {Released(p) : p \in DOMAIN held}
  /\ Cardinality(DOMAIN block) = Cardinality(DOMAIN held)
  /\ DOMAIN relay \subseteq DOMAIN held

(* ReAlloc copies all that the application may want to keep, and neither   *)
(* reads behind the old block nor writes behind the new one.               *)
ReAllocKeeps == copied.least <= copied.n /\ copied.n <= copied.most

(* The memory a local allocator gets is the smallest that has a realm and  *)
(* is large enough, and its parcels stay inside; so is the parcel itself.  *)
Least(s) ==
  LET r == Realm(s)
  IN r \in 0 .. cnRealm - 1 /\ s <= Size(r) /\ (r > 0 => Size(r - 1) < s)
     /\ Realm(Size(r)) = r

RightClass ==
  \A p \in DOMAIN block :
    LET s == block[p]
    IN /\ Least(Budget(s)) /\ Extent(s) <= Size(Realm(Budget(s)))
       /\ s <= ClassSize(s) /\ ClassSize(s) <= Room(s)
       /\ Kind(s) = "pool" => Pool(s) < cnPool /\ ClassSize(s) < s + csSizeT + (IF s = 0 THEN 1 ELSE 0)
       /\ Kind(s) = "cram" => Least(s) /\ Realm(s) - Realm(bit(Cram(s))) \in 0 .. cnFrac

(* Posix.h:48 declares memalign(size_t alignment, size_t size): what it    *)
(* returns lies on a multiple of alignment.                                *)
MemalignAligned ==
  \A p \in DOMAIN held : held[p].by = "memalign" => p % held[p].a = 0
=============================================================================
