--------------------------- MODULE Reserver_proofs ---------------------------
(***************************************************************************)
(* Proofs about Reserver, for every number of threads, realms and shared   *)
(* stacks, every depth of the stacks and every size of the memory.         *)
(*                                                                         *)
(* The invariant is a conjunction of parts; a part is about few of the     *)
(* variables, so that a step disturbs few of the parts.  Where a block is  *)
(* is a function from places to sets of blocks, and what a step does to it *)
(* is to move a block from one place to another, or in, or out.            *)
(***************************************************************************)
EXTENDS Reserver, TLAPS, FiniteSetTheorems, SequenceTheorems,
        WellFoundedInduction

-----------------------------------------------------------------------------
(* The parts of the invariant.                                             *)

Label == {"idle", "draw", "pop", "tagged", "look", "lock", "drain", "push", "unmap", "spill"}

Stacks ==
  /\ maReserver \in [Thread -> [Realm -> Seq(Block)]]
  /\ \A t \in Thread, r \in Realm :
       Len(maReserver[t][r]) <= LocalNum(r) /\ IsInjective(maReserver[t][r])

SharedStacks ==
  /\ maaReserver \in [Realm -> [Slot -> Seq(Block)]]
  /\ \A r \in Realm, i \in Slot :
       Len(maaReserver[r][i]) <= GlobalNum(r) /\ IsInjective(maaReserver[r][i])

Spinlocks == maSpinlock \in [Realm -> [Slot -> Thread \cup {NULL}]]

Rings == moRevolverFree \in [Realm -> Slot] /\ moRevolverAlloc \in [Realm -> Slot]

Blocks ==
  /\ DOMAIN tag \subseteq Block /\ tag \in [DOMAIN tag -> [Realm : Realm, bVirtual : BOOLEAN]]
  /\ DOMAIN owner \subseteq Block /\ owner \in [DOMAIN owner -> Thread]

(* What goes with where a thread is.                                       *)
At1(t) ==
  /\ pc[t] \in {"draw", "look", "lock", "drain"} => rAlloc[t] # NULL /\ nTry[t] \in 1 .. 3
  /\ pc[t] \in {"pop", "tagged"} => rAlloc[t] # NULL /\ nTry[t] \in 1 .. 4
  /\ pc[t] \in {"push", "unmap", "spill"} /\ rAlloc[t] # NULL => nTry[t] = 2
  /\ pc[t] = "idle" => rAlloc[t] = NULL /\ t \notin bExit
  /\ pc[t] = "spill" => rAlloc[t] # NULL \/ t \in bExit
  /\ pc[t] \in {"push", "unmap"} <=> pBlock[t] # NULL
  /\ pc[t] \notin {"look", "lock", "drain"} => oRelease[t] = 0
  /\ rAlloc[t] = NULL => nTry[t] = 0
  /\ t \in bExit => rAlloc[t] = NULL

Calls ==
  /\ pc \in [Thread -> Label]
  /\ rAlloc \in [Thread -> Realm \cup {NULL}] /\ nTry \in [Thread -> 0 .. 4]
  /\ oRevolver \in [Thread -> Slot] /\ pBlock \in [Thread -> Block \cup {NULL}]
  /\ oRelease \in [Thread -> 0 .. cnRealm * mnRevolver - 1]
  /\ bExit \subseteq Thread
  /\ \A t \in Thread : At1(t)

(* The blocks there are, each at one place.                                *)
Partition(held, blocks) ==
  /\ \A p \in Place : held[p] \subseteq blocks
  /\ \A p, q \in Place : p # q => held[p] \cap held[q] = {}
  /\ \A b \in blocks : \E p \in Place : b \in held[p]

HeldAt(p, own, other, freed, used) ==
  CASE p[1] = "own" -> Range(own[p[2]][p[3]])
    [] p[1] = "shared" -> Range(other[p[2]][p[3]])
    [] p[1] = "freeing" -> {freed[p[2]]} \ {NULL}
    [] p[1] = "in use" -> DOMAIN used

HeldBy(own, other, freed, used) == [p \in Place |-> HeldAt(p, own, other, freed, used)]

Spread ==
  Partition(HeldBy(maReserver, maaReserver, pBlock, owner), DOMAIN tag)

(* The thread has come through LocalReserver::Release in this allocation.  *)
Spilled(t) ==
  \/ nTry[t] \in {3, 4}
  \/ nTry[t] = 2 /\ pc[t] \in {"look", "lock", "drain", "draw"}

GivenUp == \A t \in Thread : Spilled(t) => \A r \in Realm : maReserver[t][r] = <<>>

(* So many of the shared stacks it has come through after that.            *)
Through(t) ==
  CASE nTry[t] = 4 -> cnRealm * mnRevolver
    [] nTry[t] = 3 /\ pc[t] = "draw" -> cnRealm * mnRevolver
    [] nTry[t] = 3 /\ pc[t] \in {"look", "lock", "drain"} -> oRelease[t]
    [] OTHER -> 0

Passed ==
  /\ alone \subseteq Thread
  /\ \A t \in alone : \A r \in Realm, i \in Slot :
       r * mnRevolver + i < Through(t) => maaReserver[r][i] = <<>>

ReserverInv ==
  /\ Stacks /\ SharedStacks /\ Spinlocks /\ Rings /\ Blocks /\ Calls
  /\ Spread /\ RightRealm /\ GivenUp /\ Passed

-----------------------------------------------------------------------------
(* What the assumptions say of the constants.                              *)
LEMMA Constants ==
  /\ Block \subseteq Nat /\ NULL \notin Nat /\ NULL \notin Thread
  /\ NULL \notin Block /\ NULL \notin Realm /\ NULL \notin Slot
  /\ cnRealm \in Nat \ {0} /\ mnRevolver \in Nat \ {0}
  /\ \A r \in Realm : LocalNum(r) \in Nat /\ GlobalNum(r) \in Nat
  <1>1. /\ Block \subseteq Nat /\ NULL \notin Nat /\ NULL \notin Thread
        /\ cnRealm \in Nat \ {0} /\ mnRevolver \in Nat \ {0}
    BY ReserverAssumption
  <1>2. Realm \subseteq Nat /\ Slot \subseteq Nat
    BY <1>1 DEF Realm, Slot
  <1>3. \A r \in Realm : LocalNum(r) \in Nat /\ GlobalNum(r) \in Nat
    BY ReserverAssumption
  <1> QED BY <1>1, <1>2, <1>3

(* A set of natural numbers that is not empty has a minimum.               *)
LEMMA MinIsIn ==
  ASSUME NEW S, S \subseteq Nat, S # {}
  PROVE  Min(S) \in S
  <1>1. PICK x \in S : \A y \in S : ~(<<y, x>> \in OpToRel(<, Nat))
    BY NatLessThanWellFounded, WFMin
  <1>2. ASSUME NEW y \in S PROVE x <= y
    <2>1. x \in Nat /\ y \in Nat
      OBVIOUS
    <2>2. ~(y < x)
      BY <1>1, <2>1 DEF OpToRel
    <2> QED BY <2>1, <2>2
  <1> QED BY <1>2 DEF Min

LEMMA FreshIsNew ==
  ASSUME Blocks, DOMAIN tag # Block
  PROVE  Fresh \in Block /\ Fresh \notin DOMAIN tag
  <1>1. Block \ DOMAIN tag \subseteq Nat /\ Block \ DOMAIN tag # {}
    BY Constants DEF Blocks
  <1> QED BY <1>1, MinIsIn DEF Fresh

(* The order in which Release goes: over the realms, over the slots.       *)
LEMMA Quotient ==
  ASSUME NEW n \in Nat
  PROVE  /\ n \div mnRevolver \in Nat /\ n % mnRevolver \in Slot
         /\ n = (n \div mnRevolver) * mnRevolver + (n % mnRevolver)
  BY Constants DEF Slot

(* A product grows by at least the factor.                                 *)
LEMMA Product ==
  ASSUME NEW a \in Int, NEW b \in Int, a < b
  PROVE  a * mnRevolver + mnRevolver <= b * mnRevolver
  <1>1. mnRevolver \in Nat /\ mnRevolver >= 1
    BY Constants
  <1>2. b - a - 1 \in Nat
    OBVIOUS
  <1>3. (b - a - 1) * mnRevolver >= 0
    BY <1>1, <1>2
  <1>4. (b - a - 1) * mnRevolver = b * mnRevolver - a * mnRevolver - mnRevolver
    BY <1>1
  <1>5. a * mnRevolver \in Int /\ b * mnRevolver \in Int
    BY <1>1
  <1> QED BY <1>1, <1>3, <1>4, <1>5

(* A place in that order belongs to one slot of one realm.                 *)
LEMMA OneSlot ==
  ASSUME NEW n \in Nat, NEW r \in Int, NEW i \in Slot, n = r * mnRevolver + i
  PROVE  r = n \div mnRevolver /\ i = n % mnRevolver
  <1> DEFINE q == n \div mnRevolver
  <1> DEFINE k == n % mnRevolver
  <1>1. q \in Nat /\ k \in Slot /\ n = q * mnRevolver + k
    BY Quotient
  <1> HIDE DEF q, k
  <1>2. mnRevolver \in Nat /\ i \in Nat /\ k \in Nat /\ i < mnRevolver /\ k < mnRevolver
    BY <1>1, Constants DEF Slot
  <1>3. r * mnRevolver \in Int /\ q * mnRevolver \in Int
    BY <1>1, <1>2
  <1>4. ~(r < q)
    <2>1. r < q => r * mnRevolver + mnRevolver <= q * mnRevolver
      BY <1>1, Product
    <2> QED BY <2>1, <1>1, <1>2, <1>3
  <1>5. ~(q < r)
    <2>1. q < r => q * mnRevolver + mnRevolver <= r * mnRevolver
      BY <1>1, Product
    <2> QED BY <2>1, <1>1, <1>2, <1>3
  <1>6. r = q
    BY <1>1, <1>4, <1>5
  <1>7. i = k
    BY <1>1, <1>2, <1>3, <1>6
  <1> QED BY <1>6, <1>7 DEF q, k

(* All the slots come before the end.                                      *)
LEMMA BeforeEnd ==
  ASSUME NEW r \in Realm, NEW i \in Slot
  PROVE  r * mnRevolver + i \in Nat /\ r * mnRevolver + i < cnRealm * mnRevolver
  <1>1. r \in Nat /\ r < cnRealm /\ i \in Nat /\ i < mnRevolver /\ mnRevolver \in Nat /\ cnRealm \in Nat
    BY Constants DEF Realm, Slot
  <1>2. r * mnRevolver + mnRevolver <= cnRealm * mnRevolver
    BY <1>1, Product
  <1>3. r * mnRevolver \in Nat /\ cnRealm * mnRevolver \in Nat
    BY <1>1
  <1> QED BY <1>1, <1>2, <1>3

LEMMA ZeroPlaces ==
  0 \in Realm /\ 0 \in Slot /\ 0 \in 0 .. cnRealm * mnRevolver - 1
  <1>1. 0 \in Realm /\ 0 \in Slot
    BY Constants DEF Realm, Slot
  <1>2. 0 * mnRevolver + 0 < cnRealm * mnRevolver
    BY <1>1, BeforeEnd
  <1>3. cnRealm * mnRevolver \in Nat /\ 0 * mnRevolver + 0 = 0
    BY Constants
  <1> QED BY <1>1, <1>2, <1>3

(* And what comes before the end is a slot.                                *)
LEMMA SlotOfRelease ==
  ASSUME NEW t \in Thread, oRelease \in [Thread -> 0 .. cnRealm * mnRevolver - 1]
  PROVE  rRelease(t) \in Realm /\ iRelease(t) \in Slot
  <1> DEFINE n == oRelease[t]
  <1>1. cnRealm \in Nat /\ mnRevolver \in Nat /\ cnRealm * mnRevolver \in Nat
    BY Constants
  <1>2. n \in Nat /\ n < cnRealm * mnRevolver
    <2>1. n \in 0 .. cnRealm * mnRevolver - 1
      OBVIOUS
    <2> HIDE DEF n
    <2> QED BY <2>1, <1>1
  <1> HIDE DEF n
  <1> DEFINE q == n \div mnRevolver
  <1>3. q \in Nat /\ n % mnRevolver \in Slot /\ n = q * mnRevolver + (n % mnRevolver)
    BY <1>2, Quotient
  <1> HIDE DEF q
  <1>4. ~(cnRealm <= q)
    <2>1. SUFFICES ASSUME cnRealm <= q PROVE FALSE
      OBVIOUS
    <2>2. cnRealm = q \/ cnRealm < q
      BY <2>1, <1>1, <1>3
    <2>3. cnRealm < q => cnRealm * mnRevolver + mnRevolver <= q * mnRevolver
      BY <1>1, <1>3, Product
    <2>4. q * mnRevolver \in Int
      BY <1>1, <1>3
    <2>5. cnRealm * mnRevolver <= q * mnRevolver
      BY <2>2, <2>3, <2>4, <1>1
    <2>6. n % mnRevolver \in Nat
      BY <1>3 DEF Slot
    <2> QED BY <2>4, <2>5, <2>6, <1>1, <1>2, <1>3
  <1>5. q \in Realm
    BY <1>1, <1>3, <1>4 DEF Realm
  <1> QED BY <1>3, <1>5 DEF q, n, rRelease, iRelease

(* The counter of a ring stays in it.                                      *)
LEMMA NextInRing ==
  ASSUME NEW i \in Slot
  PROVE  Next1(i) \in Slot
  <1>1. i + 1 \in Nat
    BY DEF Slot
  <1> QED BY <1>1, Quotient DEF Next1

(* A block is put on a stack.                                              *)
LEMMA PutStack ==
  ASSUME NEW s \in Seq(Block), NEW b \in Block
  PROVE  /\ Put(s, b) \in Seq(Block) /\ Len(Put(s, b)) = Len(s) + 1
         /\ Range(Put(s, b)) = Range(s) \cup {b}
         /\ IsInjective(s) /\ b \notin Range(s) => IsInjective(Put(s, b))
  <1> DEFINE q == Put(s, b)
  <1>1. /\ Len(s) \in Nat /\ DOMAIN s = 1 .. Len(s)
        /\ <<b>> \in Seq(Block) /\ Len(<<b>>) = 1 /\ <<b>>[1] = b
    OBVIOUS
  <1>2. /\ q \in Seq(Block) /\ Len(q) = Len(s) + 1
        /\ \A k \in 1 .. Len(s) + 1 : q[k] = IF k = 1 THEN b ELSE s[k - 1]
    <2>1. /\ q \in Seq(Block) /\ Len(q) = 1 + Len(s)
          /\ \A k \in 1 .. 1 + Len(s) : q[k] = IF k <= 1 THEN <<b>>[k] ELSE s[k - 1]
      BY <1>1, ConcatProperties DEF Put
    <2> HIDE DEF q
    <2> QED BY <2>1, <1>1
  <1> HIDE DEF q
  <1>3. DOMAIN q = 1 .. Len(s) + 1
    BY <1>2
  <1>4. \A k \in 1 .. Len(s) : k + 1 \in 1 .. Len(s) + 1 /\ q[k + 1] = s[k]
    BY <1>1, <1>2
  <1>5. q[1] = b /\ 1 \in DOMAIN q
    BY <1>1, <1>2, <1>3
  <1>6. \A k \in DOMAIN q : k = 1 \/ (k - 1 \in DOMAIN s /\ q[k] = s[k - 1])
    BY <1>1, <1>2, <1>3
  <1>7. Range(q) = Range(s) \cup {b}
    <2>1. ASSUME NEW x \in Range(q) PROVE x \in Range(s) \cup {b}
      BY <1>5, <1>6 DEF Range
    <2>2. ASSUME NEW x \in Range(s) \cup {b} PROVE x \in Range(q)
      BY <1>1, <1>3, <1>4, <1>5 DEF Range
    <2> QED BY <2>1, <2>2
  <1>8. ASSUME IsInjective(s), b \notin Range(s) PROVE IsInjective(q)
    <2> SUFFICES ASSUME NEW i \in DOMAIN q, NEW j \in DOMAIN q, q[i] = q[j]
                 PROVE  i = j
      BY DEF IsInjective
    <2>1. \A k \in DOMAIN s : s[k] # b
      BY <1>8 DEF Range
    <2>2. i # 1 /\ j # 1 => i - 1 = j - 1
      BY <1>6, <1>8 DEF IsInjective
    <2>3. i \in Nat /\ j \in Nat
      BY <1>3
    <2> QED BY <1>5, <1>6, <2>1, <2>2, <2>3
  <1> QED BY <1>2, <1>7, <1>8 DEF q

(* A block is taken from a stack.                                          *)
LEMMA TailStack ==
  ASSUME NEW s \in Seq(Block), s # <<>>
  PROVE  /\ Tail(s) \in Seq(Block) /\ Len(Tail(s)) + 1 = Len(s)
         /\ Head(s) \in Range(s) /\ Head(s) \in Block
         /\ IsInjective(s) => IsInjective(Tail(s)) /\ Range(Tail(s)) = Range(s) \ {Head(s)}
  <1> DEFINE q == Tail(s)
  <1>1. /\ Len(s) \in Nat \ {0} /\ DOMAIN s = 1 .. Len(s) /\ Head(s) = s[1]
    OBVIOUS
  <1>2. /\ q \in Seq(Block) /\ Len(q) = Len(s) - 1
        /\ \A k \in 1 .. Len(s) - 1 : q[k] = s[k + 1]
    OBVIOUS
  <1> HIDE DEF q
  <1>3. DOMAIN q = 1 .. Len(s) - 1
    BY <1>1, <1>2
  <1>4. Head(s) \in Range(s) /\ Head(s) \in Block
    BY <1>1 DEF Range
  <1>5. ASSUME IsInjective(s) PROVE IsInjective(q) /\ Range(q) = Range(s) \ {Head(s)}
    <2>1. \A k \in DOMAIN q : k + 1 \in DOMAIN s /\ q[k] = s[k + 1] /\ k + 1 # 1
      BY <1>1, <1>2, <1>3
    <2>2. IsInjective(q)
      <3> SUFFICES ASSUME NEW i \in DOMAIN q, NEW j \in DOMAIN q, q[i] = q[j]
                   PROVE  i = j
        BY DEF IsInjective
      <3>1. i + 1 = j + 1
        BY <2>1, <1>5 DEF IsInjective
      <3> QED BY <3>1, <1>3
    <2>3. ASSUME NEW x \in Range(q) PROVE x \in Range(s) \ {Head(s)}
      BY <2>1, <1>1, <1>5 DEF Range, IsInjective
    <2>4. ASSUME NEW x \in Range(s) \ {Head(s)} PROVE x \in Range(q)
      <3>1. PICK k \in DOMAIN s : s[k] = x
        BY DEF Range
      <3>2. k # 1
        BY <3>1, <1>1
      <3>3. k - 1 \in DOMAIN q /\ (k - 1) + 1 = k
        BY <3>1, <3>2, <1>1, <1>3
      <3> QED BY <3>1, <3>3, <2>1 DEF Range
    <2> QED BY <2>2, <2>3, <2>4
  <1> QED BY <1>1, <1>2, <1>4, <1>5 DEF q

LEMMA EmptyStack == Range(<<>>) = {} /\ IsInjective(<<>>) /\ Len(<<>>) = 0
  BY DEF Range, IsInjective

(* A function of functions, changed at one place.                          *)
LEMMA Nested ==
  ASSUME NEW A, NEW B, NEW C, NEW f \in [A -> [B -> C]], NEW a \in A, NEW b \in B, NEW c \in C
  PROVE  /\ [f EXCEPT ![a][b] = c] \in [A -> [B -> C]]
         /\ [f EXCEPT ![a][b] = c][a][b] = c
         /\ \A x \in A, y \in B : x # a \/ y # b => [f EXCEPT ![a][b] = c][x][y] = f[x][y]
  OBVIOUS

-----------------------------------------------------------------------------
(* The places, and what a step may do to what is where.                    *)
LEMMA Places ==
  /\ \A t \in Thread, r \in Realm : <<"own", t, r>> \in Place
  /\ \A r \in Realm, i \in Slot : <<"shared", r, i>> \in Place
  /\ \A t \in Thread : <<"freeing", t>> \in Place
  /\ <<"in use">> \in Place
  /\ \A p \in Place :
       \/ \E t \in Thread, r \in Realm : p = <<"own", t, r>>
       \/ \E r \in Realm, i \in Slot : p = <<"shared", r, i>>
       \/ \E t \in Thread : p = <<"freeing", t>>
       \/ p = <<"in use">>
  <1>1. \A t \in Thread, r \in Realm : <<"own", t, r>> \in Place
    BY DEF Place
  <1>2. \A r \in Realm, i \in Slot : <<"shared", r, i>> \in Place
    BY DEF Place
  <1>3. \A t \in Thread : <<"freeing", t>> \in Place
    BY DEF Place
  <1>4. <<"in use">> \in Place
    BY DEF Place
  <1>5. ASSUME NEW p \in Place
        PROVE  \/ \E t \in Thread, r \in Realm : p = <<"own", t, r>>
               \/ \E r \in Realm, i \in Slot : p = <<"shared", r, i>>
               \/ \E t \in Thread : p = <<"freeing", t>>
               \/ p = <<"in use">>
    <2>1. CASE p \in {"own"} \X Thread \X Realm
      <3>1. p = <<"own", p[2], p[3]>> /\ p[2] \in Thread /\ p[3] \in Realm
        BY <2>1
      <3> QED BY <3>1
    <2>2. CASE p \in {"shared"} \X Realm \X Slot
      <3>1. p = <<"shared", p[2], p[3]>> /\ p[2] \in Realm /\ p[3] \in Slot
        BY <2>2
      <3> QED BY <3>1
    <2>3. CASE p \in {"freeing"} \X Thread
      <3>1. p = <<"freeing", p[2]>> /\ p[2] \in Thread
        BY <2>3
      <3> QED BY <3>1
    <2> QED BY <2>1, <2>2, <2>3 DEF Place
  <1> QED BY <1>1, <1>2, <1>3, <1>4, <1>5

(* A function on the places that says what is at each.                     *)
HoldsAll(held, own, other, freed, used) ==
  /\ \A t \in Thread, r \in Realm : held[<<"own", t, r>>] = Range(own[t][r])
  /\ \A r \in Realm, i \in Slot : held[<<"shared", r, i>>] = Range(other[r][i])
  /\ \A t \in Thread : held[<<"freeing", t>>] = {freed[t]} \ {NULL}
  /\ held[<<"in use">>] = DOMAIN used

OnPlaces(held) == held = [p \in Place |-> held[p]]

LEMMA Holds ==
  ASSUME NEW own, NEW other, NEW freed, NEW used
  PROVE  /\ OnPlaces(HeldBy(own, other, freed, used))
         /\ HoldsAll(HeldBy(own, other, freed, used), own, other, freed, used)
  <1> DEFINE held == HeldBy(own, other, freed, used)
  <1>1. OnPlaces(held)
    BY DEF HeldBy, OnPlaces
  <1>2. ASSUME NEW t \in Thread, NEW r \in Realm
        PROVE  held[<<"own", t, r>>] = Range(own[t][r])
    BY Places DEF HeldBy, HeldAt
  <1>3. ASSUME NEW r \in Realm, NEW i \in Slot
        PROVE  held[<<"shared", r, i>>] = Range(other[r][i])
    BY Places DEF HeldBy, HeldAt
  <1>4. ASSUME NEW t \in Thread PROVE held[<<"freeing", t>>] = {freed[t]} \ {NULL}
    BY Places DEF HeldBy, HeldAt
  <1>5. held[<<"in use">>] = DOMAIN used
    BY Places DEF HeldBy, HeldAt
  <1> HIDE DEF held
  <1>6. HoldsAll(held, own, other, freed, used)
    BY <1>2, <1>3, <1>4, <1>5 DEF HoldsAll
  <1> QED BY <1>1, <1>6 DEF held

(* Two that agree but for place x.                                         *)
ChangedAt(g, f, x, S) == g = [f EXCEPT ![x] = S]

LEMMA HeldChange ==
  ASSUME NEW f, NEW g, OnPlaces(f), OnPlaces(g), NEW x \in Place, NEW S, g[x] = S,
         \A p \in Place : p # x => g[p] = f[p]
  PROVE  ChangedAt(g, f, x, S)
  <1>1. /\ g = [p \in Place |-> g[p]] /\ f = [p \in Place |-> f[p]]
    BY DEF OnPlaces
  <1> QED BY <1>1 DEF ChangedAt

(* A block moves.                                                          *)
LEMMA MovedBlock ==
  ASSUME NEW held, NEW blocks, OnPlaces(held), Partition(held, blocks),
         NEW p \in Place, NEW q \in Place, p # q, NEW b \in held[p]
  PROVE  Partition([held EXCEPT ![p] = @ \ {b}, ![q] = @ \cup {b}], blocks)
  <1> DEFINE new == [held EXCEPT ![p] = @ \ {b}, ![q] = @ \cup {b}]
  <1>1. \A x \in Place : new[x] = IF x = p THEN held[x] \ {b}
                                  ELSE IF x = q THEN held[x] \cup {b} ELSE held[x]
    BY DEF OnPlaces
  <1> HIDE DEF new
  <1>2. \A x \in Place : b \in held[x] => x = p
    BY DEF Partition
  <1>3. b \in blocks
    BY DEF Partition
  <1>4. \A x \in Place : new[x] \subseteq blocks
    BY <1>1, <1>3 DEF Partition
  <1>5. ASSUME NEW x \in Place, NEW y \in Place, x # y PROVE new[x] \cap new[y] = {}
    <2>1. held[x] \cap held[y] = {}
      BY <1>5 DEF Partition
    <2> QED BY <2>1, <1>1, <1>2, <1>5
  <1>6. ASSUME NEW c \in blocks PROVE \E x \in Place : c \in new[x]
    <2>1. PICK x \in Place : c \in held[x]
      BY DEF Partition
    <2> QED BY <2>1, <1>1
  <1> QED BY <1>1, <1>4, <1>5, <1>6 DEF Partition, new

(* A block goes back to the heap or the system.                            *)
LEMMA GoneBlock ==
  ASSUME NEW held, NEW blocks, OnPlaces(held), Partition(held, blocks),
         NEW p \in Place, NEW b \in held[p]
  PROVE  Partition([held EXCEPT ![p] = @ \ {b}], blocks \ {b})
  <1> DEFINE new == [held EXCEPT ![p] = @ \ {b}]
  <1>1. \A x \in Place : new[x] = IF x = p THEN held[x] \ {b} ELSE held[x]
    BY DEF OnPlaces
  <1> HIDE DEF new
  <1>2. \A x \in Place : b \in held[x] => x = p
    BY DEF Partition
  <1>3. \A x \in Place : new[x] \subseteq blocks \ {b}
    BY <1>1, <1>2 DEF Partition
  <1>4. \A x, y \in Place : x # y => new[x] \cap new[y] = {}
    BY <1>1 DEF Partition
  <1>5. ASSUME NEW c \in blocks \ {b} PROVE \E x \in Place : c \in new[x]
    <2>1. PICK x \in Place : c \in held[x]
      BY DEF Partition
    <2> QED BY <2>1, <1>1
  <1> QED BY <1>1, <1>3, <1>4, <1>5 DEF Partition, new

(* A block comes from the heap or the system.                              *)
LEMMA NewBlock ==
  ASSUME NEW held, NEW blocks, OnPlaces(held), Partition(held, blocks),
         NEW q \in Place, NEW b, b \notin blocks
  PROVE  Partition([held EXCEPT ![q] = @ \cup {b}], blocks \cup {b})
  <1> DEFINE new == [held EXCEPT ![q] = @ \cup {b}]
  <1>1. \A x \in Place : new[x] = IF x = q THEN held[x] \cup {b} ELSE held[x]
    BY DEF OnPlaces
  <1> HIDE DEF new
  <1>2. \A x \in Place : b \notin held[x]
    BY DEF Partition
  <1>3. \A x \in Place : new[x] \subseteq blocks \cup {b}
    BY <1>1 DEF Partition
  <1>4. ASSUME NEW x \in Place, NEW y \in Place, x # y PROVE new[x] \cap new[y] = {}
    <2>1. held[x] \cap held[y] = {}
      BY <1>4 DEF Partition
    <2> QED BY <2>1, <1>1, <1>2, <1>4
  <1>5. ASSUME NEW c \in blocks \cup {b} PROVE \E x \in Place : c \in new[x]
    BY <1>1 DEF Partition
  <1> QED BY <1>1, <1>3, <1>4, <1>5 DEF Partition, new

(* What is where when one stack, one hand, or what is in use, changes.     *)
LEMMA OwnHeld ==
  ASSUME NEW own, NEW other, NEW freed, NEW used, NEW new, NEW t \in Thread, NEW r \in Realm,
         \A u \in Thread, q \in Realm : u # t \/ q # r => new[u][q] = own[u][q]
  PROVE  ChangedAt(HeldBy(new, other, freed, used), HeldBy(own, other, freed, used), <<"own", t, r>>, Range(new[t][r]))
  <1> DEFINE f == HeldBy(own, other, freed, used)
  <1> DEFINE g == HeldBy(new, other, freed, used)
  <1> DEFINE x == <<"own", t, r>>
  <1>1. OnPlaces(f) /\ HoldsAll(f, own, other, freed, used)
    BY Holds
  <1>2. OnPlaces(g) /\ HoldsAll(g, new, other, freed, used)
    BY Holds
  <1> HIDE DEF f, g
  <1>3. x \in Place /\ g[x] = Range(new[t][r])
    BY <1>2, Places DEF HoldsAll
  <1>4. ASSUME NEW p \in Place, p # x PROVE g[p] = f[p]
    <2>1. CASE \E u \in Thread, q \in Realm : p = <<"own", u, q>>
      <3>1. PICK u \in Thread, q \in Realm : p = <<"own", u, q>>
        BY <2>1
      <3>2. f[<<"own", u, q>>] = Range(own[u][q])
        BY <1>1 DEF HoldsAll
      <3>3. g[<<"own", u, q>>] = Range(new[u][q])
        BY <1>2 DEF HoldsAll
      <3>4. new[u][q] = own[u][q]
        BY <3>1, <1>4
      <3> QED BY <3>1, <3>2, <3>3, <3>4
    <2>2. CASE \E q \in Realm, k \in Slot : p = <<"shared", q, k>>
      <3>1. PICK q \in Realm, k \in Slot : p = <<"shared", q, k>>
        BY <2>2
      <3>2. f[<<"shared", q, k>>] = Range(other[q][k])
        BY <1>1 DEF HoldsAll
      <3>3. g[<<"shared", q, k>>] = Range(other[q][k])
        BY <1>2 DEF HoldsAll
      <3> QED BY <3>1, <3>2, <3>3
    <2>3. CASE \E u \in Thread : p = <<"freeing", u>>
      <3>1. PICK u \in Thread : p = <<"freeing", u>>
        BY <2>3
      <3>2. f[<<"freeing", u>>] = {freed[u]} \ {NULL}
        BY <1>1 DEF HoldsAll
      <3>3. g[<<"freeing", u>>] = {freed[u]} \ {NULL}
        BY <1>2 DEF HoldsAll
      <3> QED BY <3>1, <3>2, <3>3
    <2>4. CASE p = <<"in use">>
      BY <2>4, <1>1, <1>2 DEF HoldsAll
    <2> QED BY <2>1, <2>2, <2>3, <2>4, Places
  <1> HIDE DEF x
  <1>5. ChangedAt(g, f, x, Range(new[t][r]))
    BY <1>1, <1>2, <1>3, <1>4, HeldChange
  <1> QED BY <1>5 DEF f, g, x

LEMMA SharedHeld ==
  ASSUME NEW own, NEW other, NEW freed, NEW used, NEW new, NEW r \in Realm, NEW i \in Slot,
         \A q \in Realm, k \in Slot : q # r \/ k # i => new[q][k] = other[q][k]
  PROVE  ChangedAt(HeldBy(own, new, freed, used), HeldBy(own, other, freed, used), <<"shared", r, i>>, Range(new[r][i]))
  <1> DEFINE f == HeldBy(own, other, freed, used)
  <1> DEFINE g == HeldBy(own, new, freed, used)
  <1> DEFINE x == <<"shared", r, i>>
  <1>1. OnPlaces(f) /\ HoldsAll(f, own, other, freed, used)
    BY Holds
  <1>2. OnPlaces(g) /\ HoldsAll(g, own, new, freed, used)
    BY Holds
  <1> HIDE DEF f, g
  <1>3. x \in Place /\ g[x] = Range(new[r][i])
    BY <1>2, Places DEF HoldsAll
  <1>4. ASSUME NEW p \in Place, p # x PROVE g[p] = f[p]
    <2>1. CASE \E u \in Thread, q \in Realm : p = <<"own", u, q>>
      <3>1. PICK u \in Thread, q \in Realm : p = <<"own", u, q>>
        BY <2>1
      <3>2. f[<<"own", u, q>>] = Range(own[u][q])
        BY <1>1 DEF HoldsAll
      <3>3. g[<<"own", u, q>>] = Range(own[u][q])
        BY <1>2 DEF HoldsAll
      <3> QED BY <3>1, <3>2, <3>3
    <2>2. CASE \E q \in Realm, k \in Slot : p = <<"shared", q, k>>
      <3>1. PICK q \in Realm, k \in Slot : p = <<"shared", q, k>>
        BY <2>2
      <3>2. f[<<"shared", q, k>>] = Range(other[q][k])
        BY <1>1 DEF HoldsAll
      <3>3. g[<<"shared", q, k>>] = Range(new[q][k])
        BY <1>2 DEF HoldsAll
      <3>4. new[q][k] = other[q][k]
        BY <3>1, <1>4
      <3> QED BY <3>1, <3>2, <3>3, <3>4
    <2>3. CASE \E u \in Thread : p = <<"freeing", u>>
      <3>1. PICK u \in Thread : p = <<"freeing", u>>
        BY <2>3
      <3>2. f[<<"freeing", u>>] = {freed[u]} \ {NULL}
        BY <1>1 DEF HoldsAll
      <3>3. g[<<"freeing", u>>] = {freed[u]} \ {NULL}
        BY <1>2 DEF HoldsAll
      <3> QED BY <3>1, <3>2, <3>3
    <2>4. CASE p = <<"in use">>
      BY <2>4, <1>1, <1>2 DEF HoldsAll
    <2> QED BY <2>1, <2>2, <2>3, <2>4, Places
  <1> HIDE DEF x
  <1>5. ChangedAt(g, f, x, Range(new[r][i]))
    BY <1>1, <1>2, <1>3, <1>4, HeldChange
  <1> QED BY <1>5 DEF f, g, x

LEMMA FreedHeld ==
  ASSUME NEW own, NEW other, NEW freed, NEW used, NEW new, NEW t \in Thread,
         \A u \in Thread : u # t => new[u] = freed[u]
  PROVE  ChangedAt(HeldBy(own, other, new, used), HeldBy(own, other, freed, used), <<"freeing", t>>, {new[t]} \ {NULL})
  <1> DEFINE f == HeldBy(own, other, freed, used)
  <1> DEFINE g == HeldBy(own, other, new, used)
  <1> DEFINE x == <<"freeing", t>>
  <1>1. OnPlaces(f) /\ HoldsAll(f, own, other, freed, used)
    BY Holds
  <1>2. OnPlaces(g) /\ HoldsAll(g, own, other, new, used)
    BY Holds
  <1> HIDE DEF f, g
  <1>3. x \in Place /\ g[x] = {new[t]} \ {NULL}
    BY <1>2, Places DEF HoldsAll
  <1>4. ASSUME NEW p \in Place, p # x PROVE g[p] = f[p]
    <2>1. CASE \E u \in Thread, q \in Realm : p = <<"own", u, q>>
      <3>1. PICK u \in Thread, q \in Realm : p = <<"own", u, q>>
        BY <2>1
      <3>2. f[<<"own", u, q>>] = Range(own[u][q])
        BY <1>1 DEF HoldsAll
      <3>3. g[<<"own", u, q>>] = Range(own[u][q])
        BY <1>2 DEF HoldsAll
      <3> QED BY <3>1, <3>2, <3>3
    <2>2. CASE \E q \in Realm, k \in Slot : p = <<"shared", q, k>>
      <3>1. PICK q \in Realm, k \in Slot : p = <<"shared", q, k>>
        BY <2>2
      <3>2. f[<<"shared", q, k>>] = Range(other[q][k])
        BY <1>1 DEF HoldsAll
      <3>3. g[<<"shared", q, k>>] = Range(other[q][k])
        BY <1>2 DEF HoldsAll
      <3> QED BY <3>1, <3>2, <3>3
    <2>3. CASE \E u \in Thread : p = <<"freeing", u>>
      <3>1. PICK u \in Thread : p = <<"freeing", u>>
        BY <2>3
      <3>2. f[<<"freeing", u>>] = {freed[u]} \ {NULL}
        BY <1>1 DEF HoldsAll
      <3>3. g[<<"freeing", u>>] = {new[u]} \ {NULL}
        BY <1>2 DEF HoldsAll
      <3>4. new[u] = freed[u]
        BY <3>1, <1>4
      <3> QED BY <3>1, <3>2, <3>3, <3>4
    <2>4. CASE p = <<"in use">>
      BY <2>4, <1>1, <1>2 DEF HoldsAll
    <2> QED BY <2>1, <2>2, <2>3, <2>4, Places
  <1> HIDE DEF x
  <1>5. ChangedAt(g, f, x, {new[t]} \ {NULL})
    BY <1>1, <1>2, <1>3, <1>4, HeldChange
  <1> QED BY <1>5 DEF f, g, x

LEMMA UsedHeld ==
  ASSUME NEW own, NEW other, NEW freed, NEW used, NEW new
  PROVE  ChangedAt(HeldBy(own, other, freed, new), HeldBy(own, other, freed, used), <<"in use">>, DOMAIN new)
  <1> DEFINE f == HeldBy(own, other, freed, used)
  <1> DEFINE g == HeldBy(own, other, freed, new)
  <1> DEFINE x == <<"in use">>
  <1>1. OnPlaces(f) /\ HoldsAll(f, own, other, freed, used)
    BY Holds
  <1>2. OnPlaces(g) /\ HoldsAll(g, own, other, freed, new)
    BY Holds
  <1> HIDE DEF f, g
  <1>3. x \in Place /\ g[x] = DOMAIN new
    BY <1>2, Places DEF HoldsAll
  <1>4. ASSUME NEW p \in Place, p # x PROVE g[p] = f[p]
    <2>1. CASE \E u \in Thread, q \in Realm : p = <<"own", u, q>>
      <3>1. PICK u \in Thread, q \in Realm : p = <<"own", u, q>>
        BY <2>1
      <3>2. f[<<"own", u, q>>] = Range(own[u][q])
        BY <1>1 DEF HoldsAll
      <3>3. g[<<"own", u, q>>] = Range(own[u][q])
        BY <1>2 DEF HoldsAll
      <3> QED BY <3>1, <3>2, <3>3
    <2>2. CASE \E q \in Realm, k \in Slot : p = <<"shared", q, k>>
      <3>1. PICK q \in Realm, k \in Slot : p = <<"shared", q, k>>
        BY <2>2
      <3>2. f[<<"shared", q, k>>] = Range(other[q][k])
        BY <1>1 DEF HoldsAll
      <3>3. g[<<"shared", q, k>>] = Range(other[q][k])
        BY <1>2 DEF HoldsAll
      <3> QED BY <3>1, <3>2, <3>3
    <2>3. CASE \E u \in Thread : p = <<"freeing", u>>
      <3>1. PICK u \in Thread : p = <<"freeing", u>>
        BY <2>3
      <3>2. f[<<"freeing", u>>] = {freed[u]} \ {NULL}
        BY <1>1 DEF HoldsAll
      <3>3. g[<<"freeing", u>>] = {freed[u]} \ {NULL}
        BY <1>2 DEF HoldsAll
      <3> QED BY <3>1, <3>2, <3>3
    <2> QED BY <2>1, <2>2, <2>3, <1>4, Places
  <1> HIDE DEF x
  <1>5. ChangedAt(g, f, x, DOMAIN new)
    BY <1>1, <1>2, <1>3, <1>4, HeldChange
  <1> QED BY <1>5 DEF f, g, x

(* What changes in a step, and what does not.                              *)
OnlyOwn(new, own, t, r) ==
  \A u \in Thread, q \in Realm : u # t \/ q # r => new[u][q] = own[u][q]

OnlyShared(new, other, r, i) ==
  \A q \in Realm, k \in Slot : q # r \/ k # i => new[q][k] = other[q][k]

OnlyFreed(new, freed, t) == \A u \in Thread : u # t => new[u] = freed[u]

With(T, S, b) == T = S \cup {b}
Without(T, S, b) == b \in S /\ T = S \ {b}

-----------------------------------------------------------------------------
(* Each way a block goes; what is where stays a partition.                 *)
LEMMA OwnToUse ==
  ASSUME NEW own, NEW other, NEW freed, NEW used, NEW own2, NEW used2,
         NEW blocks, NEW b, NEW t \in Thread, NEW r \in Realm,
         Partition(HeldBy(own, other, freed, used), blocks),
         OnlyOwn(own2, own, t, r),
         Without(Range(own2[t][r]), Range(own[t][r]), b),
         With(DOMAIN used2, DOMAIN used, b)
  PROVE  Partition(HeldBy(own2, other, freed, used2), blocks)
  <1> DEFINE H == HeldBy(own, other, freed, used)
  <1> DEFINE M == HeldBy(own2, other, freed, used)
  <1> DEFINE N == HeldBy(own2, other, freed, used2)
  <1> DEFINE p == <<"own", t, r>>
  <1> DEFINE q == <<"in use">>
  <1>1. OnPlaces(H) /\ HoldsAll(H, own, other, freed, used) /\ Partition(H, blocks)
    BY Holds
  <1>2. ChangedAt(M, H, p, Range(own2[t][r]))
    BY OwnHeld DEF OnlyOwn
  <1>3. ChangedAt(N, M, q, DOMAIN used2)
    BY UsedHeld
  <1> HIDE DEF H, N, M
  <1>4. p \in Place /\ H[p] = Range(own[t][r]) /\ q \in Place /\ H[q] = DOMAIN used /\ p # q
    BY <1>1, Places DEF HoldsAll
  <1> HIDE DEF p, q
  <1>5. b \in H[p] /\ Range(own2[t][r]) = H[p] \ {b}
    BY <1>4 DEF Without
  <1>6. DOMAIN used2 = H[q] \cup {b}
    BY <1>4 DEF With
  <1>7. N = [H EXCEPT ![p] = @ \ {b}, ![q] = @ \cup {b}]
    BY <1>1, <1>2, <1>3, <1>4, <1>5, <1>6 DEF OnPlaces, ChangedAt
  <1>8. Partition(N, blocks)
    BY <1>1, <1>4, <1>5, <1>7, MovedBlock
  <1> QED BY <1>8 DEF N

LEMMA SharedToUse ==
  ASSUME NEW own, NEW other, NEW freed, NEW used, NEW other2, NEW used2,
         NEW blocks, NEW b, NEW r \in Realm, NEW i \in Slot,
         Partition(HeldBy(own, other, freed, used), blocks),
         OnlyShared(other2, other, r, i),
         Without(Range(other2[r][i]), Range(other[r][i]), b),
         With(DOMAIN used2, DOMAIN used, b)
  PROVE  Partition(HeldBy(own, other2, freed, used2), blocks)
  <1> DEFINE H == HeldBy(own, other, freed, used)
  <1> DEFINE M == HeldBy(own, other2, freed, used)
  <1> DEFINE N == HeldBy(own, other2, freed, used2)
  <1> DEFINE p == <<"shared", r, i>>
  <1> DEFINE q == <<"in use">>
  <1>1. OnPlaces(H) /\ HoldsAll(H, own, other, freed, used) /\ Partition(H, blocks)
    BY Holds
  <1>2. ChangedAt(M, H, p, Range(other2[r][i]))
    BY SharedHeld DEF OnlyShared
  <1>3. ChangedAt(N, M, q, DOMAIN used2)
    BY UsedHeld
  <1> HIDE DEF H, N, M
  <1>4. p \in Place /\ H[p] = Range(other[r][i]) /\ q \in Place /\ H[q] = DOMAIN used /\ p # q
    BY <1>1, Places DEF HoldsAll
  <1> HIDE DEF p, q
  <1>5. b \in H[p] /\ Range(other2[r][i]) = H[p] \ {b}
    BY <1>4 DEF Without
  <1>6. DOMAIN used2 = H[q] \cup {b}
    BY <1>4 DEF With
  <1>7. N = [H EXCEPT ![p] = @ \ {b}, ![q] = @ \cup {b}]
    BY <1>1, <1>2, <1>3, <1>4, <1>5, <1>6 DEF OnPlaces, ChangedAt
  <1>8. Partition(N, blocks)
    BY <1>1, <1>4, <1>5, <1>7, MovedBlock
  <1> QED BY <1>8 DEF N

LEMMA NewToUse ==
  ASSUME NEW own, NEW other, NEW freed, NEW used, NEW used2,
         NEW blocks, NEW b,
         Partition(HeldBy(own, other, freed, used), blocks),
         b \notin blocks,
         With(DOMAIN used2, DOMAIN used, b)
  PROVE  Partition(HeldBy(own, other, freed, used2), blocks \cup {b})
  <1> DEFINE H == HeldBy(own, other, freed, used)
  <1> DEFINE N == HeldBy(own, other, freed, used2)
  <1> DEFINE q == <<"in use">>
  <1>1. OnPlaces(H) /\ HoldsAll(H, own, other, freed, used) /\ Partition(H, blocks)
    BY Holds
  <1>2. ChangedAt(N, H, q, DOMAIN used2)
    BY UsedHeld
  <1> HIDE DEF H, N
  <1>4. q \in Place /\ H[q] = DOMAIN used
    BY <1>1, Places DEF HoldsAll
  <1> HIDE DEF q
  <1>6. DOMAIN used2 = H[q] \cup {b}
    BY <1>4 DEF With
  <1>7. N = [H EXCEPT ![q] = @ \cup {b}]
    BY <1>1, <1>2, <1>4, <1>6 DEF OnPlaces, ChangedAt
  <1>8. Partition(N, blocks \cup {b})
    BY <1>1, <1>4, <1>7, NewBlock
  <1> QED BY <1>8 DEF N

LEMMA SharedToGone ==
  ASSUME NEW own, NEW other, NEW freed, NEW used, NEW other2,
         NEW blocks, NEW b, NEW r \in Realm, NEW i \in Slot,
         Partition(HeldBy(own, other, freed, used), blocks),
         OnlyShared(other2, other, r, i),
         Without(Range(other2[r][i]), Range(other[r][i]), b)
  PROVE  Partition(HeldBy(own, other2, freed, used), blocks \ {b})
  <1> DEFINE H == HeldBy(own, other, freed, used)
  <1> DEFINE N == HeldBy(own, other2, freed, used)
  <1> DEFINE p == <<"shared", r, i>>
  <1>1. OnPlaces(H) /\ HoldsAll(H, own, other, freed, used) /\ Partition(H, blocks)
    BY Holds
  <1>2. ChangedAt(N, H, p, Range(other2[r][i]))
    BY SharedHeld DEF OnlyShared
  <1> HIDE DEF H, N
  <1>4. p \in Place /\ H[p] = Range(other[r][i])
    BY <1>1, Places DEF HoldsAll
  <1> HIDE DEF p
  <1>5. b \in H[p] /\ Range(other2[r][i]) = H[p] \ {b}
    BY <1>4 DEF Without
  <1>7. N = [H EXCEPT ![p] = @ \ {b}]
    BY <1>1, <1>2, <1>4, <1>5 DEF OnPlaces, ChangedAt
  <1>8. Partition(N, blocks \ {b})
    BY <1>1, <1>4, <1>5, <1>7, GoneBlock
  <1> QED BY <1>8 DEF N

LEMMA UseToOwn ==
  ASSUME NEW own, NEW other, NEW freed, NEW used, NEW used2, NEW own2,
         NEW blocks, NEW b, NEW t \in Thread, NEW r \in Realm,
         Partition(HeldBy(own, other, freed, used), blocks),
         OnlyOwn(own2, own, t, r),
         Without(DOMAIN used2, DOMAIN used, b),
         With(Range(own2[t][r]), Range(own[t][r]), b)
  PROVE  Partition(HeldBy(own2, other, freed, used2), blocks)
  <1> DEFINE H == HeldBy(own, other, freed, used)
  <1> DEFINE M == HeldBy(own, other, freed, used2)
  <1> DEFINE N == HeldBy(own2, other, freed, used2)
  <1> DEFINE p == <<"in use">>
  <1> DEFINE q == <<"own", t, r>>
  <1>1. OnPlaces(H) /\ HoldsAll(H, own, other, freed, used) /\ Partition(H, blocks)
    BY Holds
  <1>2. ChangedAt(M, H, p, DOMAIN used2)
    BY UsedHeld
  <1>3. ChangedAt(N, M, q, Range(own2[t][r]))
    BY OwnHeld DEF OnlyOwn
  <1> HIDE DEF H, N, M
  <1>4. p \in Place /\ H[p] = DOMAIN used /\ q \in Place /\ H[q] = Range(own[t][r]) /\ p # q
    BY <1>1, Places DEF HoldsAll
  <1> HIDE DEF p, q
  <1>5. b \in H[p] /\ DOMAIN used2 = H[p] \ {b}
    BY <1>4 DEF Without
  <1>6. Range(own2[t][r]) = H[q] \cup {b}
    BY <1>4 DEF With
  <1>7. N = [H EXCEPT ![p] = @ \ {b}, ![q] = @ \cup {b}]
    BY <1>1, <1>2, <1>3, <1>4, <1>5, <1>6 DEF OnPlaces, ChangedAt
  <1>8. Partition(N, blocks)
    BY <1>1, <1>4, <1>5, <1>7, MovedBlock
  <1> QED BY <1>8 DEF N

LEMMA UseToFreeing ==
  ASSUME NEW own, NEW other, NEW freed, NEW used, NEW used2, NEW freed2,
         NEW blocks, NEW b, NEW t \in Thread,
         Partition(HeldBy(own, other, freed, used), blocks),
         OnlyFreed(freed2, freed, t),
         Without(DOMAIN used2, DOMAIN used, b),
         b # NULL, freed[t] = NULL, freed2[t] = b
  PROVE  Partition(HeldBy(own, other, freed2, used2), blocks)
  <1> DEFINE H == HeldBy(own, other, freed, used)
  <1> DEFINE M == HeldBy(own, other, freed, used2)
  <1> DEFINE N == HeldBy(own, other, freed2, used2)
  <1> DEFINE p == <<"in use">>
  <1> DEFINE q == <<"freeing", t>>
  <1>1. OnPlaces(H) /\ HoldsAll(H, own, other, freed, used) /\ Partition(H, blocks)
    BY Holds
  <1>2. ChangedAt(M, H, p, DOMAIN used2)
    BY UsedHeld
  <1>3. ChangedAt(N, M, q, {freed2[t]} \ {NULL})
    BY FreedHeld DEF OnlyFreed
  <1> HIDE DEF H, N, M
  <1>4. p \in Place /\ H[p] = DOMAIN used /\ q \in Place /\ H[q] = {freed[t]} \ {NULL} /\ p # q
    BY <1>1, Places DEF HoldsAll
  <1> HIDE DEF p, q
  <1>5. b \in H[p] /\ DOMAIN used2 = H[p] \ {b}
    BY <1>4 DEF Without
  <1>6. {freed2[t]} \ {NULL} = H[q] \cup {b}
    BY <1>4 DEF With
  <1>7. N = [H EXCEPT ![p] = @ \ {b}, ![q] = @ \cup {b}]
    BY <1>1, <1>2, <1>3, <1>4, <1>5, <1>6 DEF OnPlaces, ChangedAt
  <1>8. Partition(N, blocks)
    BY <1>1, <1>4, <1>5, <1>7, MovedBlock
  <1> QED BY <1>8 DEF N

LEMMA FreeingToShared ==
  ASSUME NEW own, NEW other, NEW freed, NEW used, NEW freed2, NEW other2,
         NEW blocks, NEW b, NEW t \in Thread, NEW r \in Realm, NEW i \in Slot,
         Partition(HeldBy(own, other, freed, used), blocks),
         OnlyFreed(freed2, freed, t),
         OnlyShared(other2, other, r, i),
         b # NULL, freed[t] = b, freed2[t] = NULL,
         With(Range(other2[r][i]), Range(other[r][i]), b)
  PROVE  Partition(HeldBy(own, other2, freed2, used), blocks)
  <1> DEFINE H == HeldBy(own, other, freed, used)
  <1> DEFINE M == HeldBy(own, other, freed2, used)
  <1> DEFINE N == HeldBy(own, other2, freed2, used)
  <1> DEFINE p == <<"freeing", t>>
  <1> DEFINE q == <<"shared", r, i>>
  <1>1. OnPlaces(H) /\ HoldsAll(H, own, other, freed, used) /\ Partition(H, blocks)
    BY Holds
  <1>2. ChangedAt(M, H, p, {freed2[t]} \ {NULL})
    BY FreedHeld DEF OnlyFreed
  <1>3. ChangedAt(N, M, q, Range(other2[r][i]))
    BY SharedHeld DEF OnlyShared
  <1> HIDE DEF H, N, M
  <1>4. p \in Place /\ H[p] = {freed[t]} \ {NULL} /\ q \in Place /\ H[q] = Range(other[r][i]) /\ p # q
    BY <1>1, Places DEF HoldsAll
  <1> HIDE DEF p, q
  <1>5. b \in H[p] /\ {freed2[t]} \ {NULL} = H[p] \ {b}
    BY <1>4 DEF Without
  <1>6. Range(other2[r][i]) = H[q] \cup {b}
    BY <1>4 DEF With
  <1>7. N = [H EXCEPT ![p] = @ \ {b}, ![q] = @ \cup {b}]
    BY <1>1, <1>2, <1>3, <1>4, <1>5, <1>6 DEF OnPlaces, ChangedAt
  <1>8. Partition(N, blocks)
    BY <1>1, <1>4, <1>5, <1>7, MovedBlock
  <1> QED BY <1>8 DEF N

LEMMA FreeingToGone ==
  ASSUME NEW own, NEW other, NEW freed, NEW used, NEW freed2,
         NEW blocks, NEW b, NEW t \in Thread,
         Partition(HeldBy(own, other, freed, used), blocks),
         OnlyFreed(freed2, freed, t),
         b # NULL, freed[t] = b, freed2[t] = NULL
  PROVE  Partition(HeldBy(own, other, freed2, used), blocks \ {b})
  <1> DEFINE H == HeldBy(own, other, freed, used)
  <1> DEFINE N == HeldBy(own, other, freed2, used)
  <1> DEFINE p == <<"freeing", t>>
  <1>1. OnPlaces(H) /\ HoldsAll(H, own, other, freed, used) /\ Partition(H, blocks)
    BY Holds
  <1>2. ChangedAt(N, H, p, {freed2[t]} \ {NULL})
    BY FreedHeld DEF OnlyFreed
  <1> HIDE DEF H, N
  <1>4. p \in Place /\ H[p] = {freed[t]} \ {NULL}
    BY <1>1, Places DEF HoldsAll
  <1> HIDE DEF p
  <1>5. b \in H[p] /\ {freed2[t]} \ {NULL} = H[p] \ {b}
    BY <1>4 DEF Without
  <1>7. N = [H EXCEPT ![p] = @ \ {b}]
    BY <1>1, <1>2, <1>4, <1>5 DEF OnPlaces, ChangedAt
  <1>8. Partition(N, blocks \ {b})
    BY <1>1, <1>4, <1>5, <1>7, GoneBlock
  <1> QED BY <1>8 DEF N

LEMMA OwnToFreeing ==
  ASSUME NEW own, NEW other, NEW freed, NEW used, NEW own2, NEW freed2,
         NEW blocks, NEW b, NEW t \in Thread, NEW r \in Realm,
         Partition(HeldBy(own, other, freed, used), blocks),
         OnlyOwn(own2, own, t, r),
         OnlyFreed(freed2, freed, t),
         Without(Range(own2[t][r]), Range(own[t][r]), b),
         b # NULL, freed[t] = NULL, freed2[t] = b
  PROVE  Partition(HeldBy(own2, other, freed2, used), blocks)
  <1> DEFINE H == HeldBy(own, other, freed, used)
  <1> DEFINE M == HeldBy(own2, other, freed, used)
  <1> DEFINE N == HeldBy(own2, other, freed2, used)
  <1> DEFINE p == <<"own", t, r>>
  <1> DEFINE q == <<"freeing", t>>
  <1>1. OnPlaces(H) /\ HoldsAll(H, own, other, freed, used) /\ Partition(H, blocks)
    BY Holds
  <1>2. ChangedAt(M, H, p, Range(own2[t][r]))
    BY OwnHeld DEF OnlyOwn
  <1>3. ChangedAt(N, M, q, {freed2[t]} \ {NULL})
    BY FreedHeld DEF OnlyFreed
  <1> HIDE DEF H, N, M
  <1>4. p \in Place /\ H[p] = Range(own[t][r]) /\ q \in Place /\ H[q] = {freed[t]} \ {NULL} /\ p # q
    BY <1>1, Places DEF HoldsAll
  <1> HIDE DEF p, q
  <1>5. b \in H[p] /\ Range(own2[t][r]) = H[p] \ {b}
    BY <1>4 DEF Without
  <1>6. {freed2[t]} \ {NULL} = H[q] \cup {b}
    BY <1>4 DEF With
  <1>7. N = [H EXCEPT ![p] = @ \ {b}, ![q] = @ \cup {b}]
    BY <1>1, <1>2, <1>3, <1>4, <1>5, <1>6 DEF OnPlaces, ChangedAt
  <1>8. Partition(N, blocks)
    BY <1>1, <1>4, <1>5, <1>7, MovedBlock
  <1> QED BY <1>8 DEF N

-----------------------------------------------------------------------------
(* A step is one thread's; the others are where they were.                 *)
Still(u) ==
  /\ pc'[u] = pc[u] /\ rAlloc'[u] = rAlloc[u] /\ nTry'[u] = nTry[u]
  /\ pBlock'[u] = pBlock[u] /\ oRelease'[u] = oRelease[u]
  /\ u \in bExit' <=> u \in bExit

Typed ==
  /\ pc \in [Thread -> Label]
  /\ rAlloc \in [Thread -> Realm \cup {NULL}] /\ nTry \in [Thread -> 0 .. 4]
  /\ oRevolver \in [Thread -> Slot] /\ pBlock \in [Thread -> Block \cup {NULL}]
  /\ oRelease \in [Thread -> 0 .. cnRealm * mnRevolver - 1]
  /\ bExit \subseteq Thread

LEMMA CallsStep ==
  ASSUME Calls, NEW t \in Thread, \A u \in Thread \ {t} : Still(u), Typed', At1(t)'
  PROVE  Calls'
  <1>1. ASSUME NEW u \in Thread PROVE At1(u)'
    <2>1. CASE u = t
      BY <2>1
    <2>2. CASE u # t
      <3>1. At1(u) /\ Still(u)
        BY <2>2 DEF Calls
      <3> QED BY <3>1 DEF At1, Still
    <2> QED BY <2>1, <2>2
  <1> QED BY <1>1 DEF Calls, Typed

LEMMA GivenUpStep ==
  ASSUME GivenUp, NEW t \in Thread, \A u \in Thread \ {t} : Still(u),
         \A u \in Thread \ {t} : maReserver'[u] = maReserver[u],
         Spilled(t)' => \A r \in Realm : maReserver'[t][r] = <<>>
  PROVE  GivenUp'
  <1> SUFFICES ASSUME NEW u \in Thread, Spilled(u)', NEW r \in Realm
               PROVE  maReserver'[u][r] = <<>>
    BY DEF GivenUp
  <1>1. CASE u = t
    BY <1>1
  <1>2. CASE u # t
    <2>1. Still(u) /\ maReserver'[u] = maReserver[u]
      BY <1>2
    <2>2. Spilled(u)
      BY <2>1 DEF Spilled, Still
    <2> QED BY <2>1, <2>2 DEF GivenUp
  <1> QED BY <1>1, <1>2

LEMMA PassedStep ==
  ASSUME NEW t \in Thread, alone' \subseteq {t},
         t \in alone' => \A r \in Realm, i \in Slot :
           r * mnRevolver + i < Through(t)' => maaReserver'[r][i] = <<>>
  PROVE  Passed'
  BY DEF Passed

LEMMA NoneThrough ==
  ASSUME NEW t \in Thread, Through(t)' = 0, alone' \subseteq {t}
  PROVE  Passed'
  <1>1. \A r \in Realm, i \in Slot : ~(r * mnRevolver + i < 0)
    BY BeforeEnd
  <1> QED BY <1>1, PassedStep

(* In the first two rounds an allocation has come through no shared stack. *)
LEMMA NotThrough ==
  ASSUME NEW t \in Thread, nTry'[t] \in 0 .. 2, alone' \subseteq {t}
  PROVE  Passed'
  <1>1. nTry'[t] # 3 /\ nTry'[t] # 4
    OBVIOUS
  <1>2. Through(t)' = 0
    BY <1>1 DEF Through
  <1> QED BY <1>2, NoneThrough

(* It comes no further, and no shared stack is added to.                   *)
LEMMA SameThrough ==
  ASSUME Passed, NEW t \in Thread, alone' \subseteq alone \cap {t}, Through(t)' = Through(t),
         \A r \in Realm, i \in Slot : maaReserver[r][i] = <<>> => maaReserver'[r][i] = <<>>
  PROVE  Passed'
  <1>1. ASSUME t \in alone', NEW r \in Realm, NEW i \in Slot, r * mnRevolver + i < Through(t)'
        PROVE  maaReserver'[r][i] = <<>>
    <2>1. maaReserver[r][i] = <<>>
      BY <1>1 DEF Passed
    <2> QED BY <2>1
  <1> QED BY <1>1, PassedStep

(* A block is given to the thread that asked.                              *)
LEMMA GiveCalls ==
  ASSUME Calls, NEW t \in Thread, NEW b, Give(t, b), pc[t] \in {"idle", "pop", "tagged"}
  PROVE  /\ Calls' /\ \A u \in Thread \ {t} : Still(u)
         /\ nTry'[t] = 0 /\ ~Spilled(t)' /\ pBlock' = pBlock
  <1>1. /\ pc' = [pc EXCEPT ![t] = "idle"]
        /\ rAlloc' = [rAlloc EXCEPT ![t] = NULL]
        /\ nTry' = [nTry EXCEPT ![t] = 0]
        /\ oRevolver' = [oRevolver EXCEPT ![t] = 0]
        /\ oRelease' = [oRelease EXCEPT ![t] = 0]
        /\ pBlock' = pBlock /\ bExit' = bExit
    BY DEF Give, Goto
  <1>2. 0 \in Slot /\ 0 \in 0 .. 4 /\ 0 \in 0 .. cnRealm * mnRevolver - 1
    BY ZeroPlaces
  <1>3. At1(t)
    BY DEF Calls
  <1>4. Typed'
    BY <1>1, <1>2 DEF Calls, Typed, Label
  <1>5. pc'[t] = "idle" /\ rAlloc'[t] = NULL /\ nTry'[t] = 0 /\ oRelease'[t] = 0
    BY <1>1 DEF Calls
  <1>6. pBlock[t] = NULL /\ t \notin bExit
    BY <1>3 DEF At1
  <1>7. At1(t)'
    BY <1>1, <1>5, <1>6 DEF At1
  <1>8. \A u \in Thread \ {t} : Still(u)
    BY <1>1 DEF Calls, Still
  <1>9. ~Spilled(t)'
    BY <1>5 DEF Spilled
  <1> QED BY <1>1, <1>4, <1>5, <1>7, <1>8, <1>9, CallsStep

LEMMA GiveUsed ==
  ASSUME Blocks, NEW t \in Thread, NEW b \in Block, Give(t, b)
  PROVE  /\ DOMAIN owner' = DOMAIN owner \cup {b} /\ DOMAIN owner' \subseteq Block
         /\ owner' \in [DOMAIN owner' -> Thread]
  BY DEF Blocks, Give

(* A block goes from a stack, or on it.                                    *)
OwnChange(t, r, s) == maReserver' = [maReserver EXCEPT ![t][r] = s]
SharedChange(r, i, s) == maaReserver' = [maaReserver EXCEPT ![r][i] = s]

LEMMA OwnChanged ==
  ASSUME Stacks, NEW t \in Thread, NEW r \in Realm, NEW s \in Seq(Block),
         Len(s) <= LocalNum(r), IsInjective(s), OwnChange(t, r, s)
  PROVE  /\ Stacks' /\ maReserver'[t][r] = s
         /\ OnlyOwn(maReserver', maReserver, t, r)
         /\ \A u \in Thread \ {t} : maReserver'[u] = maReserver[u]
  <1>1. /\ maReserver' \in [Thread -> [Realm -> Seq(Block)]] /\ maReserver'[t][r] = s
        /\ \A u \in Thread, q \in Realm : u # t \/ q # r => maReserver'[u][q] = maReserver[u][q]
    BY Nested DEF Stacks, OwnChange
  <1>2. \A u \in Thread \ {t} : maReserver'[u] = maReserver[u]
    BY DEF Stacks, OwnChange
  <1>3. ASSUME NEW u \in Thread, NEW q \in Realm
        PROVE  Len(maReserver'[u][q]) <= LocalNum(q) /\ IsInjective(maReserver'[u][q])
    <2>1. CASE u = t /\ q = r
      BY <2>1, <1>1
    <2>2. CASE u # t \/ q # r
      <3>1. maReserver'[u][q] = maReserver[u][q]
        BY <2>2, <1>1
      <3> QED BY <3>1 DEF Stacks
    <2> QED BY <2>1, <2>2
  <1> QED BY <1>1, <1>2, <1>3 DEF Stacks, OnlyOwn

LEMMA SharedChanged ==
  ASSUME SharedStacks, NEW r \in Realm, NEW i \in Slot, NEW s \in Seq(Block),
         Len(s) <= GlobalNum(r), IsInjective(s), SharedChange(r, i, s)
  PROVE  /\ SharedStacks' /\ maaReserver'[r][i] = s
         /\ OnlyShared(maaReserver', maaReserver, r, i)
  <1>1. /\ maaReserver' \in [Realm -> [Slot -> Seq(Block)]] /\ maaReserver'[r][i] = s
        /\ \A q \in Realm, k \in Slot : q # r \/ k # i => maaReserver'[q][k] = maaReserver[q][k]
    BY Nested DEF SharedStacks, SharedChange
  <1>2. ASSUME NEW q \in Realm, NEW k \in Slot
        PROVE  Len(maaReserver'[q][k]) <= GlobalNum(q) /\ IsInjective(maaReserver'[q][k])
    <2>1. CASE q = r /\ k = i
      BY <2>1, <1>1
    <2>2. CASE q # r \/ k # i
      <3>1. maaReserver'[q][k] = maaReserver[q][k]
        BY <2>2, <1>1
      <3> QED BY <3>1 DEF SharedStacks
    <2> QED BY <2>1, <2>2
  <1> QED BY <1>1, <1>2 DEF SharedStacks, OnlyShared

LEMMA InPartition ==
  ASSUME NEW held, NEW blocks, Partition(held, blocks), NEW p \in Place, NEW q \in Place, p # q
  PROVE  held[p] \subseteq blocks /\ held[p] \cap held[q] = {}
  BY DEF Partition

(* What is anywhere is a block there is, and is nowhere else.              *)
LEMMA WhereHeld ==
  ASSUME NEW own, NEW other, NEW freed, NEW used, NEW blocks,
         Partition(HeldBy(own, other, freed, used), blocks)
  PROVE  /\ \A t \in Thread, r \in Realm : Range(own[t][r]) \subseteq blocks
         /\ \A r \in Realm, i \in Slot : Range(other[r][i]) \subseteq blocks
         /\ \A t \in Thread : {freed[t]} \ {NULL} \subseteq blocks
         /\ DOMAIN used \subseteq blocks
         /\ \A t \in Thread, r \in Realm : Range(own[t][r]) \cap DOMAIN used = {}
         /\ \A t, u \in Thread, r \in Realm : Range(own[t][r]) \cap ({freed[u]} \ {NULL}) = {}
         /\ \A u \in Thread, r \in Realm, i \in Slot :
              Range(other[r][i]) \cap ({freed[u]} \ {NULL}) = {}
  <1> DEFINE f == HeldBy(own, other, freed, used)
  <1>1. HoldsAll(f, own, other, freed, used) /\ Partition(f, blocks)
    BY Holds
  <1> HIDE DEF f
  <1>2. ASSUME NEW t \in Thread, NEW r \in Realm
        PROVE  Range(own[t][r]) = f[<<"own", t, r>>] /\ <<"own", t, r>> \in Place
    BY <1>1, Places DEF HoldsAll
  <1>3. ASSUME NEW r \in Realm, NEW i \in Slot
        PROVE  Range(other[r][i]) = f[<<"shared", r, i>>] /\ <<"shared", r, i>> \in Place
    BY <1>1, Places DEF HoldsAll
  <1>4. ASSUME NEW t \in Thread
        PROVE  {freed[t]} \ {NULL} = f[<<"freeing", t>>] /\ <<"freeing", t>> \in Place
    BY <1>1, Places DEF HoldsAll
  <1>5. DOMAIN used = f[<<"in use">>] /\ <<"in use">> \in Place
    BY <1>1, Places DEF HoldsAll
  <1>6. ASSUME NEW t \in Thread, NEW r \in Realm
        PROVE  Range(own[t][r]) \subseteq blocks /\ Range(own[t][r]) \cap DOMAIN used = {}
    <2>1. <<"own", t, r>> # <<"in use">>
      OBVIOUS
    <2>2. f[<<"own", t, r>>] \subseteq blocks /\ f[<<"own", t, r>>] \cap f[<<"in use">>] = {}
      BY <2>1, <1>1, Places, InPartition
    <2> QED BY <2>2, <1>2, <1>5
  <1>7. ASSUME NEW t \in Thread, NEW u \in Thread, NEW r \in Realm
        PROVE  Range(own[t][r]) \cap ({freed[u]} \ {NULL}) = {}
    <2>1. <<"own", t, r>> # <<"freeing", u>>
      OBVIOUS
    <2>2. f[<<"own", t, r>>] \cap f[<<"freeing", u>>] = {}
      BY <2>1, <1>1, Places, InPartition
    <2> QED BY <2>2, <1>2, <1>4
  <1>8. ASSUME NEW u \in Thread, NEW r \in Realm, NEW i \in Slot
        PROVE  Range(other[r][i]) \cap ({freed[u]} \ {NULL}) = {}
    <2>1. <<"shared", r, i>> # <<"freeing", u>>
      OBVIOUS
    <2>2. f[<<"shared", r, i>>] \cap f[<<"freeing", u>>] = {}
      BY <2>1, <1>1, Places, InPartition
    <2> QED BY <2>2, <1>3, <1>4
  <1>9. ASSUME NEW r \in Realm, NEW i \in Slot PROVE Range(other[r][i]) \subseteq blocks
    <2>1. <<"shared", r, i>> # <<"in use">>
      OBVIOUS
    <2>2. f[<<"shared", r, i>>] \subseteq blocks
      BY <2>1, <1>1, Places, InPartition
    <2> QED BY <2>2, <1>3
  <1>10. \A t \in Thread : {freed[t]} \ {NULL} \subseteq blocks
    BY <1>1, <1>4 DEF Partition
  <1>11. DOMAIN used \subseteq blocks
    BY <1>1, <1>5 DEF Partition
  <1> QED BY <1>6, <1>7, <1>8, <1>9, <1>10, <1>11

(* A block keeps its tag; what comes on a stack is of its realm.           *)
LEMMA RealmStep ==
  ASSUME RightRealm, Spread, Spread',
         \A c \in DOMAIN tag \cap DOMAIN tag' : tag'[c] = tag[c],
         \A t \in Thread, r \in Realm : \A b \in Range(maReserver'[t][r]) :
           b \in Range(maReserver[t][r]) \/ (b \in DOMAIN tag /\ tag[b].Realm = r),
         \A r \in Realm, i \in Slot : \A b \in Range(maaReserver'[r][i]) :
           b \in Range(maaReserver[r][i]) \/ (b \in DOMAIN tag /\ tag[b].Realm = r)
  PROVE  RightRealm'
  <1>1. /\ \A t \in Thread, r \in Realm : Range(maReserver[t][r]) \subseteq DOMAIN tag
        /\ \A r \in Realm, i \in Slot : Range(maaReserver[r][i]) \subseteq DOMAIN tag
    BY WhereHeld DEF Spread
  <1>2. /\ \A t \in Thread, r \in Realm : Range(maReserver'[t][r]) \subseteq DOMAIN tag'
        /\ \A r \in Realm, i \in Slot : Range(maaReserver'[r][i]) \subseteq DOMAIN tag'
    BY WhereHeld DEF Spread
  <1>3. ASSUME NEW t \in Thread, NEW r \in Realm, NEW b \in Range(maReserver'[t][r])
        PROVE  tag'[b].Realm = r
    <2>1. b \in DOMAIN tag /\ b \in DOMAIN tag' /\ tag[b].Realm = r
      BY <1>1, <1>2 DEF RightRealm
    <2> QED BY <2>1
  <1>4. ASSUME NEW r \in Realm, NEW i \in Slot, NEW b \in Range(maaReserver'[r][i])
        PROVE  tag'[b].Realm = r
    <2>1. b \in DOMAIN tag /\ b \in DOMAIN tag' /\ tag[b].Realm = r
      BY <1>1, <1>2 DEF RightRealm
    <2> QED BY <2>1
  <1> QED BY <1>3, <1>4 DEF RightRealm

-----------------------------------------------------------------------------
(* Every step keeps the invariant.                                         *)
LEMMA AllocOwnStep ==
  ASSUME ReserverInv, NEW t \in Thread, NEW r \in Realm,
         Alloc(t, r), maReserver[t][r] # <<>>
  PROVE  ReserverInv'
  <1> DEFINE s == maReserver[t][r]
  <1> DEFINE b == Head(s)
  <1>1. /\ pc[t] = "idle" /\ Give(t, b) /\ OwnChange(t, r, Tail(s))
        /\ alone' \subseteq {t} /\ tag' = tag
        /\ maaReserver' = maaReserver /\ maSpinlock' = maSpinlock
        /\ moRevolverFree' = moRevolverFree /\ moRevolverAlloc' = moRevolverAlloc
    BY DEF Alloc, OwnChange, Popped, Disturbs, ring, shared, memory
  <1>2. /\ Stacks /\ SharedStacks /\ Spinlocks /\ Rings /\ Blocks /\ Calls
        /\ Spread /\ RightRealm /\ GivenUp
    BY DEF ReserverInv
  <1>3. s \in Seq(Block) /\ s # <<>> /\ IsInjective(s) /\ Len(s) <= LocalNum(r)
    BY <1>2 DEF Stacks
  <1> HIDE DEF s
  <1>4. /\ Tail(s) \in Seq(Block) /\ Len(Tail(s)) + 1 = Len(s)
        /\ b \in Range(s) /\ b \in Block
        /\ IsInjective(Tail(s)) /\ Range(Tail(s)) = Range(s) \ {b}
    BY <1>3, TailStack
  <1>5. Len(Tail(s)) <= LocalNum(r)
    BY <1>3, <1>4, Constants
  <1> HIDE DEF b
  <1>6. /\ Stacks' /\ maReserver'[t][r] = Tail(s)
        /\ OnlyOwn(maReserver', maReserver, t, r)
        /\ \A u \in Thread \ {t} : maReserver'[u] = maReserver[u]
    BY <1>1, <1>2, <1>4, <1>5, OwnChanged
  <1>7. /\ Calls' /\ \A u \in Thread \ {t} : Still(u)
        /\ nTry'[t] = 0 /\ ~Spilled(t)' /\ pBlock' = pBlock
    BY <1>1, <1>2, GiveCalls
  <1>8. Blocks' /\ DOMAIN owner' = DOMAIN owner \cup {b}
    <2>1. /\ DOMAIN owner' = DOMAIN owner \cup {b} /\ DOMAIN owner' \subseteq Block
          /\ owner' \in [DOMAIN owner' -> Thread]
      BY <1>1, <1>2, <1>4, GiveUsed
    <2> QED BY <2>1, <1>1, <1>2 DEF Blocks
  <1>9. Spread'
    <2>1. Partition(HeldBy(maReserver, maaReserver, pBlock, owner), DOMAIN tag)
      BY <1>2 DEF Spread
    <2>2. Without(Range(maReserver'[t][r]), Range(maReserver[t][r]), b)
      BY <1>4, <1>6 DEF s, Without
    <2>3. With(DOMAIN owner', DOMAIN owner, b)
      BY <1>8 DEF With
    <2>4. Partition(HeldBy(maReserver', maaReserver, pBlock, owner'), DOMAIN tag)
      BY <2>1, <2>2, <2>3, <1>6, OwnToUse
    <2> QED BY <2>4, <1>1, <1>7 DEF Spread
  <1>10. RightRealm'
    <2>1. \A u \in Thread, q \in Realm : \A c \in Range(maReserver'[u][q]) : c \in Range(maReserver[u][q])
      BY <1>4, <1>6 DEF s, OnlyOwn
    <2> QED BY <2>1, <1>1, <1>2, <1>9, RealmStep
  <1>11. GivenUp'
    BY <1>2, <1>6, <1>7, GivenUpStep
  <1>12. Passed'
    BY <1>1, <1>7, NotThrough
  <1>13. SharedStacks' /\ Spinlocks' /\ Rings'
    BY <1>1, <1>2 DEF SharedStacks, Spinlocks, Rings
  <1> QED BY <1>6, <1>7, <1>8, <1>9, <1>10, <1>11, <1>12, <1>13 DEF ReserverInv

(* A slot of the ring is drawn.                                            *)
LEMMA DrawAllocRings ==
  ASSUME Rings, Calls, NEW t \in Thread, NEW r \in Realm, DrawAlloc(t, r), nTry[t] \in 0 .. 3
  PROVE  /\ Rings' /\ oRevolver' \in [Thread -> Slot]
         /\ nTry' = [nTry EXCEPT ![t] = nTry[t] + 1] /\ nTry' \in [Thread -> 0 .. 4]
         /\ nTry'[t] = nTry[t] + 1
  <1>1. /\ oRevolver' = [oRevolver EXCEPT ![t] = moRevolverAlloc[r]]
        /\ moRevolverAlloc' = [moRevolverAlloc EXCEPT ![r] = Next1(moRevolverAlloc[r])]
        /\ nTry' = [nTry EXCEPT ![t] = nTry[t] + 1]
        /\ moRevolverFree' = moRevolverFree
    BY DEF DrawAlloc, Tried
  <1>2. moRevolverAlloc[r] \in Slot /\ Next1(moRevolverAlloc[r]) \in Slot
    BY NextInRing DEF Rings
  <1>3. Rings' /\ oRevolver' \in [Thread -> Slot]
    BY <1>1, <1>2 DEF Rings, Calls
  <1>4. nTry[t] + 1 \in 0 .. 4
    OBVIOUS
  <1> QED BY <1>1, <1>3, <1>4 DEF Calls

LEMMA AllocDrawStep ==
  ASSUME ReserverInv, NEW t \in Thread, NEW r \in Realm,
         Alloc(t, r), maReserver[t][r] = <<>>
  PROVE  ReserverInv'
  <1>1. /\ pc[t] = "idle" /\ DrawAlloc(t, r)
        /\ rAlloc' = [rAlloc EXCEPT ![t] = r] /\ alone' = {t}
        /\ maReserver' = maReserver /\ tag' = tag /\ owner' = owner
        /\ maaReserver' = maaReserver /\ maSpinlock' = maSpinlock
    BY DEF Alloc, shared, memory
  <1>2. /\ Stacks /\ SharedStacks /\ Spinlocks /\ Rings /\ Blocks /\ Calls
        /\ Spread /\ RightRealm /\ GivenUp
    BY DEF ReserverInv
  <1>3. /\ pc' = [pc EXCEPT ![t] = "pop"]
        /\ pBlock' = pBlock /\ oRelease' = oRelease /\ bExit' = bExit
    BY <1>1 DEF DrawAlloc, Goto
  <1>4. At1(t) /\ nTry[t] = 0 /\ r # NULL
    <2>1. At1(t)
      BY <1>2 DEF Calls
    <2> QED BY <2>1, <1>1, Constants DEF At1
  <1>5. Rings' /\ oRevolver' \in [Thread -> Slot]
        /\ nTry' = [nTry EXCEPT ![t] = nTry[t] + 1] /\ nTry' \in [Thread -> 0 .. 4]
        /\ nTry'[t] = 1
    BY <1>1, <1>2, <1>4, DrawAllocRings
  <1>6. pc'[t] = "pop" /\ rAlloc'[t] = r /\ \A u \in Thread \ {t} : Still(u)
    BY <1>1, <1>2, <1>3, <1>5 DEF Calls, Still
  <1>7. Calls'
    <2>1. Typed'
      BY <1>1, <1>2, <1>3, <1>5 DEF Calls, Typed, Label
    <2>2. At1(t)'
      BY <1>1, <1>3, <1>4, <1>5, <1>6 DEF At1
    <2> QED BY <2>1, <2>2, <1>2, <1>6, CallsStep
  <1>8. GivenUp'
    <2>1. ~Spilled(t)'
      BY <1>5 DEF Spilled
    <2> QED BY <2>1, <1>1, <1>2, <1>6, GivenUpStep
  <1>9. Passed'
    BY <1>1, <1>5, NotThrough
  <1>10. Stacks' /\ SharedStacks' /\ Spinlocks' /\ Blocks' /\ RightRealm'
    BY <1>1, <1>2 DEF Stacks, SharedStacks, Spinlocks, Blocks, RightRealm
  <1>11. Spread'
    BY <1>1, <1>2, <1>3 DEF Spread
  <1> QED BY <1>5, <1>7, <1>8, <1>9, <1>10, <1>11 DEF ReserverInv

LEMMA AllocAgainStep ==
  ASSUME ReserverInv, NEW t \in Thread, AllocAgain(t)
  PROVE  ReserverInv'
  <1> DEFINE r == rAlloc[t]
  <1>1. /\ pc[t] = "draw" /\ DrawAlloc(t, r)
        /\ rAlloc' = rAlloc /\ alone' = alone \cap {t}
        /\ maReserver' = maReserver /\ tag' = tag /\ owner' = owner
        /\ maaReserver' = maaReserver /\ maSpinlock' = maSpinlock
    BY DEF AllocAgain, shared, memory, Disturbs
  <1>2. /\ Stacks /\ SharedStacks /\ Spinlocks /\ Rings /\ Blocks /\ Calls
        /\ Spread /\ RightRealm /\ GivenUp /\ Passed
    BY DEF ReserverInv
  <1>3. /\ pc' = [pc EXCEPT ![t] = "pop"]
        /\ pBlock' = pBlock /\ oRelease' = oRelease /\ bExit' = bExit
    BY <1>1 DEF DrawAlloc, Goto
  <1>4. At1(t) /\ r \in Realm /\ nTry[t] \in 1 .. 3
    <2>1. At1(t) /\ r \in Realm \cup {NULL}
      BY <1>2 DEF Calls
    <2> QED BY <2>1, <1>1 DEF At1
  <1> HIDE DEF r
  <1>5. Rings' /\ oRevolver' \in [Thread -> Slot]
        /\ nTry' = [nTry EXCEPT ![t] = nTry[t] + 1] /\ nTry' \in [Thread -> 0 .. 4]
        /\ nTry'[t] = nTry[t] + 1
    BY <1>1, <1>2, <1>4, DrawAllocRings
  <1>6. pc'[t] = "pop" /\ \A u \in Thread \ {t} : Still(u)
    BY <1>1, <1>2, <1>3, <1>5 DEF Calls, Still
  <1>7. Calls'
    <2>1. Typed'
      BY <1>1, <1>2, <1>3, <1>5 DEF Calls, Typed, Label
    <2>2. At1(t)'
      BY <1>1, <1>3, <1>4, <1>5, <1>6 DEF At1
    <2> QED BY <2>1, <2>2, <1>2, <1>6, CallsStep
  <1>8. GivenUp'
    <2>1. Spilled(t)' => Spilled(t)
      BY <1>1, <1>4, <1>5, <1>6 DEF Spilled
    <2>2. Spilled(t)' => \A q \in Realm : maReserver'[t][q] = <<>>
      BY <2>1, <1>1, <1>2 DEF GivenUp
    <2> QED BY <2>2, <1>1, <1>2, <1>6, GivenUpStep
  <1>9. Passed'
    <2>1. CASE nTry[t] \in 1 .. 2
      <3>1. nTry'[t] # 4 /\ pc'[t] = "pop"
        BY <2>1, <1>5, <1>6
      <3>2. Through(t)' = 0
        BY <3>1 DEF Through
      <3> QED BY <3>2, <1>1, NoneThrough
    <2>2. CASE nTry[t] = 3
      <3>1. nTry'[t] = 4
        BY <2>2, <1>5
      <3>2. Through(t)' = Through(t)
        BY <2>2, <3>1, <1>1 DEF Through
      <3> QED BY <3>2, <1>1, <1>2, SameThrough
    <2> QED BY <2>1, <2>2, <1>4
  <1>10. Stacks' /\ SharedStacks' /\ Spinlocks' /\ Blocks' /\ RightRealm'
    BY <1>1, <1>2 DEF Stacks, SharedStacks, Spinlocks, Blocks, RightRealm
  <1>11. Spread'
    BY <1>1, <1>2, <1>3 DEF Spread
  <1> QED BY <1>5, <1>7, <1>8, <1>9, <1>10, <1>11 DEF ReserverInv

LEMMA PopGiveStep ==
  ASSUME ReserverInv, NEW t \in Thread, Pop(t), maaReserver[rAlloc[t]][oRevolver[t]] # <<>>
  PROVE  ReserverInv'
  <1> DEFINE r == rAlloc[t]
  <1> DEFINE i == oRevolver[t]
  <1> DEFINE s == maaReserver[r][i]
  <1> DEFINE b == Head(s)
  <1>1. /\ pc[t] = "pop" /\ Give(t, b) /\ SharedChange(r, i, Tail(s))
        /\ alone' \subseteq {t} /\ tag' = tag
        /\ maReserver' = maReserver /\ maSpinlock' = maSpinlock
        /\ moRevolverFree' = moRevolverFree /\ moRevolverAlloc' = moRevolverAlloc
    BY DEF Pop, SharedChange, Popped, Disturbs, ring
  <1>2. /\ Stacks /\ SharedStacks /\ Spinlocks /\ Rings /\ Blocks /\ Calls
        /\ Spread /\ RightRealm /\ GivenUp
    BY DEF ReserverInv
  <1>3. r \in Realm /\ i \in Slot
    <2>1. At1(t) /\ r \in Realm \cup {NULL} /\ i \in Slot
      BY <1>2 DEF Calls
    <2> QED BY <2>1, <1>1 DEF At1
  <1>4. s \in Seq(Block) /\ s # <<>> /\ IsInjective(s) /\ Len(s) <= GlobalNum(r)
    BY <1>2, <1>3 DEF SharedStacks
  <1> HIDE DEF s
  <1>5. /\ Tail(s) \in Seq(Block) /\ Len(Tail(s)) + 1 = Len(s)
        /\ b \in Range(s) /\ b \in Block
        /\ IsInjective(Tail(s)) /\ Range(Tail(s)) = Range(s) \ {b}
    BY <1>4, TailStack
  <1>6. Len(Tail(s)) <= GlobalNum(r)
    BY <1>3, <1>4, <1>5, Constants
  <1> HIDE DEF b, r, i
  <1>7. /\ SharedStacks' /\ maaReserver'[r][i] = Tail(s)
        /\ OnlyShared(maaReserver', maaReserver, r, i)
    BY <1>1, <1>2, <1>3, <1>5, <1>6, SharedChanged
  <1>8. /\ Calls' /\ \A u \in Thread \ {t} : Still(u)
        /\ nTry'[t] = 0 /\ ~Spilled(t)' /\ pBlock' = pBlock
    BY <1>1, <1>2, GiveCalls
  <1>9. Blocks' /\ DOMAIN owner' = DOMAIN owner \cup {b}
    <2>1. /\ DOMAIN owner' = DOMAIN owner \cup {b} /\ DOMAIN owner' \subseteq Block
          /\ owner' \in [DOMAIN owner' -> Thread]
      BY <1>1, <1>2, <1>5, GiveUsed
    <2> QED BY <2>1, <1>1, <1>2 DEF Blocks
  <1>10. Spread'
    <2>1. Partition(HeldBy(maReserver, maaReserver, pBlock, owner), DOMAIN tag)
      BY <1>2 DEF Spread
    <2>2. Without(Range(maaReserver'[r][i]), Range(maaReserver[r][i]), b)
      BY <1>5, <1>7 DEF s, Without
    <2>3. With(DOMAIN owner', DOMAIN owner, b)
      BY <1>9 DEF With
    <2>4. Partition(HeldBy(maReserver, maaReserver', pBlock, owner'), DOMAIN tag)
      BY <2>1, <2>2, <2>3, <1>3, <1>7, SharedToUse
    <2> QED BY <2>4, <1>1, <1>8 DEF Spread
  <1>11. RightRealm'
    <2>1. \A q \in Realm, k \in Slot : \A c \in Range(maaReserver'[q][k]) : c \in Range(maaReserver[q][k])
      BY <1>5, <1>7 DEF s, OnlyShared
    <2> QED BY <2>1, <1>1, <1>2, <1>10, RealmStep
  <1>12. GivenUp'
    BY <1>1, <1>2, <1>8, GivenUpStep
  <1>13. Passed'
    BY <1>1, <1>8, NotThrough
  <1>14. Stacks' /\ Spinlocks' /\ Rings'
    BY <1>1, <1>2 DEF Stacks, Spinlocks, Rings
  <1> QED BY <1>7, <1>8, <1>9, <1>10, <1>11, <1>12, <1>13, <1>14 DEF ReserverInv

(* The thread goes from one place in the code to another, and nothing else *)
(* of its call changes.                                                    *)
OnlyGoes(t, label) ==
  /\ pc' = [pc EXCEPT ![t] = label]
  /\ rAlloc' = rAlloc /\ nTry' = nTry /\ oRevolver' = oRevolver /\ pBlock' = pBlock
  /\ oRelease' = oRelease /\ bExit' = bExit

LEMMA GoesCalls ==
  ASSUME Calls, NEW t \in Thread, NEW label \in Label, OnlyGoes(t, label), At1(t)'
  PROVE  Calls' /\ (\A u \in Thread \ {t} : Still(u))
  <1>1. Typed'
    BY DEF Calls, Typed, OnlyGoes
  <1>2. \A u \in Thread \ {t} : Still(u)
    BY DEF Calls, Still, OnlyGoes
  <1> QED BY <1>1, <1>2, CallsStep

(* The memory, the stacks and the rings are as they were.                  *)
LEMMA NothingMoves ==
  ASSUME ReserverInv,
         maReserver' = maReserver, maaReserver' = maaReserver,
         moRevolverFree' = moRevolverFree, moRevolverAlloc' = moRevolverAlloc,
         tag' = tag, owner' = owner, pBlock' = pBlock
  PROVE  Stacks' /\ SharedStacks' /\ Rings' /\ Blocks' /\ Spread' /\ RightRealm'
  <1>1. Stacks' /\ SharedStacks'
    BY DEF ReserverInv, Stacks, SharedStacks
  <1>2. Rings' /\ Blocks'
    BY DEF ReserverInv, Rings, Blocks
  <1>3. Spread' /\ RightRealm'
    BY DEF ReserverInv, Spread, RightRealm
  <1> QED BY <1>1, <1>2, <1>3

LEMMA PopEmptyStep ==
  ASSUME ReserverInv, NEW t \in Thread, Pop(t), maaReserver[rAlloc[t]][oRevolver[t]] = <<>>
  PROVE  ReserverInv'
  <1>1. /\ pc[t] = "pop" /\ OnlyGoes(t, "tagged") /\ alone' = alone \cap {t}
        /\ tag' = tag /\ owner' = owner /\ pBlock' = pBlock
        /\ maReserver' = maReserver /\ maaReserver' = maaReserver /\ maSpinlock' = maSpinlock
        /\ moRevolverFree' = moRevolverFree /\ moRevolverAlloc' = moRevolverAlloc
    BY DEF Pop, Disturbs, ring, calls, Goto, OnlyGoes
  <1>2. /\ Spinlocks /\ Calls /\ GivenUp /\ Passed
    BY DEF ReserverInv
  <1>3. At1(t) /\ pc'[t] = "tagged"
    BY <1>1, <1>2 DEF Calls, OnlyGoes
  <1>4. At1(t)'
    BY <1>1, <1>3 DEF At1, OnlyGoes
  <1>5. Calls' /\ \A u \in Thread \ {t} : Still(u)
    BY <1>1, <1>2, <1>4, GoesCalls DEF Label
  <1>6. GivenUp'
    <2>1. Spilled(t)' => Spilled(t)
      BY <1>1, <1>3 DEF Spilled, OnlyGoes
    <2>2. Spilled(t)' => \A q \in Realm : maReserver'[t][q] = <<>>
      BY <2>1, <1>1, <1>2 DEF GivenUp
    <2> QED BY <2>2, <1>1, <1>2, <1>5, GivenUpStep
  <1>7. Passed'
    <2>1. Through(t)' = Through(t)
      BY <1>1, <1>3 DEF Through, OnlyGoes
    <2> QED BY <2>1, <1>1, <1>2, SameThrough
  <1>8. Spinlocks'
    BY <1>1, <1>2 DEF Spinlocks
  <1> QED BY <1>1, <1>5, <1>6, <1>7, <1>8, NothingMoves DEF ReserverInv

LEMMA TaggedGiveStep ==
  ASSUME ReserverInv, NEW t \in Thread, TaggedAlloc(t), Fits(rAlloc[t])
  PROVE  ReserverInv'
  <1> DEFINE r == rAlloc[t]
  <1> DEFINE b == Fresh
  <1> DEFINE v == ~HeapFits(r)
  <1>1. /\ pc[t] = "tagged" /\ Give(t, b) /\ alone' \subseteq {t}
        /\ tag' = [c \in DOMAIN tag \cup {b} |->
                     IF c = b THEN [Realm |-> r, bVirtual |-> v] ELSE tag[c]]
        /\ maReserver' = maReserver /\ maaReserver' = maaReserver /\ maSpinlock' = maSpinlock
        /\ moRevolverFree' = moRevolverFree /\ moRevolverAlloc' = moRevolverAlloc
    BY DEF TaggedAlloc, Disturbs, shared, ring
  <1>2. /\ Stacks /\ SharedStacks /\ Spinlocks /\ Rings /\ Blocks /\ Calls
        /\ Spread /\ RightRealm /\ GivenUp
    BY DEF ReserverInv
  <1>3. r \in Realm /\ v \in BOOLEAN
    <2>1. At1(t) /\ r \in Realm \cup {NULL}
      BY <1>2 DEF Calls
    <2>2. r \in Realm
      BY <2>1, <1>1 DEF At1
    <2> QED BY <2>2
  <1>4. b \in Block /\ b \notin DOMAIN tag
    BY <1>2, FreshIsNew DEF Fits
  <1> HIDE DEF r, b, v
  <1>5. /\ Calls' /\ \A u \in Thread \ {t} : Still(u)
        /\ nTry'[t] = 0 /\ ~Spilled(t)' /\ pBlock' = pBlock
    BY <1>1, <1>2, GiveCalls
  <1>6. Blocks' /\ DOMAIN owner' = DOMAIN owner \cup {b} /\ DOMAIN tag' = DOMAIN tag \cup {b}
    <2>1. /\ DOMAIN owner' = DOMAIN owner \cup {b} /\ DOMAIN owner' \subseteq Block
          /\ owner' \in [DOMAIN owner' -> Thread]
      BY <1>1, <1>2, <1>4, GiveUsed
    <2>2. DOMAIN tag' = DOMAIN tag \cup {b} /\ DOMAIN tag' \subseteq Block
      BY <1>1, <1>2, <1>4 DEF Blocks
    <2>3. [Realm |-> r, bVirtual |-> v] \in [Realm : Realm, bVirtual : BOOLEAN]
      BY <1>3
    <2>4. \A c \in DOMAIN tag : tag[c] \in [Realm : Realm, bVirtual : BOOLEAN]
      BY <1>2 DEF Blocks
    <2>5. tag' \in [DOMAIN tag' -> [Realm : Realm, bVirtual : BOOLEAN]]
      BY <2>2, <2>3, <2>4, <1>1
    <2> QED BY <2>1, <2>2, <2>5 DEF Blocks
  <1>7. Spread'
    <2>1. Partition(HeldBy(maReserver, maaReserver, pBlock, owner), DOMAIN tag)
      BY <1>2 DEF Spread
    <2>2. With(DOMAIN owner', DOMAIN owner, b)
      BY <1>6 DEF With
    <2>3. Partition(HeldBy(maReserver, maaReserver, pBlock, owner'), DOMAIN tag \cup {b})
      BY <2>1, <2>2, <1>4, NewToUse
    <2> QED BY <2>3, <1>1, <1>5, <1>6 DEF Spread
  <1>8. RightRealm'
    <2>1. \A c \in DOMAIN tag \cap DOMAIN tag' : tag'[c] = tag[c]
      BY <1>1, <1>4
    <2> QED BY <2>1, <1>1, <1>2, <1>7, RealmStep
  <1>9. GivenUp'
    BY <1>1, <1>2, <1>5, GivenUpStep
  <1>10. Passed'
    BY <1>1, <1>5, NotThrough
  <1>11. Stacks' /\ SharedStacks' /\ Spinlocks' /\ Rings'
    BY <1>1, <1>2 DEF Stacks, SharedStacks, Spinlocks, Rings
  <1> QED BY <1>5, <1>6, <1>7, <1>8, <1>9, <1>10, <1>11 DEF ReserverInv

LEMMA TaggedFailStep ==
  ASSUME ReserverInv, NEW t \in Thread, TaggedAlloc(t), ~Fits(rAlloc[t])
  PROVE  ReserverInv'
  <1> DEFINE next == AfterFailure(nTry[t])
  <1>1. /\ pc[t] = "tagged" /\ pc' = [pc EXCEPT ![t] = next] /\ alone' = alone \cap {t}
        /\ oRevolver' = [oRevolver EXCEPT ![t] = 0]
        /\ rAlloc' = [rAlloc EXCEPT ![t] = IF next = "idle" THEN NULL ELSE rAlloc[t]]
        /\ nTry' = [nTry EXCEPT ![t] = IF next = "idle" THEN 0 ELSE nTry[t]]
        /\ tag' = tag /\ owner' = owner
        /\ pBlock' = pBlock /\ oRelease' = oRelease /\ bExit' = bExit
        /\ maReserver' = maReserver /\ maaReserver' = maaReserver /\ maSpinlock' = maSpinlock
        /\ moRevolverFree' = moRevolverFree /\ moRevolverAlloc' = moRevolverAlloc
    BY DEF TaggedAlloc, Disturbs, Goto, memory, shared, ring
  <1>2. Spinlocks /\ Calls /\ GivenUp /\ Passed
    BY DEF ReserverInv
  <1>3. At1(t) /\ nTry[t] \in 1 .. 4 /\ rAlloc[t] \in Realm
    <2>1. At1(t) /\ rAlloc[t] \in Realm \cup {NULL}
      BY <1>2 DEF Calls
    <2> QED BY <2>1, <1>1 DEF At1
  <1>4. /\ nTry[t] \in {1, 3} => next = "look"
        /\ nTry[t] = 2 => next = "spill"
        /\ nTry[t] = 4 => next = "idle"
    BY DEF AfterFailure
  <1>5. next \in Label
    BY <1>3, <1>4 DEF Label
  <1> HIDE DEF next
  <1>6. /\ pc'[t] = next
        /\ rAlloc'[t] = IF next = "idle" THEN NULL ELSE rAlloc[t]
        /\ nTry'[t] = IF next = "idle" THEN 0 ELSE nTry[t]
    BY <1>1, <1>2 DEF Calls
  <1>7. Typed'
    BY <1>1, <1>2, <1>5, ZeroPlaces DEF Calls, Typed
  <1>8. At1(t)'
    <2>1. oRelease'[t] = 0 /\ pBlock'[t] = NULL /\ t \notin bExit'
      BY <1>1, <1>3, Constants DEF At1
    <2>2. CASE nTry[t] \in {1, 3}
      BY <2>1, <2>2, <1>3, <1>4, <1>6, Constants DEF At1
    <2>3. CASE nTry[t] = 2
      BY <2>1, <2>3, <1>3, <1>4, <1>6, Constants DEF At1
    <2>4. CASE nTry[t] = 4
      BY <2>1, <2>4, <1>3, <1>4, <1>6 DEF At1
    <2> QED BY <2>2, <2>3, <2>4, <1>3
  <1>9. \A u \in Thread \ {t} : Still(u)
    BY <1>1, <1>2 DEF Calls, Still
  <1>10. Calls'
    BY <1>2, <1>7, <1>8, <1>9, CallsStep
  <1>11. GivenUp'
    <2>1. Spilled(t)' => Spilled(t)
      BY <1>3, <1>4, <1>6 DEF Spilled
    <2>2. Spilled(t)' => \A q \in Realm : maReserver'[t][q] = <<>>
      BY <2>1, <1>1, <1>2 DEF GivenUp
    <2> QED BY <2>2, <1>1, <1>2, <1>9, GivenUpStep
  <1>12. Passed'
    <2>1. Through(t)' = 0
      <3>1. oRelease'[t] = 0
        BY <1>1, <1>3 DEF At1
      <3>2. nTry'[t] # 4 /\ pc'[t] # "draw"
        BY <1>3, <1>4, <1>6
      <3> QED BY <3>1, <3>2 DEF Through
    <2> QED BY <2>1, <1>1, NoneThrough
  <1>13. Spinlocks'
    BY <1>1, <1>2 DEF Spinlocks
  <1> QED BY <1>1, <1>10, <1>11, <1>12, <1>13, NothingMoves DEF ReserverInv

(* On to the next slot: one more that has been passed.                     *)
LEMMA AdvanceCalls ==
  ASSUME Calls, NEW t \in Thread, Advance(t), pc[t] \in {"look", "drain"},
         rAlloc' = rAlloc, nTry' = nTry, oRevolver' = oRevolver,
         pBlock' = pBlock, bExit' = bExit
  PROVE  /\ Calls' /\ (\A u \in Thread \ {t} : Still(u))
         /\ pc'[t] \in {"look", "draw"}
         /\ nTry[t] = 3 => Through(t)' = Through(t) + 1 /\ Through(t) = oRelease[t]
  <1> DEFINE n == oRelease[t]
  <1> DEFINE next == n + 1
  <1>1. /\ pc' = [pc EXCEPT ![t] = IF next = cnRealm * mnRevolver THEN "draw" ELSE "look"]
        /\ oRelease' = [oRelease EXCEPT ![t] = IF next = cnRealm * mnRevolver THEN 0 ELSE next]
    BY DEF Advance, Goto
  <1>2. cnRealm * mnRevolver \in Nat /\ n \in 0 .. cnRealm * mnRevolver - 1
    BY Constants DEF Calls
  <1> HIDE DEF n
  <1>3. n \in Nat /\ (next # cnRealm * mnRevolver => next \in 0 .. cnRealm * mnRevolver - 1)
    BY <1>2
  <1> HIDE DEF next
  <1>4. At1(t)
    BY DEF Calls
  <1>5. /\ pc'[t] = IF next = cnRealm * mnRevolver THEN "draw" ELSE "look"
        /\ oRelease'[t] = IF next = cnRealm * mnRevolver THEN 0 ELSE next
    BY <1>1 DEF Calls
  <1>6. Typed'
    BY <1>1, <1>3, ZeroPlaces DEF Calls, Typed, Label
  <1>7. At1(t)'
    BY <1>4, <1>5 DEF At1
  <1>8. \A u \in Thread \ {t} : Still(u)
    BY <1>1 DEF Calls, Still
  <1>9. ASSUME nTry[t] = 3 PROVE Through(t)' = Through(t) + 1 /\ Through(t) = oRelease[t]
    <2>1. Through(t) = n
      BY <1>9 DEF Through, n
    <2>2. Through(t)' = next
      BY <1>5, <1>9 DEF Through
    <2> QED BY <2>1, <2>2 DEF next, n
  <1> QED BY <1>5, <1>6, <1>7, <1>8, <1>9, CallsStep

LEMMA AdvancePassed ==
  ASSUME Calls, Passed, NEW t \in Thread, Advance(t), pc[t] \in {"look", "drain"},
         maaReserver[rRelease(t)][iRelease(t)] = <<>>,
         rAlloc' = rAlloc, nTry' = nTry, oRevolver' = oRevolver,
         pBlock' = pBlock, bExit' = bExit,
         maaReserver' = maaReserver, alone' = alone \cap {t}
  PROVE  Passed'
  <1>1. pc'[t] \in {"look", "draw"} /\ (nTry[t] = 3 => Through(t)' = Through(t) + 1 /\ Through(t) = oRelease[t])
    BY AdvanceCalls
  <1>2. At1(t) /\ nTry[t] \in 1 .. 3 /\ oRelease[t] \in Nat
    <2>1. At1(t) /\ oRelease[t] \in 0 .. cnRealm * mnRevolver - 1
      BY DEF Calls
    <2>2. cnRealm * mnRevolver \in Nat
      BY Constants
    <2> QED BY <2>1, <2>2 DEF At1
  <1>3. CASE nTry[t] # 3
    <2>1. nTry'[t] \in 0 .. 2
      BY <1>2, <1>3
    <2> QED BY <2>1, NotThrough
  <1>4. CASE nTry[t] = 3
    <2> DEFINE n == oRelease[t]
    <2>1. ASSUME t \in alone', NEW r \in Realm, NEW i \in Slot,
                 r * mnRevolver + i < Through(t)'
          PROVE  maaReserver'[r][i] = <<>>
      <3>1. r * mnRevolver + i \in Nat /\ n \in Nat /\ Through(t) = n /\ Through(t)' = n + 1
        BY <1>1, <1>2, <1>4, BeforeEnd
      <3>2. CASE r * mnRevolver + i = n
        <4>1. r \in Int
          BY DEF Realm
        <4>2. r = n \div mnRevolver /\ i = n % mnRevolver
          BY <3>1, <3>2, <4>1, OneSlot
        <4> QED BY <4>2 DEF rRelease, iRelease
      <3>3. CASE r * mnRevolver + i # n
        <4>1. r * mnRevolver + i < Through(t)
          <5> HIDE DEF n
          <5> QED BY <3>1, <3>3, <2>1
        <4> QED BY <4>1, <2>1 DEF Passed
      <3> QED BY <3>2, <3>3
    <2> QED BY <2>1, PassedStep
  <1> QED BY <1>3, <1>4

LEMMA LookStep ==
  ASSUME ReserverInv, NEW t \in Thread, Look(t)
  PROVE  ReserverInv'
  <1>1. /\ pc[t] = "look" /\ alone' = alone \cap {t}
        /\ rAlloc' = rAlloc /\ nTry' = nTry /\ oRevolver' = oRevolver
        /\ pBlock' = pBlock /\ bExit' = bExit
        /\ tag' = tag /\ owner' = owner
        /\ maReserver' = maReserver /\ maaReserver' = maaReserver /\ maSpinlock' = maSpinlock
        /\ moRevolverFree' = moRevolverFree /\ moRevolverAlloc' = moRevolverAlloc
    BY DEF Look, Disturbs, memory, shared, ring
  <1>2. Spinlocks /\ Calls /\ GivenUp /\ Passed
    BY DEF ReserverInv
  <1>3. At1(t)
    BY <1>2 DEF Calls
  <1>4. /\ Calls' /\ (\A u \in Thread \ {t} : Still(u)) /\ Passed'
        /\ pc'[t] \in {"look", "lock", "draw"}
    <2>1. CASE maaReserver[rRelease(t)][iRelease(t)] = <<>>
      <3>1. Advance(t)
        BY <2>1 DEF Look
      <3> QED BY <2>1, <3>1, <1>1, <1>2, AdvanceCalls, AdvancePassed
    <2>2. CASE maaReserver[rRelease(t)][iRelease(t)] # <<>>
      <3>1. OnlyGoes(t, "lock")
        BY <2>2, <1>1 DEF Look, Goto, OnlyGoes
      <3>2. pc'[t] = "lock"
        BY <3>1, <1>2 DEF OnlyGoes, Calls
      <3>3. At1(t)'
        BY <3>1, <3>2, <1>1, <1>3 DEF At1, OnlyGoes
      <3>4. Calls' /\ (\A u \in Thread \ {t} : Still(u))
        BY <3>1, <3>3, <1>2, GoesCalls DEF Label
      <3>5. Through(t)' = Through(t)
        BY <3>1, <3>2, <1>1 DEF Through, OnlyGoes
      <3>6. Passed'
        BY <3>5, <1>1, <1>2, SameThrough
      <3> QED BY <3>2, <3>4, <3>6
    <2> QED BY <2>1, <2>2
  <1>5. GivenUp'
    <2>1. Spilled(t)' => Spilled(t)
      BY <1>1, <1>4 DEF Spilled
    <2>2. Spilled(t)' => \A q \in Realm : maReserver'[t][q] = <<>>
      BY <2>1, <1>1, <1>2 DEF GivenUp
    <2> QED BY <2>2, <1>1, <1>2, <1>4, GivenUpStep
  <1>6. Spinlocks'
    BY <1>1, <1>2 DEF Spinlocks
  <1> QED BY <1>1, <1>4, <1>5, <1>6, NothingMoves DEF ReserverInv

LEMMA LockStep ==
  ASSUME ReserverInv, NEW t \in Thread, Lock(t)
  PROVE  ReserverInv'
  <1>1. /\ pc[t] = "lock" /\ OnlyGoes(t, "drain") /\ alone' = alone \cap {t}
        /\ maSpinlock' = [maSpinlock EXCEPT ![rRelease(t)][iRelease(t)] = t]
        /\ tag' = tag /\ owner' = owner /\ pBlock' = pBlock
        /\ maReserver' = maReserver /\ maaReserver' = maaReserver
        /\ moRevolverFree' = moRevolverFree /\ moRevolverAlloc' = moRevolverAlloc
    BY DEF Lock, Disturbs, memory, ring, calls, Goto, OnlyGoes
  <1>2. Spinlocks /\ Calls /\ GivenUp /\ Passed
    BY DEF ReserverInv
  <1>3. At1(t) /\ pc'[t] = "drain"
    BY <1>1, <1>2 DEF Calls, OnlyGoes
  <1>4. At1(t)'
    BY <1>1, <1>3 DEF At1, OnlyGoes
  <1>5. Calls' /\ \A u \in Thread \ {t} : Still(u)
    BY <1>1, <1>2, <1>4, GoesCalls DEF Label
  <1>6. GivenUp'
    <2>1. Spilled(t)' => Spilled(t)
      BY <1>1, <1>3 DEF Spilled, OnlyGoes
    <2>2. Spilled(t)' => \A q \in Realm : maReserver'[t][q] = <<>>
      BY <2>1, <1>1, <1>2 DEF GivenUp
    <2> QED BY <2>2, <1>1, <1>2, <1>5, GivenUpStep
  <1>7. Passed'
    <2>1. Through(t)' = Through(t)
      BY <1>1, <1>3 DEF Through, OnlyGoes
    <2> QED BY <2>1, <1>1, <1>2, SameThrough
  <1>8. Spinlocks'
    <2>1. rRelease(t) \in Realm /\ iRelease(t) \in Slot
      BY <1>2, SlotOfRelease DEF Calls
    <2>2. t \in Thread \cup {NULL}
      OBVIOUS
    <2> QED BY <2>1, <2>2, <1>1, <1>2, Nested DEF Spinlocks
  <1> QED BY <1>1, <1>5, <1>6, <1>7, <1>8, NothingMoves DEF ReserverInv

LEMMA DrainTakeStep ==
  ASSUME ReserverInv, NEW t \in Thread, Drain(t),
         maaReserver[rRelease(t)][iRelease(t)] # <<>>
  PROVE  ReserverInv'
  <1> DEFINE r == rRelease(t)
  <1> DEFINE i == iRelease(t)
  <1> DEFINE s == maaReserver[r][i]
  <1> DEFINE b == Head(s)
  <1>1. /\ pc[t] = "drain" /\ TaggedFree(b) /\ SharedChange(r, i, Tail(s))
        /\ alone' = alone \cap {t} /\ owner' = owner
        /\ pc' = pc /\ rAlloc' = rAlloc /\ nTry' = nTry /\ oRevolver' = oRevolver
        /\ pBlock' = pBlock /\ oRelease' = oRelease /\ bExit' = bExit
        /\ maReserver' = maReserver /\ maSpinlock' = maSpinlock
        /\ moRevolverFree' = moRevolverFree /\ moRevolverAlloc' = moRevolverAlloc
    BY DEF Drain, SharedChange, Drained, Disturbs, ring
  <1>2. /\ Stacks /\ SharedStacks /\ Spinlocks /\ Rings /\ Blocks /\ Calls
        /\ Spread /\ RightRealm /\ GivenUp /\ Passed
    BY DEF ReserverInv
  <1>3. r \in Realm /\ i \in Slot
    BY <1>2, SlotOfRelease DEF Calls
  <1>4. s \in Seq(Block) /\ s # <<>> /\ IsInjective(s) /\ Len(s) <= GlobalNum(r)
    BY <1>2, <1>3 DEF SharedStacks
  <1> HIDE DEF s
  <1>5. /\ Tail(s) \in Seq(Block) /\ Len(Tail(s)) + 1 = Len(s)
        /\ b \in Range(s) /\ b \in Block
        /\ IsInjective(Tail(s)) /\ Range(Tail(s)) = Range(s) \ {b}
    BY <1>4, TailStack
  <1>6. Len(Tail(s)) <= GlobalNum(r)
    BY <1>3, <1>4, <1>5, Constants
  <1> HIDE DEF b, r, i
  <1>7. /\ SharedStacks' /\ maaReserver'[r][i] = Tail(s)
        /\ OnlyShared(maaReserver', maaReserver, r, i)
    BY <1>1, <1>2, <1>3, <1>5, <1>6, SharedChanged
  <1>8. /\ DOMAIN tag' = DOMAIN tag \ {b}
        /\ \A c \in DOMAIN tag \cap DOMAIN tag' : tag'[c] = tag[c]
    BY <1>1 DEF TaggedFree
  <1>9. Blocks'
    BY <1>1, <1>2, <1>8 DEF Blocks, TaggedFree
  <1>10. Calls' /\ \A u \in Thread \ {t} : Still(u)
    BY <1>1, <1>2 DEF Calls, At1, Still
  <1>11. Spread'
    <2>1. Partition(HeldBy(maReserver, maaReserver, pBlock, owner), DOMAIN tag)
      BY <1>2 DEF Spread
    <2>2. Without(Range(maaReserver'[r][i]), Range(maaReserver[r][i]), b)
      BY <1>5, <1>7 DEF s, Without
    <2>3. Partition(HeldBy(maReserver, maaReserver', pBlock, owner), DOMAIN tag \ {b})
      BY <2>1, <2>2, <1>3, <1>7, SharedToGone
    <2> QED BY <2>3, <1>1, <1>8 DEF Spread
  <1>12. RightRealm'
    <2>1. \A q \in Realm, k \in Slot : \A c \in Range(maaReserver'[q][k]) : c \in Range(maaReserver[q][k])
      BY <1>5, <1>7 DEF s, OnlyShared
    <2> QED BY <2>1, <1>1, <1>2, <1>8, <1>11, RealmStep
  <1>13. GivenUp'
    BY <1>1, <1>2 DEF GivenUp, Spilled
  <1>14. Passed'
    <2>1. Through(t)' = Through(t)
      BY <1>1 DEF Through
    <2>2. \A q \in Realm, k \in Slot : maaReserver[q][k] = <<>> => maaReserver'[q][k] = <<>>
      BY <1>4, <1>7 DEF s, OnlyShared
    <2> QED BY <2>1, <2>2, <1>1, <1>2, SameThrough
  <1>15. Stacks' /\ Spinlocks' /\ Rings'
    BY <1>1, <1>2 DEF Stacks, Spinlocks, Rings
  <1> QED BY <1>7, <1>9, <1>10, <1>11, <1>12, <1>13, <1>14, <1>15 DEF ReserverInv

LEMMA DrainDoneStep ==
  ASSUME ReserverInv, NEW t \in Thread, Drain(t),
         maaReserver[rRelease(t)][iRelease(t)] = <<>>
  PROVE  ReserverInv'
  <1>1. /\ pc[t] = "drain" /\ Advance(t) /\ alone' = alone \cap {t}
        /\ maSpinlock' = [maSpinlock EXCEPT ![rRelease(t)][iRelease(t)] = NULL]
        /\ rAlloc' = rAlloc /\ nTry' = nTry /\ oRevolver' = oRevolver
        /\ pBlock' = pBlock /\ bExit' = bExit
        /\ tag' = tag /\ owner' = owner
        /\ maReserver' = maReserver /\ maaReserver' = maaReserver
        /\ moRevolverFree' = moRevolverFree /\ moRevolverAlloc' = moRevolverAlloc
    BY DEF Drain, Disturbs, Unlocked, ring
  <1>2. Spinlocks /\ Calls /\ GivenUp /\ Passed
    BY DEF ReserverInv
  <1>3. Calls' /\ (\A u \in Thread \ {t} : Still(u)) /\ pc'[t] \in {"look", "draw"}
    BY <1>1, <1>2, AdvanceCalls
  <1>4. Passed'
    BY <1>1, <1>2, AdvancePassed
  <1>5. GivenUp'
    <2>1. Spilled(t)' => Spilled(t)
      BY <1>1, <1>3 DEF Spilled
    <2>2. Spilled(t)' => \A q \in Realm : maReserver'[t][q] = <<>>
      BY <2>1, <1>1, <1>2 DEF GivenUp
    <2> QED BY <2>2, <1>1, <1>2, <1>3, GivenUpStep
  <1>6. Spinlocks'
    <2>1. rRelease(t) \in Realm /\ iRelease(t) \in Slot
      BY <1>2, SlotOfRelease DEF Calls
    <2>2. NULL \in Thread \cup {NULL}
      OBVIOUS
    <2> QED BY <2>1, <2>2, <1>1, <1>2, Nested DEF Spinlocks
  <1> QED BY <1>1, <1>3, <1>4, <1>5, <1>6, NothingMoves DEF ReserverInv

LEMMA FreeOwnStep ==
  ASSUME ReserverInv, NEW t \in Thread, NEW b \in DOMAIN owner, Free(t, b),
         owner[b] = t /\ Room(maReserver[t][tag[b].Realm], LocalNum(tag[b].Realm))
  PROVE  ReserverInv'
  <1> DEFINE r == tag[b].Realm
  <1> DEFINE s == maReserver[t][r]
  <1>1. /\ pc[t] = "idle" /\ Room(s, LocalNum(r)) /\ OwnChange(t, r, Put(s, b))
        /\ owner' = [c \in DOMAIN owner \ {b} |-> owner[c]]
        /\ alone' \subseteq {t} /\ tag' = tag
        /\ pc' = pc /\ rAlloc' = rAlloc /\ nTry' = nTry /\ oRevolver' = oRevolver
        /\ pBlock' = pBlock /\ oRelease' = oRelease /\ bExit' = bExit
        /\ maaReserver' = maaReserver /\ maSpinlock' = maSpinlock
        /\ moRevolverFree' = moRevolverFree /\ moRevolverAlloc' = moRevolverAlloc
    BY DEF Free, OwnChange, Disturbs, ring, shared
  <1>2. /\ Stacks /\ SharedStacks /\ Spinlocks /\ Rings /\ Blocks /\ Calls
        /\ Spread /\ RightRealm /\ GivenUp /\ Passed
    BY DEF ReserverInv
  <1>3. DOMAIN owner \subseteq DOMAIN tag /\ \A q \in Realm : Range(maReserver[t][q]) \cap DOMAIN owner = {}
    BY <1>2, WhereHeld DEF Spread
  <1>4. b \in DOMAIN tag /\ b \in Block /\ r \in Realm
    <2>1. b \in DOMAIN tag /\ b \in Block
      BY <1>2, <1>3 DEF Blocks
    <2>2. tag[b] \in [Realm : Realm, bVirtual : BOOLEAN]
      BY <2>1, <1>2 DEF Blocks
    <2> QED BY <2>1, <2>2
  <1>5. /\ s \in Seq(Block) /\ IsInjective(s) /\ b \notin Range(s)
        /\ Len(s) \in Nat /\ Len(s) < LocalNum(r) /\ LocalNum(r) \in Nat
    <2>1. s \in Seq(Block) /\ IsInjective(s)
      BY <1>2, <1>4 DEF Stacks
    <2>2. b \notin Range(s)
      BY <1>3, <1>4
    <2> QED BY <2>1, <2>2, <1>1, <1>4, Constants DEF Room
  <1> HIDE DEF s, r
  <1>6. /\ Put(s, b) \in Seq(Block) /\ Len(Put(s, b)) = Len(s) + 1
        /\ Range(Put(s, b)) = Range(s) \cup {b} /\ IsInjective(Put(s, b))
    BY <1>4, <1>5, PutStack
  <1>7. Len(Put(s, b)) <= LocalNum(r)
    BY <1>5, <1>6
  <1>8. /\ Stacks' /\ maReserver'[t][r] = Put(s, b)
        /\ OnlyOwn(maReserver', maReserver, t, r)
        /\ \A u \in Thread \ {t} : maReserver'[u] = maReserver[u]
    BY <1>1, <1>2, <1>4, <1>6, <1>7, OwnChanged
  <1>9. Blocks' /\ DOMAIN owner' = DOMAIN owner \ {b}
    BY <1>1, <1>2 DEF Blocks
  <1>10. Calls' /\ \A u \in Thread \ {t} : Still(u)
    BY <1>1, <1>2 DEF Calls, At1, Still
  <1>11. Spread'
    <2>1. Partition(HeldBy(maReserver, maaReserver, pBlock, owner), DOMAIN tag)
      BY <1>2 DEF Spread
    <2>2. Without(DOMAIN owner', DOMAIN owner, b)
      BY <1>9 DEF Without
    <2>3. With(Range(maReserver'[t][r]), Range(maReserver[t][r]), b)
      BY <1>6, <1>8 DEF s, With
    <2>4. Partition(HeldBy(maReserver', maaReserver, pBlock, owner'), DOMAIN tag)
      BY <2>1, <2>2, <2>3, <1>4, <1>8, UseToOwn
    <2> QED BY <2>4, <1>1 DEF Spread
  <1>12. RightRealm'
    <2>1. \A u \in Thread, q \in Realm : \A c \in Range(maReserver'[u][q]) :
            c \in Range(maReserver[u][q]) \/ (c \in DOMAIN tag /\ tag[c].Realm = q)
      <3> SUFFICES ASSUME NEW u \in Thread, NEW q \in Realm, NEW c \in Range(maReserver'[u][q])
                   PROVE  c \in Range(maReserver[u][q]) \/ (c \in DOMAIN tag /\ tag[c].Realm = q)
        OBVIOUS
      <3>1. CASE u = t /\ q = r
        <4>1. c \in Range(s) \/ c = b
          BY <3>1, <1>6, <1>8
        <4> QED BY <4>1, <3>1, <1>4 DEF s, r
      <3>2. CASE u # t \/ q # r
        BY <3>2, <1>8 DEF OnlyOwn
      <3> QED BY <3>1, <3>2
    <2> QED BY <2>1, <1>1, <1>2, <1>11, RealmStep
  <1>13. At1(t) /\ nTry[t] = 0
    <2>1. At1(t)
      BY <1>2 DEF Calls
    <2> QED BY <2>1, <1>1 DEF At1
  <1>14. GivenUp'
    <2>1. ~Spilled(t)'
      BY <1>1, <1>13 DEF Spilled
    <2> QED BY <2>1, <1>2, <1>8, <1>10, GivenUpStep
  <1>15. Passed'
    BY <1>1, <1>13, NotThrough
  <1>16. SharedStacks' /\ Spinlocks' /\ Rings'
    BY <1>1, <1>2 DEF SharedStacks, Spinlocks, Rings
  <1> QED BY <1>8, <1>9, <1>10, <1>11, <1>12, <1>14, <1>15, <1>16 DEF ReserverInv

(* A block on its way to the shared stacks: the thread has it in hand.     *)
LEMMA DrawFreeCalls ==
  ASSUME Calls, Rings, Blocks, NEW t \in Thread, NEW b \in DOMAIN tag, DrawFree(t, b),
         pc[t] \in {"idle", "spill"},
         rAlloc' = rAlloc, nTry' = nTry, oRelease' = oRelease, bExit' = bExit
  PROVE  /\ Calls' /\ Rings' /\ (\A u \in Thread \ {t} : Still(u))
         /\ nTry'[t] \in 0 .. 2 /\ ~Spilled(t)'
         /\ b # NULL /\ pBlock[t] = NULL /\ pBlock'[t] = b /\ OnlyFreed(pBlock', pBlock, t)
  <1> DEFINE r == tag[b].Realm
  <1>1. /\ oRevolver' = [oRevolver EXCEPT ![t] = moRevolverFree[r]]
        /\ moRevolverFree' = [moRevolverFree EXCEPT ![r] = Next1(moRevolverFree[r])]
        /\ pBlock' = [pBlock EXCEPT ![t] = b] /\ pc' = [pc EXCEPT ![t] = "push"]
        /\ moRevolverAlloc' = moRevolverAlloc
    BY DEF DrawFree, Goto
  <1>2. b \in Block /\ b # NULL /\ r \in Realm
    <2>1. b \in Block /\ tag[b] \in [Realm : Realm, bVirtual : BOOLEAN]
      BY DEF Blocks
    <2> QED BY <2>1, Constants
  <1> HIDE DEF r
  <1>3. moRevolverFree[r] \in Slot /\ Next1(moRevolverFree[r]) \in Slot
    BY <1>2, NextInRing DEF Rings
  <1>4. Rings'
    BY <1>1, <1>2, <1>3 DEF Rings
  <1>5. Typed'
    BY <1>1, <1>2, <1>3 DEF Calls, Typed, Label
  <1>6. pc'[t] = "push" /\ pBlock'[t] = b /\ OnlyFreed(pBlock', pBlock, t)
    BY <1>1 DEF Calls, OnlyFreed
  <1>7. At1(t) /\ nTry[t] \in 0 .. 4
    BY DEF Calls
  <1>8. pBlock[t] = NULL /\ nTry[t] \in 0 .. 2
    BY <1>7 DEF At1
  <1>9. At1(t)'
    BY <1>2, <1>6, <1>7 DEF At1
  <1>10. \A u \in Thread \ {t} : Still(u)
    BY <1>1 DEF Calls, Still
  <1>11. ~Spilled(t)'
    BY <1>6, <1>8 DEF Spilled
  <1> QED BY <1>2, <1>4, <1>5, <1>6, <1>8, <1>9, <1>10, <1>11, CallsStep

LEMMA FreeDrawStep ==
  ASSUME ReserverInv, NEW t \in Thread, NEW b \in DOMAIN owner, Free(t, b),
         ~(owner[b] = t /\ Room(maReserver[t][tag[b].Realm], LocalNum(tag[b].Realm)))
  PROVE  ReserverInv'
  <1>1. /\ pc[t] = "idle" /\ DrawFree(t, b)
        /\ owner' = [c \in DOMAIN owner \ {b} |-> owner[c]]
        /\ alone' \subseteq {t} /\ tag' = tag
        /\ rAlloc' = rAlloc /\ nTry' = nTry /\ oRelease' = oRelease /\ bExit' = bExit
        /\ maReserver' = maReserver /\ maaReserver' = maaReserver /\ maSpinlock' = maSpinlock
    BY DEF Free, Disturbs, shared
  <1>2. /\ Stacks /\ SharedStacks /\ Spinlocks /\ Rings /\ Blocks /\ Calls
        /\ Spread /\ RightRealm /\ GivenUp
    BY DEF ReserverInv
  <1>3. b \in DOMAIN tag
    BY <1>2, WhereHeld DEF Spread
  <1>4. /\ Calls' /\ Rings' /\ (\A u \in Thread \ {t} : Still(u))
        /\ nTry'[t] \in 0 .. 2 /\ ~Spilled(t)'
        /\ b # NULL /\ pBlock[t] = NULL /\ pBlock'[t] = b /\ OnlyFreed(pBlock', pBlock, t)
    BY <1>1, <1>2, <1>3, DrawFreeCalls
  <1>5. Blocks' /\ DOMAIN owner' = DOMAIN owner \ {b}
    BY <1>1, <1>2 DEF Blocks
  <1>6. Spread'
    <2>1. Partition(HeldBy(maReserver, maaReserver, pBlock, owner), DOMAIN tag)
      BY <1>2 DEF Spread
    <2>2. Without(DOMAIN owner', DOMAIN owner, b)
      BY <1>5 DEF Without
    <2>3. Partition(HeldBy(maReserver, maaReserver, pBlock', owner'), DOMAIN tag)
      BY <2>1, <2>2, <1>4, UseToFreeing
    <2> QED BY <2>3, <1>1 DEF Spread
  <1>7. Stacks' /\ SharedStacks' /\ Spinlocks' /\ RightRealm'
    BY <1>1, <1>2 DEF Stacks, SharedStacks, Spinlocks, RightRealm
  <1>8. GivenUp'
    BY <1>1, <1>2, <1>4, GivenUpStep
  <1>9. Passed'
    BY <1>1, <1>4, NotThrough
  <1> QED BY <1>4, <1>5, <1>6, <1>7, <1>8, <1>9 DEF ReserverInv

LEMMA SpillPushStep ==
  ASSUME ReserverInv, NEW t \in Thread, Spill(t),
         {r \in Realm : maReserver[t][r] # <<>>} # {}
  PROVE  ReserverInv'
  <1> DEFINE full == {q \in Realm : maReserver[t][q] # <<>>}
  <1> DEFINE r == Min(full)
  <1> DEFINE s == maReserver[t][r]
  <1> DEFINE b == Head(s)
  <1>1. /\ pc[t] = "spill" /\ DrawFree(t, b) /\ OwnChange(t, r, Tail(s))
        /\ alone' \subseteq {t} /\ tag' = tag /\ owner' = owner
        /\ rAlloc' = rAlloc /\ nTry' = nTry /\ oRelease' = oRelease /\ bExit' = bExit
        /\ maaReserver' = maaReserver /\ maSpinlock' = maSpinlock
    BY DEF Spill, OwnChange, Popped, Disturbs, memory, shared
  <1>2. /\ Stacks /\ SharedStacks /\ Spinlocks /\ Rings /\ Blocks /\ Calls
        /\ Spread /\ RightRealm /\ GivenUp
    BY DEF ReserverInv
  <1>3. r \in full
    <2>1. full \subseteq Nat /\ full # {}
      BY Constants DEF Realm
    <2> HIDE DEF full
    <2> QED BY <2>1, MinIsIn
  <1>4. r \in Realm /\ s # <<>>
    BY <1>3
  <1> HIDE DEF full, r
  <1>5. s \in Seq(Block) /\ IsInjective(s) /\ Len(s) <= LocalNum(r)
    BY <1>2, <1>4 DEF Stacks
  <1> HIDE DEF s
  <1>6. /\ Tail(s) \in Seq(Block) /\ Len(Tail(s)) + 1 = Len(s)
        /\ b \in Range(s) /\ b \in Block
        /\ IsInjective(Tail(s)) /\ Range(Tail(s)) = Range(s) \ {b}
    BY <1>4, <1>5, TailStack
  <1>7. Len(Tail(s)) <= LocalNum(r)
    BY <1>4, <1>5, <1>6, Constants
  <1> HIDE DEF b
  <1>8. /\ Stacks' /\ maReserver'[t][r] = Tail(s)
        /\ OnlyOwn(maReserver', maReserver, t, r)
        /\ \A u \in Thread \ {t} : maReserver'[u] = maReserver[u]
    BY <1>1, <1>2, <1>4, <1>6, <1>7, OwnChanged
  <1>9. b \in DOMAIN tag
    <2>1. Range(maReserver[t][r]) \subseteq DOMAIN tag
      BY <1>2, <1>4, WhereHeld DEF Spread
    <2> QED BY <2>1, <1>6 DEF s
  <1>10. /\ Calls' /\ Rings' /\ (\A u \in Thread \ {t} : Still(u))
         /\ nTry'[t] \in 0 .. 2 /\ ~Spilled(t)'
         /\ b # NULL /\ pBlock[t] = NULL /\ pBlock'[t] = b /\ OnlyFreed(pBlock', pBlock, t)
    BY <1>1, <1>2, <1>9, DrawFreeCalls
  <1>11. Spread'
    <2>1. Partition(HeldBy(maReserver, maaReserver, pBlock, owner), DOMAIN tag)
      BY <1>2 DEF Spread
    <2>2. Without(Range(maReserver'[t][r]), Range(maReserver[t][r]), b)
      BY <1>6, <1>8 DEF s, Without
    <2>3. Partition(HeldBy(maReserver', maaReserver, pBlock', owner), DOMAIN tag)
      BY <2>1, <2>2, <1>4, <1>8, <1>10, OwnToFreeing
    <2> QED BY <2>3, <1>1 DEF Spread
  <1>12. RightRealm'
    <2>1. \A u \in Thread, q \in Realm : \A c \in Range(maReserver'[u][q]) : c \in Range(maReserver[u][q])
      BY <1>6, <1>8 DEF s, OnlyOwn
    <2> QED BY <2>1, <1>1, <1>2, <1>11, RealmStep
  <1>13. GivenUp'
    BY <1>2, <1>8, <1>10, GivenUpStep
  <1>14. Passed'
    BY <1>1, <1>10, NotThrough
  <1>15. SharedStacks' /\ Spinlocks' /\ Blocks'
    BY <1>1, <1>2 DEF SharedStacks, Spinlocks, Blocks
  <1> QED BY <1>8, <1>10, <1>11, <1>12, <1>13, <1>14, <1>15 DEF ReserverInv

(* The block has found its place.                                          *)
LEMMA FreedCalls ==
  ASSUME Calls, NEW t \in Thread, Freed(t), pc[t] \in {"push", "unmap"},
         rAlloc' = rAlloc, nTry' = nTry, oRelease' = oRelease, bExit' = bExit
  PROVE  /\ Calls' /\ (\A u \in Thread \ {t} : Still(u))
         /\ nTry'[t] \in 0 .. 2 /\ ~Spilled(t)'
         /\ pBlock[t] \in Block /\ pBlock[t] # NULL /\ pBlock'[t] = NULL
         /\ OnlyFreed(pBlock', pBlock, t)
  <1> DEFINE label == IF rAlloc[t] # NULL \/ t \in bExit THEN "spill" ELSE "idle"
  <1>1. /\ pc' = [pc EXCEPT ![t] = label]
        /\ pBlock' = [pBlock EXCEPT ![t] = NULL] /\ oRevolver' = [oRevolver EXCEPT ![t] = 0]
    BY DEF Freed, Goto
  <1>2. label \in Label
    BY DEF Label
  <1>3. Typed'
    <2> HIDE DEF label
    <2> QED BY <1>1, <1>2, ZeroPlaces DEF Calls, Typed
  <1>4. pc'[t] = label /\ pBlock'[t] = NULL /\ OnlyFreed(pBlock', pBlock, t)
    BY <1>1 DEF Calls, OnlyFreed
  <1>5. At1(t) /\ nTry[t] \in 0 .. 4 /\ pBlock[t] \in Block \cup {NULL}
    BY DEF Calls
  <1>6. pBlock[t] # NULL /\ nTry[t] \in 0 .. 2
    BY <1>5 DEF At1
  <1>7. At1(t)'
    BY <1>4, <1>5 DEF At1
  <1>8. \A u \in Thread \ {t} : Still(u)
    BY <1>1 DEF Calls, Still
  <1>9. ~Spilled(t)'
    BY <1>4, <1>6 DEF Spilled
  <1> QED BY <1>3, <1>4, <1>5, <1>6, <1>7, <1>8, <1>9, CallsStep

LEMMA PushRoomStep ==
  ASSUME ReserverInv, NEW t \in Thread, Push(t),
         Room(maaReserver[SegmentOf(t)][oRevolver[t]], GlobalNum(SegmentOf(t)))
  PROVE  ReserverInv'
  <1> DEFINE r == SegmentOf(t)
  <1> DEFINE i == oRevolver[t]
  <1> DEFINE s == maaReserver[r][i]
  <1> DEFINE b == pBlock[t]
  <1>1. /\ pc[t] = "push" /\ Freed(t) /\ SharedChange(r, i, Put(s, b)) /\ Room(s, GlobalNum(r))
        /\ alone' \subseteq {t} /\ tag' = tag /\ owner' = owner
        /\ rAlloc' = rAlloc /\ nTry' = nTry /\ oRelease' = oRelease /\ bExit' = bExit
        /\ maReserver' = maReserver /\ maSpinlock' = maSpinlock
        /\ moRevolverFree' = moRevolverFree /\ moRevolverAlloc' = moRevolverAlloc
    BY DEF Push, SharedChange, Disturbs, memory, ring
  <1>2. /\ Stacks /\ SharedStacks /\ Spinlocks /\ Rings /\ Blocks /\ Calls
        /\ Spread /\ RightRealm /\ GivenUp
    BY DEF ReserverInv
  <1>3. /\ Calls' /\ (\A u \in Thread \ {t} : Still(u))
        /\ nTry'[t] \in 0 .. 2 /\ ~Spilled(t)'
        /\ b \in Block /\ b # NULL /\ pBlock'[t] = NULL
        /\ OnlyFreed(pBlock', pBlock, t)
    BY <1>1, <1>2, FreedCalls
  <1>4. /\ {b} \ {NULL} \subseteq DOMAIN tag
        /\ \A q \in Realm, k \in Slot : Range(maaReserver[q][k]) \cap ({b} \ {NULL}) = {}
    BY <1>2, WhereHeld DEF Spread
  <1>5. b \in DOMAIN tag /\ i \in Slot /\ r \in Realm /\ r = tag[b].Realm
    <2>1. b \in DOMAIN tag /\ i \in Slot
      BY <1>2, <1>3, <1>4 DEF Calls
    <2>2. tag[b] \in [Realm : Realm, bVirtual : BOOLEAN]
      BY <2>1, <1>2 DEF Blocks
    <2> QED BY <2>1, <2>2 DEF SegmentOf
  <1>6. /\ s \in Seq(Block) /\ IsInjective(s) /\ b \notin Range(s)
        /\ Len(s) \in Nat /\ Len(s) < GlobalNum(r) /\ GlobalNum(r) \in Nat
    <2>1. s \in Seq(Block) /\ IsInjective(s)
      BY <1>2, <1>5 DEF SharedStacks
    <2>2. b \notin Range(s)
      BY <1>3, <1>4, <1>5
    <2> QED BY <2>1, <2>2, <1>1, <1>5, Constants DEF Room
  <1> HIDE DEF s, r, i, b
  <1>7. /\ Put(s, b) \in Seq(Block) /\ Len(Put(s, b)) = Len(s) + 1
        /\ Range(Put(s, b)) = Range(s) \cup {b} /\ IsInjective(Put(s, b))
    BY <1>3, <1>6, PutStack
  <1>8. Len(Put(s, b)) <= GlobalNum(r)
    BY <1>6, <1>7
  <1>9. /\ SharedStacks' /\ maaReserver'[r][i] = Put(s, b)
        /\ OnlyShared(maaReserver', maaReserver, r, i)
    BY <1>1, <1>2, <1>5, <1>7, <1>8, SharedChanged
  <1>10. Spread'
    <2>1. Partition(HeldBy(maReserver, maaReserver, pBlock, owner), DOMAIN tag)
      BY <1>2 DEF Spread
    <2>2. With(Range(maaReserver'[r][i]), Range(maaReserver[r][i]), b)
      BY <1>7, <1>9 DEF s, With
    <2>3. pBlock[t] = b
      BY DEF b
    <2>4. Partition(HeldBy(maReserver, maaReserver', pBlock', owner), DOMAIN tag)
      BY <2>1, <2>2, <2>3, <1>3, <1>5, <1>9, FreeingToShared
    <2> QED BY <2>4, <1>1 DEF Spread
  <1>11. RightRealm'
    <2>1. \A q \in Realm, k \in Slot : \A c \in Range(maaReserver'[q][k]) :
            c \in Range(maaReserver[q][k]) \/ (c \in DOMAIN tag /\ tag[c].Realm = q)
      <3> SUFFICES ASSUME NEW q \in Realm, NEW k \in Slot, NEW c \in Range(maaReserver'[q][k])
                   PROVE  c \in Range(maaReserver[q][k]) \/ (c \in DOMAIN tag /\ tag[c].Realm = q)
        OBVIOUS
      <3>1. CASE q = r /\ k = i
        <4>1. c \in Range(s) \/ c = b
          BY <3>1, <1>7, <1>9
        <4> QED BY <4>1, <3>1, <1>5 DEF s
      <3>2. CASE q # r \/ k # i
        BY <3>2, <1>9 DEF OnlyShared
      <3> QED BY <3>1, <3>2
    <2> QED BY <2>1, <1>1, <1>2, <1>10, RealmStep
  <1>12. GivenUp'
    BY <1>1, <1>2, <1>3, GivenUpStep
  <1>13. Passed'
    BY <1>1, <1>3, NotThrough
  <1>14. Stacks' /\ Spinlocks' /\ Rings' /\ Blocks'
    BY <1>1, <1>2 DEF Stacks, Spinlocks, Rings, Blocks
  <1> QED BY <1>3, <1>9, <1>10, <1>11, <1>12, <1>13, <1>14 DEF ReserverInv

LEMMA PushFullStep ==
  ASSUME ReserverInv, NEW t \in Thread, Push(t),
         ~Room(maaReserver[SegmentOf(t)][oRevolver[t]], GlobalNum(SegmentOf(t)))
  PROVE  ReserverInv'
  <1>1. /\ pc[t] = "push" /\ OnlyGoes(t, "unmap") /\ alone' \subseteq {t}
        /\ tag' = tag /\ owner' = owner /\ pBlock' = pBlock
        /\ maReserver' = maReserver /\ maaReserver' = maaReserver /\ maSpinlock' = maSpinlock
        /\ moRevolverFree' = moRevolverFree /\ moRevolverAlloc' = moRevolverAlloc
    BY DEF Push, Disturbs, memory, ring, Goto, OnlyGoes
  <1>2. Spinlocks /\ Calls /\ GivenUp
    BY DEF ReserverInv
  <1>3. At1(t) /\ pc'[t] = "unmap" /\ nTry[t] \in 0 .. 2
    <2>1. At1(t) /\ nTry[t] \in 0 .. 4 /\ pc'[t] = "unmap"
      BY <1>1, <1>2 DEF Calls, OnlyGoes
    <2> QED BY <2>1, <1>1 DEF At1
  <1>4. At1(t)'
    BY <1>1, <1>3 DEF At1, OnlyGoes
  <1>5. Calls' /\ \A u \in Thread \ {t} : Still(u)
    BY <1>1, <1>2, <1>4, GoesCalls DEF Label
  <1>6. nTry'[t] \in 0 .. 2 /\ ~Spilled(t)'
    BY <1>1, <1>3 DEF Spilled, OnlyGoes
  <1>7. GivenUp'
    BY <1>1, <1>2, <1>5, <1>6, GivenUpStep
  <1>8. Passed'
    BY <1>1, <1>6, NotThrough
  <1>9. Spinlocks'
    BY <1>1, <1>2 DEF Spinlocks
  <1> QED BY <1>1, <1>5, <1>7, <1>8, <1>9, NothingMoves DEF ReserverInv

LEMMA UnmapStep ==
  ASSUME ReserverInv, NEW t \in Thread, Unmap(t)
  PROVE  ReserverInv'
  <1> DEFINE b == pBlock[t]
  <1>1. /\ pc[t] = "unmap" /\ Freed(t) /\ TaggedFree(b)
        /\ alone' \subseteq {t} /\ owner' = owner
        /\ rAlloc' = rAlloc /\ nTry' = nTry /\ oRelease' = oRelease /\ bExit' = bExit
        /\ maReserver' = maReserver /\ maaReserver' = maaReserver /\ maSpinlock' = maSpinlock
        /\ moRevolverFree' = moRevolverFree /\ moRevolverAlloc' = moRevolverAlloc
    BY DEF Unmap, Disturbs, shared, ring
  <1>2. /\ Stacks /\ SharedStacks /\ Spinlocks /\ Rings /\ Blocks /\ Calls
        /\ Spread /\ RightRealm /\ GivenUp
    BY DEF ReserverInv
  <1>3. /\ Calls' /\ (\A u \in Thread \ {t} : Still(u))
        /\ nTry'[t] \in 0 .. 2 /\ ~Spilled(t)'
        /\ b \in Block /\ b # NULL /\ pBlock'[t] = NULL
        /\ OnlyFreed(pBlock', pBlock, t)
    BY <1>1, <1>2, FreedCalls
  <1> HIDE DEF b
  <1>4. /\ DOMAIN tag' = DOMAIN tag \ {b}
        /\ \A c \in DOMAIN tag \cap DOMAIN tag' : tag'[c] = tag[c]
    BY <1>1 DEF TaggedFree
  <1>5. Blocks'
    BY <1>1, <1>2, <1>4 DEF Blocks, TaggedFree
  <1>6. Spread'
    <2>1. Partition(HeldBy(maReserver, maaReserver, pBlock, owner), DOMAIN tag)
      BY <1>2 DEF Spread
    <2>2. pBlock[t] = b
      BY DEF b
    <2>3. Partition(HeldBy(maReserver, maaReserver, pBlock', owner), DOMAIN tag \ {b})
      BY <2>1, <2>2, <1>3, FreeingToGone
    <2> QED BY <2>3, <1>1, <1>4 DEF Spread
  <1>7. RightRealm'
    BY <1>1, <1>2, <1>4, <1>6, RealmStep
  <1>8. GivenUp'
    BY <1>1, <1>2, <1>3, GivenUpStep
  <1>9. Passed'
    BY <1>1, <1>3, NotThrough
  <1>10. Stacks' /\ SharedStacks' /\ Spinlocks' /\ Rings'
    BY <1>1, <1>2 DEF Stacks, SharedStacks, Spinlocks, Rings
  <1> QED BY <1>3, <1>5, <1>6, <1>7, <1>8, <1>9, <1>10 DEF ReserverInv

LEMMA SpillDoneStep ==
  ASSUME ReserverInv, NEW t \in Thread, Spill(t),
         {r \in Realm : maReserver[t][r] # <<>>} = {}
  PROVE  ReserverInv'
  <1> DEFINE label == IF t \in bExit THEN "idle" ELSE "look"
  <1>1. /\ pc[t] = "spill" /\ pc' = [pc EXCEPT ![t] = label] /\ bExit' = bExit \ {t}
        /\ alone' \subseteq {t} /\ tag' = tag /\ owner' = owner
        /\ rAlloc' = rAlloc /\ nTry' = nTry /\ oRevolver' = oRevolver
        /\ pBlock' = pBlock /\ oRelease' = oRelease
        /\ maReserver' = maReserver /\ maaReserver' = maaReserver /\ maSpinlock' = maSpinlock
        /\ moRevolverFree' = moRevolverFree /\ moRevolverAlloc' = moRevolverAlloc
    BY DEF Spill, Disturbs, memory, shared, ring, Goto
  <1>2. Spinlocks /\ Calls /\ GivenUp
    BY DEF ReserverInv
  <1>3. label \in Label
    BY DEF Label
  <1>4. Typed'
    <2> HIDE DEF label
    <2> QED BY <1>1, <1>2, <1>3 DEF Calls, Typed
  <1>5. pc'[t] = label /\ At1(t) /\ nTry[t] \in 0 .. 4
    BY <1>1, <1>2 DEF Calls
  <1>6. nTry[t] \in 0 .. 2 /\ oRelease[t] = 0 /\ pBlock[t] = NULL
    BY <1>1, <1>5 DEF At1
  <1>7. At1(t)'
    BY <1>1, <1>5, <1>6 DEF At1
  <1>8. \A u \in Thread \ {t} : Still(u)
    BY <1>1, <1>2 DEF Calls, Still
  <1>9. Calls'
    BY <1>2, <1>4, <1>7, <1>8, CallsStep
  <1>10. GivenUp'
    <2>1. \A r \in Realm : maReserver'[t][r] = <<>>
      BY <1>1
    <2> QED BY <2>1, <1>1, <1>2, <1>8, GivenUpStep
  <1>11. Passed'
    BY <1>1, <1>6, NotThrough
  <1>12. Spinlocks'
    BY <1>1, <1>2 DEF Spinlocks
  <1> QED BY <1>1, <1>9, <1>10, <1>11, <1>12, NothingMoves DEF ReserverInv

LEMMA ExitStep ==
  ASSUME ReserverInv, NEW t \in Thread, Exit(t)
  PROVE  ReserverInv'
  <1>1. /\ pc[t] = "idle" /\ pc' = [pc EXCEPT ![t] = "spill"] /\ bExit' = bExit \cup {t}
        /\ alone' \subseteq {t} /\ tag' = tag /\ owner' = owner
        /\ rAlloc' = rAlloc /\ nTry' = nTry /\ oRevolver' = oRevolver
        /\ pBlock' = pBlock /\ oRelease' = oRelease
        /\ maReserver' = maReserver /\ maaReserver' = maaReserver /\ maSpinlock' = maSpinlock
        /\ moRevolverFree' = moRevolverFree /\ moRevolverAlloc' = moRevolverAlloc
    BY DEF Exit, Disturbs, memory, shared, ring, Goto
  <1>2. Spinlocks /\ Calls /\ GivenUp
    BY DEF ReserverInv
  <1>3. Typed'
    BY <1>1, <1>2 DEF Calls, Typed, Label
  <1>4. pc'[t] = "spill" /\ At1(t) /\ t \in bExit'
    BY <1>1, <1>2 DEF Calls
  <1>5. nTry[t] = 0 /\ rAlloc[t] = NULL /\ oRelease[t] = 0 /\ pBlock[t] = NULL
    BY <1>1, <1>4 DEF At1
  <1>6. At1(t)'
    BY <1>1, <1>4, <1>5 DEF At1
  <1>7. \A u \in Thread \ {t} : Still(u)
    BY <1>1, <1>2 DEF Calls, Still
  <1>8. Calls'
    BY <1>2, <1>3, <1>6, <1>7, CallsStep
  <1>9. GivenUp'
    <2>1. ~Spilled(t)'
      BY <1>1, <1>5 DEF Spilled
    <2> QED BY <2>1, <1>1, <1>2, <1>7, GivenUpStep
  <1>10. Passed'
    <2>1. nTry'[t] \in 0 .. 2
      BY <1>1, <1>5
    <2> QED BY <2>1, <1>1, NotThrough
  <1>11. Spinlocks'
    BY <1>1, <1>2 DEF Spinlocks
  <1> QED BY <1>1, <1>8, <1>9, <1>10, <1>11, NothingMoves DEF ReserverInv

LEMMA ReserverInit == Init => ReserverInv
  <1> SUFFICES ASSUME Init PROVE ReserverInv
    OBVIOUS
  <1>1. /\ maReserver = [t \in Thread |-> [r \in Realm |-> <<>>]]
        /\ maaReserver = [r \in Realm |-> [i \in Slot |-> <<>>]]
        /\ maSpinlock = [r \in Realm |-> [i \in Slot |-> NULL]]
        /\ tag = <<>> /\ owner = <<>> /\ alone = {}
        /\ pBlock = [t \in Thread |-> NULL]
    BY DEF Init
  <1>2. <<>> \in Seq(Block) /\ DOMAIN tag = {} /\ DOMAIN owner = {}
    BY <1>1
  <1>3. \A r \in Realm : 0 <= LocalNum(r) /\ 0 <= GlobalNum(r)
    BY Constants
  <1>4. Stacks
    BY <1>1, <1>2, <1>3, EmptyStack DEF Stacks
  <1>5. SharedStacks
    BY <1>1, <1>2, <1>3, EmptyStack DEF SharedStacks
  <1>6. Spinlocks
    BY <1>1 DEF Spinlocks
  <1>7. Rings
    BY ZeroPlaces DEF Init, Rings
  <1>8. Blocks
    <2>1. tag \in [{} -> [Realm : Realm, bVirtual : BOOLEAN]] /\ owner \in [{} -> Thread]
      BY <1>1
    <2> QED BY <2>1, <1>2 DEF Blocks
  <1>9. Calls
    <2>1. Typed
      BY ZeroPlaces DEF Init, Typed, Label
    <2>2. ASSUME NEW t \in Thread PROVE At1(t)
      BY DEF Init, At1
    <2> QED BY <2>1, <2>2 DEF Calls, Typed
  <1>10. Spread
    <2> DEFINE H == HeldBy(maReserver, maaReserver, pBlock, owner)
    <2>1. HoldsAll(H, maReserver, maaReserver, pBlock, owner)
      BY Holds
    <2> HIDE DEF H
    <2>2. ASSUME NEW p \in Place PROVE H[p] = {}
      <3>1. CASE \E t \in Thread, r \in Realm : p = <<"own", t, r>>
        <4>1. PICK t \in Thread, r \in Realm : p = <<"own", t, r>>
          BY <3>1
        <4>2. H[<<"own", t, r>>] = Range(maReserver[t][r]) /\ maReserver[t][r] = <<>>
          BY <2>1, <1>1 DEF HoldsAll
        <4> QED BY <4>1, <4>2, EmptyStack
      <3>2. CASE \E r \in Realm, i \in Slot : p = <<"shared", r, i>>
        <4>1. PICK r \in Realm, i \in Slot : p = <<"shared", r, i>>
          BY <3>2
        <4>2. H[<<"shared", r, i>>] = Range(maaReserver[r][i]) /\ maaReserver[r][i] = <<>>
          BY <2>1, <1>1 DEF HoldsAll
        <4> QED BY <4>1, <4>2, EmptyStack
      <3>3. CASE \E t \in Thread : p = <<"freeing", t>>
        <4>1. PICK t \in Thread : p = <<"freeing", t>>
          BY <3>3
        <4>2. H[<<"freeing", t>>] = {pBlock[t]} \ {NULL} /\ pBlock[t] = NULL
          BY <2>1, <1>1 DEF HoldsAll
        <4> QED BY <4>1, <4>2
      <3>4. CASE p = <<"in use">>
        BY <3>4, <2>1, <1>2 DEF HoldsAll
      <3> QED BY <3>1, <3>2, <3>3, <3>4, Places
    <2>3. Partition(H, {})
      BY <2>2 DEF Partition
    <2> QED BY <2>3, <1>2 DEF Spread, H
  <1>11. RightRealm
    BY <1>1, EmptyStack DEF RightRealm
  <1>12. GivenUp
    BY <1>1 DEF GivenUp
  <1>13. Passed
    BY <1>1 DEF Passed
  <1> QED BY <1>4, <1>5, <1>6, <1>7, <1>8, <1>9, <1>10, <1>11, <1>12, <1>13 DEF ReserverInv

LEMMA ReserverStep == ReserverInv /\ [Next]_vars => ReserverInv'
  <1> SUFFICES ASSUME ReserverInv, [Next]_vars PROVE ReserverInv'
    OBVIOUS
  <1>1. ASSUME NEW t \in Thread, NEW r \in Realm, Alloc(t, r) PROVE ReserverInv'
    BY <1>1, AllocOwnStep, AllocDrawStep
  <1>2. ASSUME NEW t \in Thread, NEW b \in DOMAIN owner, Free(t, b) PROVE ReserverInv'
    BY <1>2, FreeOwnStep, FreeDrawStep
  <1>3. ASSUME NEW t \in Thread, Exit(t) PROVE ReserverInv'
    BY <1>3, ExitStep
  <1>4. ASSUME NEW t \in Thread, Step(t) PROVE ReserverInv'
    <2>1. CASE AllocAgain(t)
      BY <2>1, AllocAgainStep
    <2>2. CASE Pop(t)
      BY <2>2, PopGiveStep, PopEmptyStep
    <2>3. CASE TaggedAlloc(t)
      BY <2>3, TaggedGiveStep, TaggedFailStep
    <2>4. CASE Look(t)
      BY <2>4, LookStep
    <2>5. CASE Lock(t)
      BY <2>5, LockStep
    <2>6. CASE Drain(t)
      BY <2>6, DrainTakeStep, DrainDoneStep
    <2>7. CASE Push(t)
      BY <2>7, PushRoomStep, PushFullStep
    <2>8. CASE Unmap(t)
      BY <2>8, UnmapStep
    <2>9. CASE Spill(t)
      BY <2>9, SpillPushStep, SpillDoneStep
    <2> QED BY <1>4, <2>1, <2>2, <2>3, <2>4, <2>5, <2>6, <2>7, <2>8, <2>9 DEF Step, Release
  <1>5. CASE UNCHANGED vars
    <2>1. /\ maReserver' = maReserver /\ maaReserver' = maaReserver /\ maSpinlock' = maSpinlock
          /\ moRevolverFree' = moRevolverFree /\ moRevolverAlloc' = moRevolverAlloc
          /\ tag' = tag /\ owner' = owner /\ pc' = pc
          /\ rAlloc' = rAlloc /\ nTry' = nTry /\ oRevolver' = oRevolver
          /\ pBlock' = pBlock /\ oRelease' = oRelease /\ bExit' = bExit /\ alone' = alone
      BY <1>5 DEF vars, shared, ring, memory, calls
    <2>2. Spinlocks' /\ Calls' /\ GivenUp' /\ Passed'
      BY <2>1 DEF ReserverInv, Spinlocks, Calls, At1, GivenUp, Spilled, Passed, Through
    <2> QED BY <2>1, <2>2, NothingMoves DEF ReserverInv
  <1> QED BY <1>1, <1>2, <1>3, <1>4, <1>5 DEF Next

(* The invariant, for every instance.                                      *)
THEOREM ReserverInductive == Spec => []ReserverInv
  BY ReserverInit, ReserverStep, PTL DEF Spec

(* Every stack stays within its depth and every variable in its type:      *)
(* LocalReserver and GlobalReserver never write over the end of a stack.   *)
THEOREM ReserverTypeCorrect == Spec => []TypeOK
  <1>1. ReserverInv => TypeOK
    <2> SUFFICES ASSUME ReserverInv PROVE TypeOK
      OBVIOUS
    <2>1. Stacks /\ SharedStacks /\ Spinlocks /\ Rings /\ Blocks /\ Calls /\ Passed
      BY DEF ReserverInv
    <2>2. /\ maReserver \in [Thread -> [Realm -> Seq(Block)]]
          /\ maaReserver \in [Realm -> [Slot -> Seq(Block)]]
          /\ \A r \in Realm :
               /\ \A t \in Thread : Len(maReserver[t][r]) <= LocalNum(r)
               /\ \A i \in Slot : Len(maaReserver[r][i]) <= GlobalNum(r)
      BY <2>1 DEF Stacks, SharedStacks
    <2>3. /\ maSpinlock \in [Realm -> [Slot -> Thread \cup {NULL}]]
          /\ moRevolverFree \in [Realm -> Slot] /\ moRevolverAlloc \in [Realm -> Slot]
          /\ DOMAIN tag \subseteq Block
          /\ tag \in [DOMAIN tag -> [Realm : Realm, bVirtual : BOOLEAN]]
          /\ DOMAIN owner \subseteq Block /\ owner \in [DOMAIN owner -> Thread]
          /\ alone \subseteq Thread
      BY <2>1 DEF Spinlocks, Rings, Blocks, Passed
    <2> QED BY <2>1, <2>2, <2>3 DEF TypeOK, Calls, Label
  <1> QED BY <1>1, ReserverInductive, PTL

(* The stacks of a realm hold blocks of that realm only, so that a block   *)
(* goes back to the memory it came from, with the size it has.             *)
THEOREM RealmsRight == Spec => []RightRealm
  <1>1. ReserverInv => RightRealm
    BY DEF ReserverInv
  <1> QED BY <1>1, ReserverInductive, PTL

(* No block is lost, handed out twice, or used after it has gone back.     *)
THEOREM BlocksOnePlace == Spec => []OnePlace
  <1>1. ReserverInv => OnePlace
    <2> SUFFICES ASSUME ReserverInv PROVE OnePlace
      OBVIOUS
    <2>1. /\ \A t \in Thread, r \in Realm : IsInjective(maReserver[t][r])
          /\ \A r \in Realm, i \in Slot : IsInjective(maaReserver[r][i])
      BY DEF ReserverInv, Stacks, SharedStacks
    <2> DEFINE H == HeldBy(maReserver, maaReserver, pBlock, owner)
    <2>2. \A p \in Place : H[p] = At(p)
      BY DEF HeldBy, HeldAt, At
    <2>3. Partition(H, DOMAIN tag)
      BY DEF ReserverInv, Spread
    <2> HIDE DEF H
    <2>4. ASSUME NEW b \in Block
          PROVE  Cardinality({p \in Place : b \in At(p)}) = IF b \in DOMAIN tag THEN 1 ELSE 0
      <3> DEFINE P == {p \in Place : b \in At(p)}
      <3>1. CASE b \in DOMAIN tag
        <4>1. PICK p \in Place : b \in H[p]
          BY <2>3, <3>1 DEF Partition
        <4>2. \A q \in Place : b \in H[q] => q = p
          BY <2>3, <4>1 DEF Partition
        <4>3. P = {p}
          BY <2>2, <4>1, <4>2
        <4>4. Cardinality({p}) = 1
          BY FS_Singleton
        <4> QED BY <3>1, <4>3, <4>4
      <3>2. CASE b \notin DOMAIN tag
        <4>1. \A q \in Place : b \notin H[q]
          BY <2>3, <3>2 DEF Partition
        <4>2. P = {}
          BY <2>2, <4>1
        <4> QED BY <3>2, <4>2, FS_EmptySet
      <3> QED BY <3>1, <3>2
    <2> QED BY <2>1, <2>4 DEF OnePlace
  <1> QED BY <1>1, ReserverInductive, PTL

(* A step changes the label of the thread that takes it and no other.      *)
LEMMA MovesOwnPc ==
  ASSUME Calls, NEW t \in Thread, NEW u \in Thread, pc'[t] # pc[t],
         \/ \E r \in Realm : Alloc(u, r)
         \/ \E b \in DOMAIN owner : Free(u, b)
         \/ Exit(u)
         \/ Step(u)
  PROVE  u = t
  <1>1. pc' = pc \/ \E label : Goto(u, label)
    <2>1. ASSUME NEW r \in Realm, Alloc(u, r) PROVE \E label : Goto(u, label)
      BY <2>1 DEF Alloc, Give, DrawAlloc
    <2>2. ASSUME NEW b \in DOMAIN owner, Free(u, b) PROVE pc' = pc \/ \E label : Goto(u, label)
      BY <2>2 DEF Free, DrawFree
    <2>3. ASSUME Exit(u) PROVE \E label : Goto(u, label)
      BY <2>3 DEF Exit
    <2>4. ASSUME AllocAgain(u) \/ Pop(u) \/ TaggedAlloc(u) PROVE \E label : Goto(u, label)
      BY <2>4 DEF AllocAgain, Pop, TaggedAlloc, Give, DrawAlloc
    <2>5. ASSUME Look(u) \/ Lock(u) \/ Drain(u) PROVE pc' = pc \/ \E label : Goto(u, label)
      BY <2>5 DEF Look, Lock, Drain, Advance
    <2>6. ASSUME Push(u) \/ Unmap(u) \/ Spill(u) PROVE \E label : Goto(u, label)
      BY <2>6 DEF Push, Unmap, Spill, Freed, DrawFree
    <2> QED BY <2>1, <2>2, <2>3, <2>4, <2>5, <2>6 DEF Step, Release
  <1> QED BY <1>1 DEF Goto, Calls

(* An allocation that fails has given up all its thread had; and if it was *)
(* left alone no shared stack holds anything, and there is too little left.*)
THEOREM FailureIsTight == Spec => FailsOnlyIfTight
  <1> DEFINE Fail(t) ==
        Failing(t) =>
          /\ \A r \in Realm : maReserver[t][r] = <<>>
          /\ t \in alone =>
               /\ \A r \in Realm, i \in Slot : maaReserver[r][i] = <<>>
               /\ ~Fits(rAlloc[t])
  <1>1. ReserverInv /\ [Next]_vars => [\A t \in Thread : Fail(t)]_vars
    <2> SUFFICES ASSUME ReserverInv, Next, NEW t \in Thread, Failing(t)
                 PROVE  /\ \A r \in Realm : maReserver[t][r] = <<>>
                        /\ t \in alone =>
                             /\ \A r \in Realm, i \in Slot : maaReserver[r][i] = <<>>
                             /\ ~Fits(rAlloc[t])
      OBVIOUS
    <2>1. pc[t] = "tagged" /\ pc'[t] = "idle" /\ owner' = owner
      BY DEF Failing
    <2>2. Calls /\ Blocks /\ Spread /\ GivenUp /\ Passed
      BY DEF ReserverInv
    <2>3. TaggedAlloc(t)
      <3>1. PICK u \in Thread :
              \/ \E r \in Realm : Alloc(u, r)
              \/ \E b \in DOMAIN owner : Free(u, b)
              \/ Exit(u)
              \/ Step(u)
        BY DEF Next
      <3>2. u = t
        BY <2>1, <2>2, <3>1, MovesOwnPc
      <3>3. Step(t)
        BY <2>1, <3>1, <3>2 DEF Alloc, Free, Exit
      <3> QED BY <2>1, <3>3
            DEF Step, Release, AllocAgain, Pop, Look, Lock, Drain, Push, Unmap, Spill
    <2>4. ~Fits(rAlloc[t])
      <3>1. SUFFICES ASSUME Fits(rAlloc[t]) PROVE FALSE
        OBVIOUS
      <3>2. Fresh \in Block /\ Fresh \notin DOMAIN tag
        BY <2>2, <3>1, FreshIsNew DEF Fits
      <3>3. Fresh \in DOMAIN owner'
        BY <2>3, <3>1 DEF TaggedAlloc, Give
      <3>4. DOMAIN owner \subseteq DOMAIN tag
        BY <2>2, WhereHeld DEF Spread
      <3> QED BY <2>1, <3>2, <3>3, <3>4
    <2>5. nTry[t] = 4
      <3>1. nTry[t] \in 1 .. 4 /\ pc \in [Thread -> Label]
        BY <2>1, <2>2 DEF Calls, At1
      <3>2. pc'[t] = AfterFailure(nTry[t])
        BY <2>3, <2>4, <3>1 DEF TaggedAlloc, Goto
      <3> QED BY <2>1, <3>1, <3>2 DEF AfterFailure
    <2>6. \A r \in Realm : maReserver[t][r] = <<>>
      BY <2>2, <2>5 DEF GivenUp, Spilled
    <2>7. ASSUME t \in alone, NEW r \in Realm, NEW i \in Slot PROVE maaReserver[r][i] = <<>>
      <3>1. Through(t) = cnRealm * mnRevolver
        BY <2>5 DEF Through
      <3>2. r * mnRevolver + i < Through(t)
        BY <3>1, BeforeEnd
      <3> QED BY <3>2, <2>2, <2>7 DEF Passed
    <2> QED BY <2>4, <2>6, <2>7
  <1> QED BY <1>1, ReserverInductive, PTL DEF Spec, FailsOnlyIfTight

=============================================================================
