-------------------------- MODULE GlobalHeap_proofs --------------------------
(***************************************************************************)
(* Proofs about GlobalHeap, for every size of the area, set of requests    *)
(* and set of threads.  Every operator on heaps has a lemma on what it     *)
(* makes of the parts of the invariant; these parts are about the fields   *)
(* of a heap, so that they can be stated of the sizes Free has in mind     *)
(* before it writes them.                                                  *)
(***************************************************************************)
EXTENDS GlobalHeap, TLAPS, FiniteSetTheorems, SequenceTheorems,
        WellFoundedInduction

Area == 0 .. csHeap - 1

(* A heap has these fields.                                                *)
Shape(h) == h = [order |-> h.order, size |-> h.size, on |-> h.on,
                 list |-> h.list, mask |-> h.mask]

(* The nodes tile the area, in the order of the order list.                *)
Chain(order, size) ==
  LET N == DOMAIN size IN
  /\ N \subseteq Area /\ 0 \in N
  /\ size \in [N -> Nat]
  /\ order \in [N -> [pPrev : N \cup {NULL}, pNext : N \cup {NULL}]]
  /\ order[0].pPrev = NULL
  /\ \A n \in N : n # 0 => order[n].pPrev # NULL /\ order[order[n].pPrev].pNext = n
  /\ \A n \in N :
       /\ n + 1 + size[n] <= csHeap
       /\ order[n].pNext = IF n + 1 + size[n] = csHeap THEN NULL ELSE n + 1 + size[n]
       /\ order[n].pNext # NULL => order[order[n].pNext].pPrev = n
  /\ \A n, m \in N : n < m => n + 1 + size[n] <= m

(* The lists hold the free nodes, each on its own list and once.           *)
Listed(N, on, list) ==
  /\ on \in [N -> Class \cup {NULL}]
  /\ list \in [Class -> Seq(Area)]
  /\ \A b \in Class : IsInjective(list[b]) /\ Range(list[b]) = {n \in N : on[n] = b}

(* The mask marks the lists that are not empty, and perhaps list b.        *)
Masked(list, mask, b) ==
  /\ mask \subseteq Class
  /\ \A c \in Class : list[c] # <<>> => c \in mask
  /\ \A c \in mask : c # b => list[c] # <<>>

(* A free node is on the list of its size.                                 *)
Sorted(on, size) == \A n \in DOMAIN size : on[n] # NULL => on[n] = Lower(size[n])

(* No two neighbours are free.                                             *)
Apart(order, on) ==
  \A n \in DOMAIN order : on[n] # NULL /\ order[n].pNext # NULL => on[order[n].pNext] = NULL

Good(h) ==
  /\ Shape(h)
  /\ Chain(h.order, h.size)
  /\ Listed(DOMAIN h.size, h.on, h.list)
  /\ Masked(h.list, h.mask, NULL)
  /\ Sorted(h.on, h.size)
  /\ Apart(h.order, h.on)

(* The nodes of a heap that are not free.                                  *)
Held(h) == {n \in DOMAIN h.size : h.on[n] = NULL}

-----------------------------------------------------------------------------
(* What the assumptions say of the constants.                              *)
LEMMA Constants ==
  /\ csHeap \in Nat \ {0} /\ Request \subseteq 1 .. csHeap
  /\ cnFree \in Nat \ {0}
  /\ NULL \notin Int /\ NULL \notin Area /\ NULL \notin Class
  /\ 0 \in Area /\ Area \subseteq Int
  BY HeapAssumption DEF Area, Class

(* A set of natural numbers that is not empty has a minimum.               *)
LEMMA MinIsIn ==
  ASSUME NEW S, S \subseteq Nat, S # {}
  PROVE  Min(S) \in S /\ \A y \in S : Min(S) <= y
  <1>1. PICK x \in S : \A y \in S : ~(<<y, x>> \in OpToRel(<, Nat))
    BY NatLessThanWellFounded, WFMin
  <1>2. ASSUME NEW y \in S PROVE x <= y
    <2>1. x \in Nat /\ y \in Nat
      OBVIOUS
    <2>2. ~(y < x)
      BY <1>1, <2>1 DEF OpToRel
    <2> QED BY <2>1, <2>2
  <1> QED BY <1>2 DEF Min

(* The recursion of bit, up to n; it defines a function: the least n up    *)
(* to which there were none would have one from n - 1.                     *)
Doubling(f, n) ==
  /\ f \in [0 .. n -> Nat]
  /\ \A k \in 0 .. n : f[k] = IF k = 0 THEN 1 ELSE 2 * f[k - 1]

LEMMA DoublingExists == \A n \in Nat : \E f : Doubling(f, n)
  <1> DEFINE S == {n \in Nat : ~\E f : Doubling(f, n)}
  <1> SUFFICES ASSUME S # {} PROVE FALSE
    OBVIOUS
  <1> DEFINE n == Min(S)
  <1>1. S \subseteq Nat
    OBVIOUS
  <1> HIDE DEF S
  <1>2. n \in S /\ \A m \in S : n <= m
    BY <1>1, MinIsIn
  <1> HIDE DEF n
  <1>3. n \in Nat /\ ~\E f : Doubling(f, n)
    BY <1>2 DEF S
  <1>4. CASE n = 0
    <2> DEFINE f == [k \in 0 .. 0 |-> 1]
    <2>1. f \in [0 .. 0 -> Nat] /\ \A k \in 0 .. 0 : k = 0 /\ f[k] = 1
      OBVIOUS
    <2>2. Doubling(f, 0)
      BY <2>1 DEF Doubling
    <2> QED BY <1>3, <1>4, <2>2
  <1>5. CASE n # 0
    <2>1. n - 1 \in Nat /\ n - 1 \notin S
      BY <1>2, <1>3, <1>5
    <2>2. PICK f : Doubling(f, n - 1)
      BY <2>1 DEF S
    <2> DEFINE g == [k \in 0 .. n |-> IF k = n THEN 2 * f[n - 1] ELSE f[k]]
    <2>3. f \in [0 .. n - 1 -> Nat] /\ \A k \in 0 .. n - 1 : f[k] = IF k = 0 THEN 1 ELSE 2 * f[k - 1]
      BY <2>2 DEF Doubling
    <2>4. f[n - 1] \in Nat
      BY <2>1, <2>3
    <2>5. g \in [0 .. n -> Nat]
      BY <1>3, <2>3, <2>4
    <2>6. ASSUME NEW k \in 0 .. n PROVE g[k] = IF k = 0 THEN 1 ELSE 2 * g[k - 1]
      <3>1. CASE k = n
        <4>1. n - 1 \in 0 .. n /\ n - 1 # n
          BY <1>3, <1>5
        <4>2. g[n - 1] = f[n - 1] /\ g[n] = 2 * f[n - 1]
          BY <4>1, <1>3
        <4> QED BY <3>1, <4>2, <1>5
      <3>2. CASE k # n
        <4>1. k \in 0 .. n - 1 /\ g[k] = f[k]
          BY <3>2, <1>3
        <4>2. k # 0 => k - 1 \in 0 .. n /\ k - 1 # n /\ g[k - 1] = f[k - 1]
          BY <4>1, <1>3
        <4> QED BY <4>1, <4>2, <2>3
      <3> QED BY <3>1, <3>2
    <2>7. Doubling(g, n)
      BY <2>5, <2>6 DEF Doubling
    <2> QED BY <1>3, <2>7
  <1> QED BY <1>4, <1>5

(* Hence bit is what its definition says.                                  *)
LEMMA BitRec ==
  \A k \in 0 .. cnFree : bit[k] = IF k = 0 THEN 1 ELSE 2 * bit[k - 1]
  <1>1. cnFree \in Nat
    BY HeapAssumption
  <1>2. PICK f : Doubling(f, cnFree)
    BY <1>1, DoublingExists
  <1>3. f = [k \in 0 .. cnFree |-> IF k = 0 THEN 1 ELSE 2 * f[k - 1]]
    BY <1>2 DEF Doubling
  <1>4. bit = [k \in 0 .. cnFree |-> IF k = 0 THEN 1 ELSE 2 * bit[k - 1]]
    BY <1>3 DEF bit
  <1> QED BY <1>4

(* Every bit is a positive number.                                         *)
LEMMA BitType == \A k \in 0 .. cnFree : bit[k] \in Nat /\ bit[k] >= 1
  <1> DEFINE S == {k \in 0 .. cnFree : ~(bit[k] \in Nat /\ bit[k] >= 1)}
  <1> SUFFICES ASSUME S # {} PROVE FALSE
    OBVIOUS
  <1> DEFINE n == Min(S)
  <1>1. S \subseteq Nat /\ cnFree \in Nat
    BY HeapAssumption
  <1> HIDE DEF S
  <1>2. n \in S /\ \A m \in S : n <= m
    BY <1>1, MinIsIn
  <1> HIDE DEF n
  <1>3. n \in 0 .. cnFree /\ ~(bit[n] \in Nat /\ bit[n] >= 1)
    BY <1>2 DEF S
  <1>4. n # 0
    BY <1>3, BitRec
  <1>5. n - 1 \in 0 .. cnFree /\ n - 1 \notin S
    BY <1>1, <1>2, <1>3, <1>4
  <1>6. bit[n - 1] \in Nat /\ bit[n - 1] >= 1
    BY <1>5 DEF S
  <1>7. bit[n] = 2 * bit[n - 1]
    BY <1>3, <1>4, BitRec
  <1> QED BY <1>3, <1>6, <1>7

(* A later bit is twice an earlier one at least.                           *)
LEMMA BitGrows ==
  ASSUME NEW k \in 0 .. cnFree
  PROVE  \A l \in 0 .. cnFree : k < l => 2 * bit[k] <= bit[l]
  <1> DEFINE S == {l \in 0 .. cnFree : k < l /\ ~(2 * bit[k] <= bit[l])}
  <1> SUFFICES ASSUME S # {} PROVE FALSE
    OBVIOUS
  <1> DEFINE n == Min(S)
  <1>1. S \subseteq Nat /\ cnFree \in Nat
    BY HeapAssumption
  <1> HIDE DEF S
  <1>2. n \in S /\ \A m \in S : n <= m
    BY <1>1, MinIsIn
  <1> HIDE DEF n
  <1>3. n \in 0 .. cnFree /\ k < n /\ ~(2 * bit[k] <= bit[n])
    BY <1>2 DEF S
  <1>4. n - 1 \in 0 .. cnFree /\ n - 1 \notin S /\ n # 0
    BY <1>1, <1>2, <1>3
  <1>5. bit[n] = 2 * bit[n - 1]
    BY <1>3, <1>4, BitRec
  <1>6. bit[k] \in Nat /\ bit[n - 1] \in Nat
    BY <1>4, BitType
  <1>7. CASE k = n - 1
    BY <1>3, <1>5, <1>6, <1>7
  <1>8. CASE k # n - 1
    <2>1. k < n - 1
      BY <1>1, <1>3, <1>8
    <2>2. 2 * bit[k] <= bit[n - 1]
      BY <1>4, <2>1 DEF S
    <2> QED BY <1>3, <1>5, <1>6, <2>2
  <1> QED BY <1>7, <1>8

(* The bits that s reaches; Lower counts them.                             *)
Reached(s) == {k \in Class : bit[k] <= s}

(* They are finitely many.                                                 *)
LEMMA ReachedFinite ==
  ASSUME NEW s
  PROVE  /\ IsFiniteSet(Reached(s)) /\ Lower(s) = Cardinality(Reached(s))
         /\ Lower(s) \in Nat /\ Lower(s) <= cnFree
  <1>1. cnFree \in Nat
    BY HeapAssumption
  <1>2. IsFiniteSet(Class) /\ Cardinality(Class) = cnFree
    BY <1>1, FS_Interval DEF Class
  <1>3. Reached(s) \in SUBSET Class
    BY DEF Reached
  <1>4. IsFiniteSet(Reached(s)) /\ Cardinality(Reached(s)) <= cnFree
    BY <1>2, <1>3, FS_Subset
  <1>5. Cardinality(Reached(s)) \in Nat
    BY <1>4, FS_CardinalityType
  <1> QED BY <1>4, <1>5 DEF Lower, Reached

(* The first bit above s, and the one before it.                           *)
LEMMA FirstAbove ==
  ASSUME NEW s \in Nat, s <= csHeap
  PROVE  \E k \in Class : /\ bit[k] > s
                          /\ k # 0 => bit[k - 1] <= s /\ bit[k] = 2 * bit[k - 1]
                          /\ k = 0 => bit[k] = 1
  <1> DEFINE S == {k \in Class : bit[k] > s}
             n == Min(S)
  <1>1. /\ cnFree \in Nat /\ cnFree >= 1 /\ csHeap \in Nat
        /\ cnFree - 1 \in Class /\ bit[cnFree - 1] > csHeap
    BY HeapAssumption DEF Class
  <1>2. bit[cnFree - 1] \in Nat
    BY <1>1, BitType DEF Class
  <1>3. S # {} /\ S \subseteq Nat
    BY <1>1, <1>2 DEF Class
  <1> HIDE DEF S
  <1>4. n \in S /\ \A m \in S : n <= m
    BY <1>3, MinIsIn
  <1> HIDE DEF n
  <1>5. n \in Class /\ bit[n] > s
    BY <1>4 DEF S
  <1>6. ASSUME n # 0 PROVE bit[n - 1] <= s /\ bit[n] = 2 * bit[n - 1]
    <2>1. n - 1 \in Class /\ n - 1 \notin S /\ n \in 0 .. cnFree /\ n - 1 \in 0 .. cnFree
      BY <1>1, <1>4, <1>5, <1>6 DEF Class
    <2>2. bit[n - 1] \in Nat
      BY <2>1, BitType
    <2>3. ~(bit[n - 1] > s)
      BY <2>1 DEF S
    <2> QED BY <2>1, <2>2, <2>3, <1>6, BitRec
  <1>7. n = 0 => bit[n] = 1
    BY <1>1, BitRec
  <1> QED BY <1>5, <1>6, <1>7

(* The class of a size that fits in the area is one of the lists.          *)
LEMMA LowerClass ==
  ASSUME NEW s \in Nat, s <= csHeap
  PROVE  Lower(s) \in Class
  <1>1. PICK k \in Class : bit[k] > s
    BY FirstAbove
  <1>2. cnFree \in Nat /\ cnFree >= 1
    BY HeapAssumption
  <1>3. bit[k] \in Nat
    BY <1>1, <1>2, BitType DEF Class
  <1>4. IsFiniteSet(Class) /\ Cardinality(Class) = cnFree
    BY <1>2, FS_Interval DEF Class
  <1>5. IsFiniteSet(Class \ {k}) /\ Cardinality(Class \ {k}) = cnFree - 1
    BY <1>4, FS_RemoveElement
  <1>6. Reached(s) \in SUBSET (Class \ {k})
    BY <1>1, <1>3 DEF Reached
  <1>7. Cardinality(Reached(s)) <= cnFree - 1
    BY <1>5, <1>6, FS_Subset
  <1> QED BY <1>2, <1>7, ReachedFinite DEF Class

(* A larger size has no smaller class.                                     *)
LEMMA LowerGrows ==
  ASSUME NEW s \in Nat, NEW r \in Nat, s <= r
  PROVE  Lower(s) <= Lower(r)
  <1>1. \A k \in Class : bit[k] \in Nat
    BY BitType, HeapAssumption DEF Class
  <1>2. Reached(s) \in SUBSET Reached(r)
    BY <1>1 DEF Reached
  <1> QED BY <1>2, ReachedFinite, FS_Subset

(* The nodes of the lists from Upper(s) on are large enough for s.         *)
LEMMA UpperEnough ==
  ASSUME NEW s \in 1 .. csHeap, NEW v \in Nat, v <= csHeap, Upper(s) <= Lower(v)
  PROVE  s <= v
  <1> SUFFICES ASSUME v < s PROVE FALSE
    BY HeapAssumption
  <1> DEFINE r == 2 * s - 1
  <1>1. s \in Nat /\ s # 0 /\ r \in Nat
    BY HeapAssumption
  <1>2. \A k \in Class : bit[k] \in Nat /\ k \in Nat
    BY BitType, HeapAssumption DEF Class
  <1>3. PICK k \in Class : /\ bit[k] > v
                           /\ k # 0 => bit[k - 1] <= v /\ bit[k] = 2 * bit[k - 1]
                           /\ k = 0 => bit[k] = 1
    BY FirstAbove
  <1>4. bit[k] <= r
    <2>1. CASE k = 0
      BY <1>1, <1>3, <2>1
    <2>2. CASE k # 0
      <3>1. k - 1 \in Class
        BY <2>2, HeapAssumption DEF Class
      <3>2. bit[k - 1] \in Nat
        BY <1>2, <3>1
      <3> QED BY <1>1, <1>3, <2>2, <3>2
    <2> QED BY <2>1, <2>2
  <1>5. k \in Reached(r) /\ Reached(v) \in SUBSET (Reached(r) \ {k})
    <2>1. v <= r
      BY <1>1
    <2> QED BY <1>2, <1>3, <1>4, <2>1, <1>1 DEF Reached
  <1> HIDE DEF r
  <1>6. /\ IsFiniteSet(Reached(r) \ {k})
        /\ Cardinality(Reached(r) \ {k}) = Cardinality(Reached(r)) - 1
    BY <1>5, ReachedFinite, FS_RemoveElement
  <1>7. Cardinality(Reached(v)) <= Cardinality(Reached(r)) - 1
    BY <1>5, <1>6, FS_Subset
  <1>8. Upper(s) = Lower(r)
    BY <1>1 DEF Upper, r
  <1> QED BY <1>7, <1>8, ReachedFinite

(* Upper is the class of s or the one after it.                            *)
LEMMA UpperNext ==
  ASSUME NEW s \in 1 .. csHeap
  PROVE  Upper(s) \in Nat /\ Upper(s) <= Lower(s) + 1
  <1> DEFINE r == 2 * s - 1
  <1>1. s \in Nat /\ s # 0 /\ s <= csHeap /\ r \in Nat
    BY HeapAssumption
  <1>2. \A k \in Class : bit[k] \in Nat /\ k \in Nat
    BY BitType, HeapAssumption DEF Class
  <1>3. PICK k \in Class : /\ bit[k] > s
                           /\ k # 0 => bit[k - 1] <= s /\ bit[k] = 2 * bit[k - 1]
                           /\ k = 0 => bit[k] = 1
    BY <1>1, FirstAbove
  <1>4. ASSUME NEW l \in Reached(r) PROVE l \in Reached(s) \/ l = k
    <2>1. l \in Class /\ bit[l] <= r /\ bit[l] \in Nat /\ bit[k] \in Nat /\ l \in Nat /\ k \in Nat
      BY <1>2 DEF Reached
    <2>2. k \in 0 .. cnFree /\ l \in 0 .. cnFree
      BY <2>1, HeapAssumption DEF Class
    <2>3. CASE k < l
      <3>1. 2 * bit[k] <= bit[l]
        BY <2>2, <2>3, BitGrows
      <3> QED BY <3>1, <2>1, <1>1, <1>3
    <2>4. CASE l < k
      <3>4. k - 1 \in Class /\ k # 0 /\ k - 1 \in 0 .. cnFree
        BY <2>1, <2>4, HeapAssumption DEF Class
      <3>1. k - 1 \in Class /\ bit[k - 1] \in Nat /\ k # 0 /\ k - 1 \in 0 .. cnFree
        BY <1>2, <3>4
      <3>2. l # k - 1 => 2 * bit[l] <= bit[k - 1]
        BY <2>1, <2>2, <2>4, <3>1, BitGrows
      <3>3. bit[l] <= s
        BY <3>1, <3>2, <2>1, <1>1, <1>3
      <3> QED BY <3>3, <2>1 DEF Reached
    <2> QED BY <2>1, <2>3, <2>4
  <1> HIDE DEF r
  <1>5. Reached(r) \in SUBSET (Reached(s) \cup {k})
    BY <1>4
  <1>6. /\ IsFiniteSet(Reached(s) \cup {k})
        /\ Cardinality(Reached(s) \cup {k}) <= Cardinality(Reached(s)) + 1
    <2>1. IsFiniteSet(Reached(s)) /\ Cardinality(Reached(s)) \in Nat
      BY ReachedFinite
    <2>2. /\ IsFiniteSet(Reached(s) \cup {k})
          /\ \/ Cardinality(Reached(s) \cup {k}) = Cardinality(Reached(s))
             \/ Cardinality(Reached(s) \cup {k}) = Cardinality(Reached(s)) + 1
      BY <2>1, FS_AddElement
    <2> QED BY <2>1, <2>2
  <1>7. Cardinality(Reached(r)) <= Cardinality(Reached(s) \cup {k})
    BY <1>5, <1>6, FS_Subset
  <1>8. Cardinality(Reached(s) \cup {k}) \in Nat
    BY <1>6, FS_CardinalityType
  <1>9. Upper(s) = Lower(r)
    BY <1>1 DEF Upper, r
  <1> QED BY <1>6, <1>7, <1>8, <1>9, ReachedFinite

-----------------------------------------------------------------------------
(* A list from which a node is cut keeps the others, each once.            *)
LEMMA WithoutList ==
  ASSUME NEW list \in Seq(Area), IsInjective(list), NEW n \in Range(list)
  PROVE  /\ Without(list, n) \in Seq(Area)
         /\ IsInjective(Without(list, n))
         /\ Range(Without(list, n)) = Range(list) \ {n}
  <1> DEFINE k == CHOOSE k \in DOMAIN list : list[k] = n
  <1>1. DOMAIN list = 1 .. Len(list) /\ Len(list) \in Nat
    BY LenProperties
  <1>2. k \in DOMAIN list /\ list[k] = n
    BY DEF Range
  <1> DEFINE a == SubSeq(list, 1, k - 1)
             b == SubSeq(list, k + 1, Len(list))
             c == a \o b
  <1>3. Without(list, n) = c
    BY DEF Without, RemoveAt
  <1> HIDE DEF k
  <1>4. \A i \in 1 .. Len(list) : list[i] \in Area
    BY ElementOfSeq
  <1>5. /\ a \in Seq(Area) /\ Len(a) = k - 1
        /\ \A i \in 1 .. k - 1 : a[i] = list[i]
    BY <1>1, <1>2, <1>4, SubSeqProperties
  <1>6. /\ b \in Seq(Area) /\ Len(b) = Len(list) - k
        /\ \A i \in 1 .. Len(list) - k : b[i] = list[k + i]
    BY <1>1, <1>2, <1>4, SubSeqProperties
  <1> HIDE DEF a, b
  <1>7. /\ c \in Seq(Area) /\ Len(c) = Len(list) - 1
        /\ \A i \in 1 .. Len(list) - 1 : c[i] = IF i <= k - 1 THEN a[i] ELSE b[i - (k - 1)]
    <2>1. Len(a) + Len(b) = Len(list) - 1
      BY <1>5, <1>6, <1>1, <1>2
    <2> QED BY <2>1, <1>5, <1>6, ConcatProperties
  <1> HIDE DEF c
  <1>8. \A i \in 1 .. Len(list) - 1 : c[i] = IF i < k THEN list[i] ELSE list[i + 1]
    <2> TAKE i \in 1 .. Len(list) - 1
    <2>1. CASE i < k
      <3>1. i <= k - 1 /\ i \in 1 .. k - 1
        BY <2>1, <1>1, <1>2
      <3> QED BY <3>1, <2>1, <1>5, <1>7
    <2>2. CASE ~(i < k)
      <3>1. ~(i <= k - 1) /\ i - (k - 1) \in 1 .. Len(list) - k /\ k + (i - (k - 1)) = i + 1
        BY <2>2, <1>1, <1>2
      <3>2. b[i - (k - 1)] = list[i + 1]
        BY <3>1, <1>6
      <3> QED BY <3>1, <3>2, <2>2, <1>7
    <2> QED BY <2>1, <2>2
  <1>9. DOMAIN c = 1 .. Len(list) - 1
    BY <1>7, LenProperties
  <1>10. IsInjective(c)
    <2> SUFFICES ASSUME NEW i \in DOMAIN c, NEW j \in DOMAIN c, c[i] = c[j]
                 PROVE  i = j
      BY DEF IsInjective
    <2> DEFINE at(m) == IF m < k THEN m ELSE m + 1
    <2>1. at(i) \in DOMAIN list /\ at(j) \in DOMAIN list
      BY <1>9, <1>1, <1>2
    <2>2. c[i] = list[at(i)] /\ c[j] = list[at(j)]
      BY <1>8, <1>9
    <2>3. at(i) = at(j)
      BY <2>1, <2>2 DEF IsInjective
    <2> QED BY <2>3, <1>9, <1>1, <1>2
  <1>11. \A i \in DOMAIN c : c[i] \in Range(list) \ {n}
    <2> TAKE i \in DOMAIN c
    <2> DEFINE j == IF i < k THEN i ELSE i + 1
    <2>1. j \in DOMAIN list /\ j # k /\ c[i] = list[j]
      BY <1>8, <1>9, <1>1, <1>2
    <2> QED BY <2>1, <1>2 DEF IsInjective, Range
  <1>12. \A j \in DOMAIN list : list[j] # n => \E i \in DOMAIN c : c[i] = list[j]
    <2> SUFFICES ASSUME NEW j \in DOMAIN list, j # k
                 PROVE  \E i \in DOMAIN c : c[i] = list[j]
      BY <1>2
    <2> DEFINE i == IF j < k THEN j ELSE j - 1
    <2>1. i \in DOMAIN c /\ c[i] = list[j]
      BY <1>8, <1>9, <1>1, <1>2
    <2> QED BY <2>1
  <1>13. Range(c) = Range(list) \ {n}
    BY <1>11, <1>12 DEF Range
  <1> QED BY <1>3, <1>7, <1>10, <1>13

(* A list with one more node in front.                                     *)
LEMMA WithList ==
  ASSUME NEW list \in Seq(Area), IsInjective(list), NEW n \in Area, n \notin Range(list)
  PROVE  /\ <<n>> \o list \in Seq(Area)
         /\ IsInjective(<<n>> \o list)
         /\ Range(<<n>> \o list) = Range(list) \cup {n}
         /\ <<n>> \o list # <<>>
  <1> DEFINE c == <<n>> \o list
  <1>1. DOMAIN list = 1 .. Len(list) /\ Len(list) \in Nat
    BY LenProperties
  <1>2. <<n>> \in Seq(Area) /\ Len(<<n>>) = 1 /\ <<n>>[1] = n
    OBVIOUS
  <1>3. /\ c \in Seq(Area) /\ Len(c) = Len(list) + 1
        /\ \A i \in 1 .. Len(list) + 1 : c[i] = IF i <= 1 THEN <<n>>[i] ELSE list[i - 1]
    BY <1>1, <1>2, ConcatProperties
  <1>4. DOMAIN c = 1 .. Len(list) + 1
    BY <1>3, LenProperties
  <1> HIDE DEF c
  <1>5. \A i \in DOMAIN c : c[i] = IF i = 1 THEN n ELSE list[i - 1]
    BY <1>2, <1>3, <1>4, <1>1
  <1>6. IsInjective(c)
    BY <1>1, <1>4, <1>5 DEF IsInjective, Range
  <1>7. \A i \in DOMAIN c : c[i] \in Range(list) \cup {n}
    BY <1>1, <1>4, <1>5 DEF Range
  <1>8. n \in Range(c)
    BY <1>1, <1>4, <1>5 DEF Range
  <1>9. \A j \in DOMAIN list : j + 1 \in DOMAIN c /\ c[j + 1] = list[j]
    BY <1>1, <1>4, <1>5
  <1>10. Range(c) = Range(list) \cup {n}
    BY <1>7, <1>8, <1>9 DEF Range
  <1>11. c # <<>>
    BY <1>3, <1>1
  <1> QED BY <1>3, <1>6, <1>10, <1>11 DEF c

-----------------------------------------------------------------------------
(* The lists, once a node is cut from the one it is on.                    *)
LEMMA ListedCut ==
  ASSUME NEW N \in SUBSET Area, NEW on, NEW list, NEW n \in N,
         Listed(N, on, list), on[n] # NULL
  PROVE  /\ on[n] \in Class
         /\ Listed(N, [on EXCEPT ![n] = NULL],
                      [list EXCEPT ![on[n]] = Without(list[on[n]], n)])
  <1> DEFINE b == on[n]
             l == Without(list[b], n)
             on1 == [on EXCEPT ![n] = NULL]
             list1 == [list EXCEPT ![b] = l]
  <1>1. on \in [N -> Class \cup {NULL}] /\ list \in [Class -> Seq(Area)]
    BY DEF Listed
  <1>2. b \in Class /\ list[b] \in Seq(Area)
    BY <1>1
  <1>3. \A c \in Class : IsInjective(list[c]) /\ Range(list[c]) = {m \in N : on[m] = c}
    BY DEF Listed
  <1>4. n \in Range(list[b])
    BY <1>2, <1>3
  <1>5. /\ l \in Seq(Area) /\ IsInjective(l)
        /\ Range(l) = Range(list[b]) \ {n}
    BY <1>2, <1>3, <1>4, WithoutList
  <1> HIDE DEF l
  <1>6. on1 \in [N -> Class \cup {NULL}] /\ list1 \in [Class -> Seq(Area)]
    BY <1>1, <1>2, <1>5
  <1>7. \A m \in N : on1[m] = IF m = n THEN NULL ELSE on[m]
    BY <1>1
  <1>8. \A c \in Class : list1[c] = IF c = b THEN l ELSE list[c]
    BY <1>1
  <1> HIDE DEF on1, list1
  <1>9. ASSUME NEW c \in Class
        PROVE  IsInjective(list1[c]) /\ Range(list1[c]) = {m \in N : on1[m] = c}
    <2>1. CASE c = b
      <3>1. {m \in N : on1[m] = c} = {m \in N : on[m] = c} \ {n}
        BY <1>7, <2>1, Constants
      <3> QED BY <2>1, <3>1, <1>3, <1>5, <1>8
    <2>2. CASE c # b
      <3>1. {m \in N : on1[m] = c} = {m \in N : on[m] = c}
        BY <1>7, <2>2, Constants
      <3> QED BY <2>2, <3>1, <1>3, <1>8
    <2> QED BY <2>1, <2>2
  <1>10. Listed(N, on1, list1)
    BY <1>6, <1>9 DEF Listed
  <1> QED BY <1>2, <1>10 DEF on1, list1, l

(* The lists, once a node that was on none is put in front of list b.      *)
LEMMA ListedPush ==
  ASSUME NEW N \in SUBSET Area, NEW on, NEW list, NEW n \in N, NEW b \in Class,
         Listed(N, on, list), on[n] = NULL
  PROVE  /\ Listed(N, [on EXCEPT ![n] = b], [list EXCEPT ![b] = <<n>> \o list[b]])
         /\ <<n>> \o list[b] # <<>>
  <1> DEFINE l == <<n>> \o list[b]
             on1 == [on EXCEPT ![n] = b]
             list1 == [list EXCEPT ![b] = l]
  <1>1. on \in [N -> Class \cup {NULL}] /\ list \in [Class -> Seq(Area)]
    BY DEF Listed
  <1>2. list[b] \in Seq(Area) /\ n \in Area
    BY <1>1
  <1>3. \A c \in Class : IsInjective(list[c]) /\ Range(list[c]) = {m \in N : on[m] = c}
    BY DEF Listed
  <1>4. n \notin Range(list[b])
    BY <1>3, Constants
  <1>5. /\ l \in Seq(Area) /\ IsInjective(l) /\ l # <<>>
        /\ Range(l) = Range(list[b]) \cup {n}
    BY <1>2, <1>3, <1>4, WithList
  <1> HIDE DEF l
  <1>6. on1 \in [N -> Class \cup {NULL}] /\ list1 \in [Class -> Seq(Area)]
    BY <1>1, <1>5
  <1>7. \A m \in N : on1[m] = IF m = n THEN b ELSE on[m]
    BY <1>1
  <1>8. \A c \in Class : list1[c] = IF c = b THEN l ELSE list[c]
    BY <1>1
  <1> HIDE DEF on1, list1
  <1>9. ASSUME NEW c \in Class
        PROVE  IsInjective(list1[c]) /\ Range(list1[c]) = {m \in N : on1[m] = c}
    <2>1. CASE c = b
      <3>1. {m \in N : on1[m] = c} = {m \in N : on[m] = c} \cup {n}
        BY <1>7, <2>1
      <3> QED BY <2>1, <3>1, <1>3, <1>5, <1>8
    <2>2. CASE c # b
      <3>1. {m \in N : on1[m] = c} = {m \in N : on[m] = c}
        BY <1>7, <2>2, Constants
      <3> QED BY <2>2, <3>1, <1>3, <1>8
    <2> QED BY <2>1, <2>2
  <1>10. Listed(N, on1, list1)
    BY <1>6, <1>9 DEF Listed
  <1> QED BY <1>5, <1>10 DEF on1, list1, l

(* The lists, once a node that is on none is no more.                      *)
LEMMA ListedDrop ==
  ASSUME NEW N, NEW on, NEW list, NEW n, Listed(N, on, list), on[n] = NULL
  PROVE  Listed(N \ {n}, [m \in N \ {n} |-> on[m]], list)
  <1> DEFINE on1 == [m \in N \ {n} |-> on[m]]
  <1>1. on \in [N -> Class \cup {NULL}]
    BY DEF Listed
  <1>2. on1 \in [N \ {n} -> Class \cup {NULL}]
    BY <1>1
  <1>3. \A b \in Class : {m \in N \ {n} : on1[m] = b} = {m \in N : on[m] = b}
    BY Constants
  <1> QED BY <1>2, <1>3 DEF Listed

(* The lists, once there is a new node, which is on none.                  *)
LEMMA ListedAdd ==
  ASSUME NEW N, NEW on, NEW list, NEW n, Listed(N, on, list), n \notin N
  PROVE  Listed(N \cup {n}, [m \in N \cup {n} |-> IF m = n THEN NULL ELSE on[m]], list)
  <1> DEFINE on1 == [m \in N \cup {n} |-> IF m = n THEN NULL ELSE on[m]]
  <1>1. on \in [N -> Class \cup {NULL}]
    BY DEF Listed
  <1>2. on1 \in [N \cup {n} -> Class \cup {NULL}]
    BY <1>1
  <1>3. \A b \in Class : {m \in N \cup {n} : on1[m] = b} = {m \in N : on[m] = b}
    BY Constants
  <1> QED BY <1>2, <1>3 DEF Listed

-----------------------------------------------------------------------------
(* A node, its end and its neighbours.                                     *)
Placed(order, size, n) ==
  /\ n \in Nat /\ n < csHeap /\ size[n] \in Nat
  /\ order[n] = [pPrev |-> order[n].pPrev, pNext |-> order[n].pNext]
  /\ order[n].pPrev \in DOMAIN size \cup {NULL}
  /\ order[n].pNext \in DOMAIN size \cup {NULL}
  /\ n + 1 + size[n] <= csHeap
  /\ order[n].pNext = IF n + 1 + size[n] = csHeap THEN NULL ELSE n + 1 + size[n]
  /\ order[n].pNext # NULL => order[order[n].pNext].pPrev = n
  /\ n # 0 => order[n].pPrev # NULL /\ order[order[n].pPrev].pNext = n

(* What a tiling says of its nodes.                                        *)
LEMMA ChainNode ==
  ASSUME NEW order, NEW size, Chain(order, size), NEW n \in DOMAIN size
  PROVE  Placed(order, size, n)
  <1> DEFINE N == DOMAIN size
  <1>1. n \in Area /\ csHeap \in Nat
    BY Constants DEF Chain
  <1>2. size[n] \in Nat
    BY DEF Chain
  <1>3. order[n] \in [pPrev : N \cup {NULL}, pNext : N \cup {NULL}]
    <2>1. order \in [N -> [pPrev : N \cup {NULL}, pNext : N \cup {NULL}]]
      BY DEF Chain
    <2> QED BY <2>1
  <1>4. /\ order[n] = [pPrev |-> order[n].pPrev, pNext |-> order[n].pNext]
        /\ order[n].pPrev \in N \cup {NULL}
        /\ order[n].pNext \in N \cup {NULL}
    BY <1>3
  <1>5. /\ n + 1 + size[n] <= csHeap
        /\ order[n].pNext = IF n + 1 + size[n] = csHeap THEN NULL ELSE n + 1 + size[n]
        /\ order[n].pNext # NULL => order[order[n].pNext].pPrev = n
        /\ n # 0 => order[n].pPrev # NULL /\ order[order[n].pPrev].pNext = n
    BY DEF Chain
  <1>6. n \in Nat /\ n < csHeap
    BY <1>1 DEF Area
  <1> QED BY <1>2, <1>4, <1>5, <1>6 DEF Placed

(* The order list closed over x, and the sizes once n has swallowed x.     *)
Closed(order, size, x) ==
  [m \in DOMAIN size \ {x} |->
     [pPrev |-> IF m = order[x].pNext THEN order[x].pPrev ELSE order[m].pPrev,
      pNext |-> IF m = order[x].pPrev THEN order[x].pNext ELSE order[m].pNext]]

Joined(size, n, x) ==
  [m \in DOMAIN size \ {x} |-> IF m = n THEN size[n] + 1 + size[x] ELSE size[m]]

(* The order list with x behind n, and the sizes when n keeps s units.     *)
Opened(order, size, x, n) ==
  [m \in DOMAIN size \cup {x} |->
     CASE m = x -> [pPrev |-> n, pNext |-> order[n].pNext]
       [] m # x -> [pPrev |-> IF m = order[n].pNext THEN x ELSE order[m].pPrev,
                    pNext |-> IF m = n THEN x ELSE order[m].pNext]]

Parted(size, n, s, x) ==
  [m \in DOMAIN size \cup {x} |->
     IF m = x THEN size[n] - s - 1 ELSE IF m = n THEN s ELSE size[m]]

(* The tiling, once a node has swallowed the next.                         *)
LEMMA ChainJoin ==
  ASSUME NEW order, NEW size, Chain(order, size), NEW n \in DOMAIN size,
         NEW x, x = order[n].pNext, x # NULL,
         NEW order1, NEW size1,
         order1 = Closed(order, size, x), size1 = Joined(size, n, x)
  PROVE  /\ Chain(order1, size1)
         /\ x \in DOMAIN size /\ x # n /\ x # 0 /\ order[x].pPrev = n
         /\ order1[n].pNext = order[x].pNext
         /\ \A m \in DOMAIN size \ {x} : m # n => order1[m].pNext = order[m].pNext
  <1> USE DEF Closed, Joined
  <1> DEFINE N == DOMAIN size
             M == N \ {x}
             y == order[x].pNext
  <1>0. \A m \in N : Placed(order, size, m)
    BY ChainNode
  <1>1. /\ x \in N /\ x = n + 1 + size[n] /\ order[x].pPrev = n
        /\ n \in Nat /\ size[n] \in Nat /\ x \in Nat /\ x > n /\ x > 0
    <2>1. Placed(order, size, n)
      BY <1>0
    <2>2. /\ x \in N /\ x = n + 1 + size[n] /\ order[x].pPrev = n
          /\ n \in Nat /\ size[n] \in Nat
      BY <2>1 DEF Placed
    <2> QED BY <2>2
  <1>2. /\ y \in N \cup {NULL} /\ size[x] \in Nat
        /\ y = IF x + 1 + size[x] = csHeap THEN NULL ELSE x + 1 + size[x]
        /\ x + 1 + size[x] <= csHeap
        /\ y # NULL => order[y].pPrev = x /\ y > x
    <2>1. Placed(order, size, x)
      BY <1>0, <1>1
    <2>2. /\ y \in N \cup {NULL} /\ size[x] \in Nat
          /\ y = IF x + 1 + size[x] = csHeap THEN NULL ELSE x + 1 + size[x]
          /\ x + 1 + size[x] <= csHeap
          /\ y # NULL => order[y].pPrev = x
      BY <2>1 DEF Placed
    <2> HIDE DEF y
    <2> QED BY <2>2, <1>1
  <1>3. \A m \in M :
          /\ order1[m].pPrev = IF m = y THEN n ELSE order[m].pPrev
          /\ order1[m].pNext = IF m = n THEN y ELSE order[m].pNext
          /\ order1[m] = [pPrev |-> order1[m].pPrev, pNext |-> order1[m].pNext]
    BY <1>1
  <1>4. \A m \in M : size1[m] = IF m = n THEN size[n] + 1 + size[x] ELSE size[m]
    OBVIOUS
  <1>5. DOMAIN size1 = M /\ DOMAIN order1 = M /\ 0 \in M /\ n \in M /\ M \subseteq Area
    BY <1>1 DEF Chain
  <1>6. size1 \in [M -> Nat]
    <2>1. \A m \in N : size[m] \in Nat
      BY <1>0 DEF Placed
    <2> QED BY <2>1, <1>1, <1>2
  <1> HIDE DEF y
  <1>7. ASSUME NEW m \in M
        PROVE  /\ order1[m] \in [pPrev : M \cup {NULL}, pNext : M \cup {NULL}]
               /\ m # 0 => order1[m].pPrev # NULL /\ order1[order1[m].pPrev].pNext = m
    <2>1. /\ order[m].pPrev \in N \cup {NULL} /\ order[m].pNext \in N \cup {NULL}
          /\ order[m].pNext # NULL => order[order[m].pNext].pPrev = m
          /\ m # 0 => order[m].pPrev # NULL /\ order[order[m].pPrev].pNext = m
      BY <1>0 DEF Placed
    <2>2. y \in M \cup {NULL}
      BY <1>1, <1>2
    <2>3. m # y => order[m].pPrev \in M \cup {NULL}
      <3>1. m # y /\ order[m].pPrev = x => m = 0
        BY <2>1 DEF y
      <3>2. order[0].pPrev = NULL
        BY DEF Chain
      <3> QED BY <2>1, <3>1, <3>2
    <2>4. m # n => order[m].pNext \in M \cup {NULL}
      BY <1>1, <2>1
    <2>5. order1[m].pPrev \in M \cup {NULL} /\ order1[m].pNext \in M \cup {NULL}
      <3>1. /\ order1[m].pPrev = IF m = y THEN n ELSE order[m].pPrev
            /\ order1[m].pNext = IF m = n THEN y ELSE order[m].pNext
        BY <1>3
      <3> QED BY <3>1, <1>5, <2>2, <2>3, <2>4
    <2>6. order1[m] \in [pPrev : M \cup {NULL}, pNext : M \cup {NULL}]
      BY <1>3, <2>5
    <2>7. CASE m = y
      <3>1. order1[m].pPrev = n /\ order1[n].pNext = y
        BY <1>3, <1>5, <2>7
      <3>2. n # NULL
        BY <1>1, Constants
      <3> QED BY <2>6, <2>7, <3>1, <3>2
    <2>8. CASE m # y /\ m # 0
      <3> DEFINE q == order[m].pPrev
      <3>1. order1[m].pPrev = q /\ q # NULL /\ order[q].pNext = m /\ q \in M
        BY <1>3, <2>1, <2>3, <2>8
      <3>2. q # n
        BY <3>1
      <3>3. order1[q].pNext = m
        BY <1>3, <3>1, <3>2
      <3> QED BY <2>6, <3>1, <3>3
    <2> QED BY <2>6, <2>7, <2>8
  <1>8. order1[0].pPrev = NULL
    <2>1. order[0].pPrev = NULL
      BY DEF Chain
    <2>2. y # 0
      BY <1>1, <1>2, Constants
    <2> QED BY <1>3, <1>5, <2>1, <2>2
  <1>9. ASSUME NEW m \in M
        PROVE  /\ m + 1 + size1[m] <= csHeap
               /\ order1[m].pNext = IF m + 1 + size1[m] = csHeap THEN NULL ELSE m + 1 + size1[m]
               /\ order1[m].pNext # NULL => order1[order1[m].pNext].pPrev = m
    <2>1. CASE m = n
      <3>1. m + 1 + size1[m] = x + 1 + size[x]
        BY <1>1, <1>2, <1>4, <2>1
      <3>2. order1[m].pNext = y
        BY <1>3, <2>1
      <3>3. y # NULL => y \in M
        BY <1>1, <1>2
      <3>4. y # NULL => order1[y].pPrev = m
        BY <1>3, <3>3, <2>1
      <3> QED BY <1>2, <3>1, <3>2, <3>4
    <2>2. CASE m # n
      <3>1. size1[m] = size[m] /\ order1[m].pNext = order[m].pNext
        BY <1>3, <1>4, <2>2
      <3>2. /\ m + 1 + size[m] <= csHeap
            /\ order[m].pNext = IF m + 1 + size[m] = csHeap THEN NULL ELSE m + 1 + size[m]
            /\ order[m].pNext # NULL => order[order[m].pNext].pPrev = m
            /\ order[m].pNext \in N \cup {NULL}
        BY <1>0 DEF Placed
      <3>3. order[m].pNext # NULL => order[m].pNext \in M /\ order[m].pNext # y
        BY <3>2, <2>2, <1>1, <1>2
      <3>4. order[m].pNext # NULL => order1[order[m].pNext].pPrev = m
        <4> SUFFICES ASSUME order[m].pNext # NULL
                     PROVE  order1[order[m].pNext].pPrev = m
          OBVIOUS
        <4> DEFINE k == order[m].pNext
        <4>1. k \in M /\ k # y /\ order[k].pPrev = m
          BY <3>2, <3>3
        <4> HIDE DEF k
        <4>2. order1[k].pPrev = m
          BY <1>3, <4>1
        <4> QED BY <4>2 DEF k
      <3> QED BY <3>1, <3>2, <3>4
    <2> QED BY <2>1, <2>2
  <1>10. ASSUME NEW a \in M, NEW b \in M, a < b
         PROVE  a + 1 + size1[a] <= b
    <2>1. \A c, d \in N : c < d => c + 1 + size[c] <= d
      BY DEF Chain
    <2>2. CASE a = n
      <3>1. x <= b
        BY <2>1, <2>2, <1>1, <1>10
      <3>2. b \in Nat /\ x # b
        BY <1>0 DEF Placed
      <3>3. x + 1 + size[x] <= b
        BY <2>1, <3>1, <3>2, <1>1
      <3> QED BY <3>3, <2>2, <1>1, <1>2, <1>4
    <2>3. CASE a # n
      BY <2>1, <2>3, <1>4, <1>10
    <2> QED BY <2>2, <2>3
  <1>11. order1 \in [M -> [pPrev : M \cup {NULL}, pNext : M \cup {NULL}]]
    BY <1>7
  <1>12. Chain(order1, size1)
    BY <1>5, <1>6, <1>7, <1>8, <1>9, <1>10, <1>11 DEF Chain
  <1> QED BY <1>1, <1>3, <1>5, <1>12 DEF y

(* The tiling, once a node is split behind its first s units of data.      *)
LEMMA ChainSplit ==
  ASSUME NEW order, NEW size, Chain(order, size), NEW n \in DOMAIN size,
         NEW s \in Nat, s + 1 <= size[n],
         NEW x, x = n + 1 + s,
         NEW order1, NEW size1,
         order1 = Opened(order, size, x, n), size1 = Parted(size, n, s, x)
  PROVE  /\ Chain(order1, size1)
         /\ x \notin DOMAIN size /\ x \in Area
         /\ order1[n].pNext = x /\ order1[x].pNext = order[n].pNext
         /\ \A m \in DOMAIN size : m # n => order1[m].pNext = order[m].pNext
  <1> USE DEF Opened, Parted
  <1> DEFINE N == DOMAIN size
             M == N \cup {x}
             y == order[n].pNext
  <1>0. \A m \in N : Placed(order, size, m)
    BY ChainNode
  <1>1. \A a, b \in N : a < b => a + 1 + size[a] <= b
    BY DEF Chain
  <1>2. /\ n \in Nat /\ size[n] \in Nat /\ n + 1 + size[n] <= csHeap /\ csHeap \in Nat
        /\ y \in N \cup {NULL}
        /\ y = IF n + 1 + size[n] = csHeap THEN NULL ELSE n + 1 + size[n]
        /\ y # NULL => order[y].pPrev = n
    <2>1. Placed(order, size, n)
      BY <1>0
    <2> QED BY <2>1, Constants DEF Placed
  <1>3. x \in Nat /\ x > n /\ x < n + 1 + size[n] /\ x \in Area /\ x # n /\ x > 0
    BY <1>2 DEF Area
  <1>4. x \notin N
    <2>1. x \in N => n + 1 + size[n] <= x
      BY <1>1, <1>3
    <2> QED BY <2>1, <1>2, <1>3
  <1>5. /\ order1[x] = [pPrev |-> n, pNext |-> y]
        /\ order1[x].pPrev = n /\ order1[x].pNext = y
    OBVIOUS
  <1>6. \A m \in N :
          /\ order1[m].pPrev = IF m = y THEN x ELSE order[m].pPrev
          /\ order1[m].pNext = IF m = n THEN x ELSE order[m].pNext
          /\ order1[m] = [pPrev |-> order1[m].pPrev, pNext |-> order1[m].pNext]
    <2> TAKE m \in N
    <2>1. m # x
      BY <1>4
    <2>2. order1[m] = [pPrev |-> IF m = y THEN x ELSE order[m].pPrev,
                       pNext |-> IF m = n THEN x ELSE order[m].pNext]
      BY <2>1
    <2> QED BY <2>2
  <1>7. /\ size1[x] = size[n] - s - 1 /\ size1[n] = s
        /\ \A m \in N : m # n => size1[m] = size[m]
    BY <1>3, <1>4
  <1>8. DOMAIN size1 = M /\ DOMAIN order1 = M /\ 0 \in M /\ M \subseteq Area /\ 0 \in N
    BY <1>3 DEF Chain
  <1>9. size1 \in [M -> Nat]
    <2>1. \A m \in N : size[m] \in Nat
      BY <1>0 DEF Placed
    <2>2. size1[x] \in Nat
      BY <1>2, <1>7
    <2>3. \A m \in M : size1[m] \in Nat
      BY <2>1, <2>2, <1>7
    <2> QED BY <2>3
  <1> HIDE DEF y
  <1>10. ASSUME NEW m \in N
         PROVE  /\ order1[m].pPrev \in M \cup {NULL} /\ order1[m].pNext \in M \cup {NULL}
                /\ m # 0 => order1[m].pPrev # NULL /\ order1[order1[m].pPrev].pNext = m
    <2>1. /\ order[m].pPrev \in N \cup {NULL} /\ order[m].pNext \in N \cup {NULL}
          /\ m # 0 => order[m].pPrev # NULL /\ order[order[m].pPrev].pNext = m
      BY <1>0 DEF Placed
    <2>2. order1[m].pPrev \in M \cup {NULL} /\ order1[m].pNext \in M \cup {NULL}
      BY <1>6, <2>1
    <2>3. CASE m = y
      <3>1. order1[m].pPrev = x /\ order1[x].pNext = m
        BY <1>5, <1>6, <2>3
      <3>2. x # NULL
        BY <1>3, Constants
      <3> QED BY <2>2, <3>1, <3>2
    <2>4. CASE m # y /\ m # 0
      <3> DEFINE q == order[m].pPrev
      <3>1. order1[m].pPrev = q /\ q # NULL /\ order[q].pNext = m /\ q \in N
        BY <1>6, <2>1, <2>4
      <3>2. q # n
        BY <3>1, <2>4 DEF y
      <3>3. order1[q].pNext = m
        BY <1>6, <3>1, <3>2
      <3> QED BY <2>2, <3>1, <3>3
    <2> QED BY <2>2, <2>3, <2>4
  <1>11. /\ order1[x].pPrev \in M \cup {NULL} /\ order1[x].pNext \in M \cup {NULL}
         /\ order1[x].pPrev # NULL /\ order1[order1[x].pPrev].pNext = x
    <2>1. order1[n].pNext = x
      BY <1>6
    <2>2. n # NULL
      BY <1>2, Constants
    <2> QED BY <2>1, <2>2, <1>2, <1>5
  <1>12. order1 \in [M -> [pPrev : M \cup {NULL}, pNext : M \cup {NULL}]]
    <2>1. ASSUME NEW m \in M PROVE order1[m] \in [pPrev : M \cup {NULL}, pNext : M \cup {NULL}]
      <3>1. /\ order1[m] = [pPrev |-> order1[m].pPrev, pNext |-> order1[m].pNext]
            /\ order1[m].pPrev \in M \cup {NULL} /\ order1[m].pNext \in M \cup {NULL}
        BY <1>5, <1>6, <1>10, <1>11
      <3> QED BY <3>1
    <2> QED BY <2>1
  <1>13. order1[0].pPrev = NULL
    <2>1. order[0].pPrev = NULL
      BY DEF Chain
    <2>2. y # 0
      BY <1>2, Constants
    <2> QED BY <1>6, <1>8, <2>1, <2>2
  <1>14. ASSUME NEW m \in M
         PROVE  /\ m + 1 + size1[m] <= csHeap
                /\ order1[m].pNext = IF m + 1 + size1[m] = csHeap THEN NULL ELSE m + 1 + size1[m]
                /\ order1[m].pNext # NULL => order1[order1[m].pNext].pPrev = m
    <2>1. CASE m = x
      <3>1. m + 1 + size1[m] = n + 1 + size[n]
        BY <1>2, <1>3, <1>7, <2>1
      <3>2. y # NULL => order1[y].pPrev = x
        BY <1>2, <1>6
      <3> QED BY <3>1, <3>2, <1>2, <1>5, <2>1
    <2>2. CASE m = n
      <3>1. m + 1 + size1[m] = x
        BY <1>7, <2>2
      <3>2. order1[m].pNext = x
        BY <1>6, <2>2
      <3> QED BY <3>1, <3>2, <1>2, <1>3, <1>5, <2>2
    <2>3. CASE m \in N /\ m # n
      <3>1. size1[m] = size[m] /\ order1[m].pNext = order[m].pNext
        BY <1>6, <1>7, <2>3
      <3>2. /\ m + 1 + size[m] <= csHeap
            /\ order[m].pNext = IF m + 1 + size[m] = csHeap THEN NULL ELSE m + 1 + size[m]
            /\ order[m].pNext # NULL => order[order[m].pNext].pPrev = m
            /\ order[m].pNext \in N \cup {NULL}
        BY <1>0, <2>3 DEF Placed
      <3>3. order[m].pNext # NULL => order1[order[m].pNext].pPrev = m
        <4> SUFFICES ASSUME order[m].pNext # NULL
                     PROVE  order1[order[m].pNext].pPrev = m
          OBVIOUS
        <4> DEFINE k == order[m].pNext
        <4>1. k \in N /\ k # NULL /\ order[k].pPrev = m
          BY <3>2
        <4> HIDE DEF k
        <4>2. k # y
          BY <4>1, <2>3, <1>2
        <4>3. order1[k].pPrev = m
          BY <1>6, <4>1, <4>2
        <4> QED BY <4>3 DEF k
      <3> QED BY <3>1, <3>2, <3>3
    <2> QED BY <2>1, <2>2, <2>3
  <1>15. ASSUME NEW a \in M, NEW b \in M, a < b
         PROVE  a + 1 + size1[a] <= b
    <2>1. a \in Nat /\ b \in Nat
      BY <1>0, <1>3 DEF Placed
    <2>2. CASE a = x
      <3>1. n < b /\ b \in N
        BY <2>1, <2>2, <1>2, <1>3, <1>15
      <3>2. n + 1 + size[n] <= b
        BY <3>1, <1>1
      <3>3. a + 1 + size1[a] = n + 1 + size[n]
        BY <2>2, <1>2, <1>3, <1>7
      <3> QED BY <3>2, <3>3
    <2>3. CASE a = n
      <3>1. CASE b = x
        BY <3>1, <2>3, <1>2, <1>3, <1>7
      <3>2. CASE b # x
        <4>1. n + 1 + size[n] <= b
          BY <3>2, <2>3, <1>1, <1>15
        <4> QED BY <4>1, <2>1, <2>3, <1>2, <1>7
      <3> QED BY <3>1, <3>2
    <2>4. CASE a # n /\ a # x
      <3>1. size1[a] = size[a] /\ a \in N /\ size[a] \in Nat
        BY <2>4, <1>0, <1>7 DEF Placed
      <3>2. CASE b \in N
        BY <3>1, <3>2, <1>1, <1>15
      <3>3. CASE b = x
        <4>1. ~(n < a)
          <5>1. n < a => n + 1 + size[n] <= a
            BY <3>1, <1>1
          <5> QED BY <5>1, <2>1, <3>3, <1>2, <1>3, <1>15
        <4>2. a + 1 + size[a] <= n
          <5>2. a \in N /\ n \in N /\ n \in Nat
            BY <3>1, <1>2
          <5> HIDE DEF N, Opened, Parted
          <5>1. a < n
            BY <4>1, <5>2, <2>1, <2>4
          <5> QED BY <5>1, <5>2, <1>1
        <4> QED BY <4>2, <3>1, <3>3, <2>1, <1>2, <1>3
      <3> QED BY <3>2, <3>3
    <2> QED BY <2>2, <2>3, <2>4
  <1>16. Chain(order1, size1)
    <2>1. \A m \in M : m # 0 => order1[m].pPrev # NULL /\ order1[order1[m].pPrev].pNext = m
      BY <1>10, <1>11
    <2> HIDE DEF M, N, Opened, Parted
    <2> QED BY <2>1, <1>8, <1>9, <1>12, <1>13, <1>14, <1>15 DEF Chain
  <1>17. \A m \in N : m # n => order1[m].pNext = order[m].pNext
    BY <1>6
  <1> QED BY <1>3, <1>4, <1>5, <1>6, <1>16, <1>17 DEF y

-----------------------------------------------------------------------------
(* The lists of a heap are right; list b may be empty and marked.          *)
Filed(h, b) ==
  /\ Shape(h) /\ DOMAIN h.size \subseteq Area
  /\ Listed(DOMAIN h.size, h.on, h.list)
  /\ Masked(h.list, h.mask, b)

(* FreeCut of a node that is on a list.                                    *)
LEMMA FreeCutFiled ==
  ASSUME NEW h, Filed(h, NULL), NEW n \in DOMAIN h.size, h.on[n] # NULL,
         NEW g, g = FreeCut(h, n)
  PROVE  /\ Filed(g, h.on[n]) /\ h.on[n] \in Class
         /\ g.order = h.order /\ g.size = h.size
         /\ g.on = [h.on EXCEPT ![n] = NULL]
  <1> DEFINE b == h.on[n]
             list1 == [h.list EXCEPT ![b] = Without(h.list[b], n)]
             on1 == [h.on EXCEPT ![n] = NULL]
  <1>1. g = [order |-> h.order, size |-> h.size, on |-> on1, list |-> list1, mask |-> h.mask]
    BY DEF FreeCut, Filed, Shape
  <1>2. b \in Class /\ Listed(DOMAIN h.size, on1, list1)
    BY ListedCut DEF Filed
  <1>3. \A c \in Class : c # b => list1[c] = h.list[c]
    BY DEF Filed, Listed
  <1> HIDE DEF list1, on1, b
  <1>4. Masked(list1, h.mask, b)
    <2>1. /\ h.mask \subseteq Class
          /\ \A c \in Class : h.list[c] # <<>> => c \in h.mask
          /\ \A c \in h.mask : c # NULL => h.list[c] # <<>>
      BY DEF Filed, Masked
    <2>2. b \in h.mask
      <3>1. Range(h.list[b]) = {m \in DOMAIN h.size : h.on[m] = b}
        BY <1>2 DEF Filed, Listed
      <3>2. n \in Range(h.list[b])
        BY <3>1 DEF b
      <3>3. h.list[b] # <<>>
        BY <3>2 DEF Range
      <3> QED BY <1>2, <2>1, <3>3
    <2>3. \A c \in Class : list1[c] # <<>> => c \in h.mask
      BY <1>3, <2>1, <2>2
    <2>4. \A c \in h.mask : c # b => list1[c] # <<>>
      BY <1>3, <2>1, Constants
    <2> QED BY <2>1, <2>3, <2>4 DEF Masked
  <1>5. Shape(g)
    BY <1>1 DEF Shape
  <1>6. Filed(g, b)
    BY <1>1, <1>2, <1>4, <1>5 DEF Filed
  <1> QED BY <1>1, <1>2, <1>6 DEF b, on1

(* FreeOff of the list that may be empty.                                  *)
LEMMA FreeOffFiled ==
  ASSUME NEW h, NEW b \in Class, Filed(h, b), NEW g, g = FreeOff(h, b)
  PROVE  /\ Filed(g, NULL)
         /\ g.order = h.order /\ g.size = h.size /\ g.on = h.on
  <1>1. /\ h.mask \subseteq Class
        /\ \A c \in Class : h.list[c] # <<>> => c \in h.mask
        /\ \A c \in h.mask : c # b => h.list[c] # <<>>
    BY DEF Filed, Masked
  <1>2. CASE h.list[b] = <<>>
    <2> DEFINE mask1 == h.mask \ {b}
    <2>1. g = [order |-> h.order, size |-> h.size, on |-> h.on, list |-> h.list, mask |-> mask1]
      BY <1>2 DEF FreeOff, Filed, Shape
    <2>2. Masked(h.list, mask1, NULL)
      BY <1>1, <1>2 DEF Masked
    <2> HIDE DEF mask1
    <2> QED BY <2>1, <2>2 DEF Filed, Shape
  <1>3. CASE h.list[b] # <<>>
    <2>1. g = h
      BY <1>3 DEF FreeOff
    <2>2. Masked(h.list, h.mask, NULL)
      BY <1>1, <1>3 DEF Masked
    <2> QED BY <2>1, <2>2 DEF Filed
  <1> QED BY <1>2, <1>3

(* AddFree of a node that is on no list.                                   *)
LEMMA AddFreeFiled ==
  ASSUME NEW h, NEW b, Filed(h, b), NEW n \in DOMAIN h.size, h.on[n] = NULL,
         NEW s \in Nat, s <= csHeap, NEW g, g = AddFree(h, n, s)
  PROVE  /\ Filed(g, b) /\ Lower(s) \in Class
         /\ g.order = h.order /\ g.size = [h.size EXCEPT ![n] = s]
         /\ g.on = [h.on EXCEPT ![n] = Lower(s)]
  <1> DEFINE c == Lower(s)
             on1 == [h.on EXCEPT ![n] = c]
             list1 == [h.list EXCEPT ![c] = <<n>> \o h.list[c]]
             size1 == [h.size EXCEPT ![n] = s]
             mask1 == h.mask \cup {c}
  <1>1. c \in Class
    BY LowerClass
  <1>2. FreeCut(h, n) = h
    BY DEF FreeCut
  <1> HIDE DEF c
  <1>3. g = [order |-> h.order, size |-> size1, on |-> on1, list |-> list1, mask |-> mask1]
    <2>1. g = [h EXCEPT !.list[c] = <<n>> \o @, !.on[n] = c, !.size[n] = s,
                        !.mask = @ \cup {c}]
      BY <1>2 DEF AddFree, c
    <2>2. h = [order |-> h.order, size |-> h.size, on |-> h.on, list |-> h.list, mask |-> h.mask]
      BY DEF Filed, Shape
    <2>3. g.list = list1 /\ g.on = on1 /\ g.size = size1 /\ g.mask = mask1 /\ g.order = h.order
      BY <2>1, <2>2
    <2> QED BY <2>1, <2>2, <2>3
  <1>4. Listed(DOMAIN h.size, on1, list1) /\ <<n>> \o h.list[c] # <<>>
    BY <1>1, ListedPush DEF Filed
  <1>5. /\ \A k \in Class : k # c => list1[k] = h.list[k]
        /\ list1[c] # <<>>
    BY <1>1, <1>4 DEF Filed, Listed
  <1> HIDE DEF list1
  <1>6. Masked(list1, mask1, b)
    BY <1>1, <1>5 DEF Filed, Masked
  <1>7. DOMAIN size1 = DOMAIN h.size
    OBVIOUS
  <1> HIDE DEF on1, size1, mask1
  <1>8. Shape(g)
    BY <1>3 DEF Shape
  <1>9. Filed(g, b)
    BY <1>3, <1>4, <1>6, <1>7, <1>8 DEF Filed
  <1> QED BY <1>1, <1>3, <1>9 DEF c, on1, size1

(* AddFree of a node that is on a list, which may get empty.               *)
LEMMA MoveFreeFiled ==
  ASSUME NEW h, Filed(h, NULL), NEW n \in DOMAIN h.size, h.on[n] # NULL,
         NEW s \in Nat, s <= csHeap, NEW g, g = AddFree(h, n, s)
  PROVE  /\ Filed(g, h.on[n]) /\ h.on[n] \in Class /\ Lower(s) \in Class
         /\ g.order = h.order /\ g.size = [h.size EXCEPT ![n] = s]
         /\ g.on = [h.on EXCEPT ![n] = Lower(s)]
  <1> DEFINE cut == FreeCut(h, n)
  <1>1. /\ Filed(cut, h.on[n]) /\ h.on[n] \in Class
        /\ cut.order = h.order /\ cut.size = h.size
        /\ cut.on = [h.on EXCEPT ![n] = NULL]
    BY FreeCutFiled
  <1>2. h.on \in [DOMAIN h.size -> Class \cup {NULL}]
    BY DEF Filed, Listed
  <1>3. n \in DOMAIN cut.size /\ cut.on[n] = NULL
    BY <1>1, <1>2
  <1>4. FreeCut(cut, n) = cut
    BY <1>3 DEF FreeCut
  <1>5. g = AddFree(cut, n, s)
    BY <1>4 DEF AddFree
  <1> HIDE DEF cut
  <1>6. /\ Filed(g, h.on[n]) /\ Lower(s) \in Class
        /\ g.order = cut.order /\ g.size = [cut.size EXCEPT ![n] = s]
        /\ g.on = [cut.on EXCEPT ![n] = Lower(s)]
    BY <1>1, <1>3, <1>5, AddFreeFiled
  <1>7. g.on = [h.on EXCEPT ![n] = Lower(s)]
    BY <1>1, <1>2, <1>6
  <1> QED BY <1>1, <1>6, <1>7

(* Destroy of a node that is on no list.                                   *)
LEMMA DestroyFiled ==
  ASSUME NEW h, NEW b, Filed(h, b), NEW n \in DOMAIN h.size, h.on[n] = NULL,
         NEW g, g = Destroy(h, n)
  PROVE  /\ Filed(g, b) /\ g.order = Closed(h.order, h.size, n)
         /\ g.size = [m \in DOMAIN h.size \ {n} |-> h.size[m]]
         /\ g.on = [m \in DOMAIN h.size \ {n} |-> h.on[m]]
  <1> DEFINE on1 == [m \in DOMAIN h.size \ {n} |-> h.on[m]]
             size1 == [m \in DOMAIN h.size \ {n} |-> h.size[m]]
  <1>1. FreeCut(h, n) = h
    BY DEF FreeCut
  <1>2. h = [order |-> h.order, size |-> h.size, on |-> h.on, list |-> h.list, mask |-> h.mask]
    BY DEF Filed, Shape
  <1>3. g = [h EXCEPT !.order = Closed(h.order, h.size, n), !.size = size1, !.on = on1]
    BY <1>1 DEF Destroy, Closed
  <1>4. Listed(DOMAIN h.size \ {n}, on1, h.list)
    BY ListedDrop DEF Filed
  <1>5. DOMAIN size1 = DOMAIN h.size \ {n}
    OBVIOUS
  <1> HIDE DEF on1, size1
  <1>6. g = [order |-> Closed(h.order, h.size, n), size |-> size1, on |-> on1, list |-> h.list, mask |-> h.mask]
    BY <1>2, <1>3
  <1>7. Shape(g)
    BY <1>6 DEF Shape
  <1>8. Filed(g, b)
    BY <1>4, <1>5, <1>6, <1>7 DEF Filed
  <1> QED BY <1>6, <1>8 DEF on1, size1

(* Destroy of a node that is on a list, which may get empty.               *)
LEMMA DestroyFreeFiled ==
  ASSUME NEW h, Filed(h, NULL), NEW n \in DOMAIN h.size, h.on[n] # NULL,
         NEW g, g = Destroy(h, n)
  PROVE  /\ Filed(g, h.on[n]) /\ h.on[n] \in Class /\ g.order = Closed(h.order, h.size, n)
         /\ g.size = [m \in DOMAIN h.size \ {n} |-> h.size[m]]
         /\ g.on = [m \in DOMAIN h.size \ {n} |-> h.on[m]]
  <1> DEFINE cut == FreeCut(h, n)
  <1>1. /\ Filed(cut, h.on[n]) /\ h.on[n] \in Class
        /\ cut.order = h.order /\ cut.size = h.size
        /\ cut.on = [h.on EXCEPT ![n] = NULL]
    BY FreeCutFiled
  <1>2. h.on \in [DOMAIN h.size -> Class \cup {NULL}]
    BY DEF Filed, Listed
  <1>3. n \in DOMAIN cut.size /\ cut.on[n] = NULL
    BY <1>1, <1>2
  <1>4. FreeCut(cut, n) = cut
    BY <1>3 DEF FreeCut
  <1>5. h = [order |-> h.order, size |-> h.size, on |-> h.on, list |-> h.list, mask |-> h.mask]
    BY DEF Filed, Shape
  <1>6. cut = [order |-> cut.order, size |-> cut.size, on |-> cut.on,
               list |-> cut.list, mask |-> cut.mask]
    BY <1>1 DEF Filed, Shape
  <1>7. g = Destroy(cut, n)
    <2> HIDE DEF cut
    <2>1. Destroy(cut, n) =
            [cut EXCEPT !.order = Closed(cut.order, cut.size, n),
                        !.size = [m \in DOMAIN cut.size \ {n} |-> cut.size[m]],
                        !.on = [m \in DOMAIN cut.size \ {n} |-> cut.on[m]]]
      BY <1>4 DEF Destroy, Closed
    <2>2. g = [cut EXCEPT !.order = Closed(h.order, h.size, n),
                          !.size = [m \in DOMAIN h.size \ {n} |-> h.size[m]],
                          !.on = [m \in DOMAIN h.size \ {n} |-> cut.on[m]]]
      BY DEF Destroy, Closed, cut
    <2>3. Closed(cut.order, cut.size, n) = Closed(h.order, h.size, n)
      BY <1>1 DEF Closed
    <2> QED BY <2>1, <2>2, <2>3, <1>1
  <1> HIDE DEF cut
  <1>8. /\ Filed(g, h.on[n]) /\ g.order = Closed(cut.order, cut.size, n)
        /\ g.size = [m \in DOMAIN cut.size \ {n} |-> cut.size[m]]
        /\ g.on = [m \in DOMAIN cut.size \ {n} |-> cut.on[m]]
    <2>1. Filed(cut, h.on[n])
      BY <1>1
    <2> QED BY <2>1, <1>3, <1>7, DestroyFiled
  <1>9. g.on = [m \in DOMAIN h.size \ {n} |-> h.on[m]]
    BY <1>1, <1>2, <1>8
  <1>10. g.order = Closed(h.order, h.size, n) /\ g.size = [m \in DOMAIN h.size \ {n} |-> h.size[m]]
    BY <1>1, <1>8 DEF Closed
  <1> QED BY <1>1, <1>8, <1>9, <1>10

(* Construct of a node that is not there.                                  *)
LEMMA ConstructFiled ==
  ASSUME NEW h, NEW b, Filed(h, b), NEW x \in Area, x \notin DOMAIN h.size, NEW n,
         NEW g, g = Construct(h, x, n)
  PROVE  /\ Filed(g, b) /\ g.order = Opened(h.order, h.size, x, n)
         /\ g.size = [m \in DOMAIN h.size \cup {x} |-> IF m = x THEN 0 ELSE h.size[m]]
         /\ g.on = [m \in DOMAIN h.size \cup {x} |-> IF m = x THEN NULL ELSE h.on[m]]
  <1> DEFINE on1 == [m \in DOMAIN h.size \cup {x} |-> IF m = x THEN NULL ELSE h.on[m]]
             size1 == [m \in DOMAIN h.size \cup {x} |-> IF m = x THEN 0 ELSE h.size[m]]
  <1>1. h = [order |-> h.order, size |-> h.size, on |-> h.on, list |-> h.list, mask |-> h.mask]
    BY DEF Filed, Shape
  <1>2. g = [h EXCEPT !.order = Opened(h.order, h.size, x, n), !.size = size1, !.on = on1]
    BY DEF Construct, Opened
  <1>3. Listed(DOMAIN h.size \cup {x}, on1, h.list)
    BY ListedAdd DEF Filed
  <1>4. DOMAIN size1 = DOMAIN h.size \cup {x}
    OBVIOUS
  <1> HIDE DEF on1, size1
  <1>5. g = [order |-> Opened(h.order, h.size, x, n), size |-> size1, on |-> on1, list |-> h.list, mask |-> h.mask]
    BY <1>1, <1>2
  <1>6. Shape(g)
    BY <1>5 DEF Shape
  <1>7. Filed(g, b)
    BY <1>3, <1>4, <1>5, <1>6 DEF Filed
  <1> QED BY <1>5, <1>7 DEF on1, size1

-----------------------------------------------------------------------------
(* The parts of a heap that is right.                                      *)
LEMMA GoodParts ==
  ASSUME NEW h, Good(h)
  PROVE  /\ Filed(h, NULL) /\ Chain(h.order, h.size)
         /\ h.size \in [DOMAIN h.size -> Nat] /\ DOMAIN h.order = DOMAIN h.size
         /\ h.on \in [DOMAIN h.size -> Class \cup {NULL}]
         /\ \A n \in DOMAIN h.size : h.on[n] # NULL => h.on[n] = Lower(h.size[n])
         /\ \A n \in DOMAIN h.size :
              h.on[n] # NULL /\ h.order[n].pNext # NULL => h.on[h.order[n].pNext] = NULL
  BY DEF Good, Filed, Chain, Listed, Sorted, Apart

(* Alloc keeps the heap right: the node is taken, cut to what was asked    *)
(* for if the rest makes a node, and nothing else that is held changes.    *)
LEMMA TakenGood ==
  ASSUME NEW h, Good(h), NEW n \in DOMAIN h.size, h.on[n] # NULL, NEW s \in Nat,
         NEW g, g = Taken(h, n, s)
  PROVE  /\ Good(g) /\ Held(g) = Held(h) \cup {n}
         /\ \A m \in Held(h) : g.size[m] = h.size[m]
         /\ h.size[n] >= s => g.size[n] >= s
  <1> DEFINE N == DOMAIN h.size
             b == h.on[n]
             cut1 == FreeCut(h, n)
             cut == FreeOff(cut1, b)
             rest == h.size[n] - s
             x == n + SizeofT + s
  <1>1. /\ Filed(h, NULL) /\ Chain(h.order, h.size)
        /\ h.size \in [N -> Nat] /\ DOMAIN h.order = N
        /\ h.on \in [N -> Class \cup {NULL}]
        /\ \A m \in N : h.on[m] # NULL => h.on[m] = Lower(h.size[m])
        /\ \A m \in N :
             h.on[m] # NULL /\ h.order[m].pNext # NULL => h.on[h.order[m].pNext] = NULL
    BY GoodParts
  <1>2. /\ Filed(cut1, b) /\ b \in Class
        /\ cut1.order = h.order /\ cut1.size = h.size
        /\ cut1.on = [h.on EXCEPT ![n] = NULL]
    BY <1>1, FreeCutFiled
  <1> HIDE DEF cut1
  <1>3. /\ Filed(cut, NULL)
        /\ cut.order = cut1.order /\ cut.size = cut1.size /\ cut.on = cut1.on
    BY <1>2, FreeOffFiled
  <1>4. cut.order = h.order /\ cut.size = h.size /\ cut.on = [h.on EXCEPT ![n] = NULL]
    BY <1>2, <1>3
  <1>5. g = IF rest >= SizeofT
            THEN AddFree(Construct([cut EXCEPT !.size[n] = s], x, n), x, rest - SizeofT)
            ELSE cut
    BY DEF Taken, cut1
  <1> HIDE DEF cut
  <1>6. \A m \in N : cut.on[m] = IF m = n THEN NULL ELSE h.on[m]
    BY <1>1, <1>4
  <1>7. Placed(h.order, h.size, n)
    BY <1>1, ChainNode
  <1>8. CASE rest >= SizeofT
    <2> DEFINE h2 == [cut EXCEPT !.size[n] = s]
               h3 == Construct(h2, x, n)
    <2>1. /\ n \in Nat /\ h.size[n] \in Nat /\ n + 1 + h.size[n] <= csHeap /\ csHeap \in Nat
          /\ x = n + 1 + s /\ s + 1 <= h.size[n] /\ rest - SizeofT = h.size[n] - s - 1
          /\ rest - SizeofT \in Nat /\ rest - SizeofT <= csHeap
      BY <1>7, <1>8, Constants DEF Placed, SizeofT
    <2>2. /\ h2 = [order |-> h.order, size |-> [h.size EXCEPT ![n] = s], on |-> cut.on,
                   list |-> cut.list, mask |-> cut.mask]
      <3>1. cut = [order |-> cut.order, size |-> cut.size, on |-> cut.on,
                   list |-> cut.list, mask |-> cut.mask]
        BY <1>3 DEF Filed, Shape
      <3> QED BY <3>1, <1>4
    <2>3. DOMAIN h2.size = N /\ h2.order = h.order /\ h2.on = cut.on /\ h2.size = [h.size EXCEPT ![n] = s]
      BY <2>2, <1>1
    <2>4. Filed(h2, NULL)
      BY <2>2, <2>3, <1>3, <1>4 DEF Filed, Shape
    <2> HIDE DEF h2, x, rest
    <2> DEFINE order1 == Opened(h.order, h.size, x, n)
               size1 == Parted(h.size, n, s, x)
    <2>5. Opened(h.order, h2.size, x, n) = order1
      BY <2>3 DEF Opened
    <2> HIDE DEF order1, size1
    <2>6. /\ Chain(order1, size1)
          /\ x \notin N /\ x \in Area
          /\ order1[n].pNext = x /\ order1[x].pNext = h.order[n].pNext
          /\ \A m \in N : m # n => order1[m].pNext = h.order[m].pNext
      <3>1. Chain(h.order, h.size)
        BY <1>1
      <3>2. x = n + 1 + s /\ s + 1 <= h.size[n]
        BY <2>1
      <3> QED BY <3>1, <3>2, ChainSplit DEF order1, size1
    <2>7. /\ Filed(h3, NULL) /\ h3.order = order1
          /\ h3.size = [m \in N \cup {x} |-> IF m = x THEN 0 ELSE h2.size[m]]
          /\ h3.on = [m \in N \cup {x} |-> IF m = x THEN NULL ELSE cut.on[m]]
      <3>1. x \in Area /\ x \notin DOMAIN h2.size
        BY <2>3, <2>6
      <3>2. /\ Filed(h3, NULL) /\ h3.order = Opened(h2.order, h2.size, x, n)
            /\ h3.size = [m \in DOMAIN h2.size \cup {x} |-> IF m = x THEN 0 ELSE h2.size[m]]
            /\ h3.on = [m \in DOMAIN h2.size \cup {x} |-> IF m = x THEN NULL ELSE h2.on[m]]
        BY <2>4, <3>1, ConstructFiled
      <3> QED BY <3>2, <2>3, <2>5
    <2> HIDE DEF h3
    <2>8. g = AddFree(h3, x, rest - SizeofT)
      BY <1>5, <1>8 DEF h2, h3, x, rest
    <2>9. x \in DOMAIN h3.size /\ h3.on[x] = NULL
      BY <2>7
    <2>10. /\ Filed(g, NULL) /\ Lower(rest - SizeofT) \in Class /\ g.order = order1
           /\ g.size = [h3.size EXCEPT ![x] = rest - SizeofT]
           /\ g.on = [h3.on EXCEPT ![x] = Lower(rest - SizeofT)]
      <3> DEFINE r == rest - SizeofT
      <3>1. r \in Nat /\ r <= csHeap /\ Filed(h3, NULL)
        BY <2>1, <2>7
      <3> HIDE DEF r
      <3>2. g = AddFree(h3, x, r)
        BY <2>8 DEF r
      <3>3. /\ Filed(g, NULL) /\ Lower(r) \in Class /\ g.order = h3.order
            /\ g.size = [h3.size EXCEPT ![x] = r]
            /\ g.on = [h3.on EXCEPT ![x] = Lower(r)]
        BY <3>1, <3>2, <2>9, AddFreeFiled
      <3> QED BY <3>3, <2>7 DEF r
    <2>11. g.size = size1
      <3>1. \A m \in N : h2.size[m] = IF m = n THEN s ELSE h.size[m]
        BY <2>3, <1>1
      <3>2. g.size = [m \in N \cup {x} |-> IF m = x THEN rest - SizeofT ELSE h2.size[m]]
        BY <2>7, <2>10, ZenonT(60)
      <3>3. rest - SizeofT = h.size[n] - s - 1
        BY <2>1
      <3> QED BY <3>1, <3>2, <3>3 DEF size1, Parted
    <2>12. \A m \in N : /\ g.on[m] = cut.on[m] /\ m # x
                        /\ m # n => g.size[m] = h.size[m]
      <3> TAKE m \in N
      <3>1. m # x
        BY <2>6
      <3>2. h3.on[m] = cut.on[m] /\ g.on[m] = h3.on[m]
        BY <2>7, <2>10, <3>1
      <3>3. m # n => size1[m] = h.size[m]
        BY <3>1 DEF size1, Parted
      <3> QED BY <2>11, <3>1, <3>2, <3>3
    <2>13. g.on[x] = Lower(rest - SizeofT) /\ g.size[x] = rest - SizeofT /\ g.on[x] # NULL
      BY <2>1, <2>7, <2>10, <2>11, Constants DEF size1, Parted
    <2>14. DOMAIN g.size = N \cup {x} /\ DOMAIN g.order = N \cup {x}
      BY <2>10, <2>11 DEF order1, size1, Opened, Parted
    <2>15. Sorted(g.on, g.size)
      <3> SUFFICES ASSUME NEW m \in N \cup {x}, g.on[m] # NULL
                   PROVE  g.on[m] = Lower(g.size[m])
        BY <2>14 DEF Sorted
      <3>1. CASE m = x
        BY <3>1, <2>13
      <3>2. CASE m \in N
        BY <3>2, <2>12, <1>1, <1>6
      <3> QED BY <3>1, <3>2
    <2>16. Apart(g.order, g.on)
      <3> SUFFICES ASSUME NEW m \in N \cup {x}, g.on[m] # NULL, order1[m].pNext # NULL
                   PROVE  g.on[order1[m].pNext] = NULL
        BY <2>10, <2>14 DEF Apart
      <3>1. \A k \in N : h.order[k].pNext \in N \cup {NULL}
        <4>1. \A k \in N : Placed(h.order, h.size, k)
          BY <1>1, ChainNode
        <4> QED BY <4>1 DEF Placed
      <3>2. CASE m = x
        BY <3>1, <3>2, <2>6, <2>12, <1>1, <1>6
      <3>3. CASE m \in N
        BY <3>1, <3>3, <2>6, <2>12, <1>1, <1>6
      <3> QED BY <3>2, <3>3
    <2>17. Good(g)
      BY <2>6, <2>10, <2>11, <2>15, <2>16 DEF Good, Filed
    <2>18. Held(g) = Held(h) \cup {n}
      BY <2>12, <2>13, <2>14, <1>6 DEF Held
    <2>19. \A m \in Held(h) : g.size[m] = h.size[m]
      BY <2>12 DEF Held
    <2>20. g.size[n] = s
      BY <2>6, <2>11 DEF size1, Parted
    <2> QED BY <2>17, <2>18, <2>19, <2>20
  <1>9. CASE ~(rest >= SizeofT)
    <2>1. g = cut
      BY <1>5, <1>9
    <2>2. Sorted(cut.on, cut.size)
      BY <1>1, <1>4, <1>6 DEF Sorted
    <2>3. Apart(cut.order, cut.on)
      <3>1. \A k \in N : h.order[k].pNext \in N \cup {NULL}
        <4>1. \A k \in N : Placed(h.order, h.size, k)
          BY <1>1, ChainNode
        <4> QED BY <4>1 DEF Placed
      <3> QED BY <3>1, <1>1, <1>4, <1>6 DEF Apart
    <2>4. Good(cut)
      BY <1>1, <1>3, <1>4, <2>2, <2>3 DEF Good, Filed
    <2>5. Held(cut) = Held(h) \cup {n}
      BY <1>4, <1>6 DEF Held
    <2> QED BY <2>1, <2>4, <2>5, <1>4 DEF Held
  <1> QED BY <1>8, <1>9

-----------------------------------------------------------------------------
(* A heap in the middle of Free: n is to get size s, and the node behind   *)
(* it is not free.                                                         *)
Half(h, n, s) ==
  /\ Filed(h, NULL) /\ n \in DOMAIN h.size /\ h.on[n] = NULL /\ s \in Nat
  /\ Chain(h.order, [h.size EXCEPT ![n] = s])
  /\ Sorted(h.on, h.size)
  /\ Apart(h.order, h.on)
  /\ h.order[n].pNext # NULL => h.on[h.order[n].pNext] = NULL

(* Free, first half: the node behind is swallowed if it is free.           *)
LEMMA MergedNextHalf ==
  ASSUME NEW h, Good(h), NEW n \in DOMAIN h.size, h.on[n] = NULL,
         NEW m, m = MergedNext(h, n, h.size[n])
  PROVE  /\ Half(m.heap, n, m.size) /\ Held(m.heap) = Held(h)
         /\ \A k \in Held(h) : m.heap.size[k] = h.size[k]
  <1> DEFINE N == DOMAIN h.size
             x == h.order[n].pNext
  <1>1. /\ Filed(h, NULL) /\ Chain(h.order, h.size)
        /\ h.size \in [N -> Nat] /\ DOMAIN h.order = N
        /\ h.on \in [N -> Class \cup {NULL}]
        /\ \A k \in N : h.on[k] # NULL => h.on[k] = Lower(h.size[k])
        /\ \A k \in N :
             h.on[k] # NULL /\ h.order[k].pNext # NULL => h.on[h.order[k].pNext] = NULL
    BY GoodParts
  <1>2. CASE ~(x # NULL /\ h.on[x] # NULL)
    <2>1. m = [heap |-> h, size |-> h.size[n]]
      BY <1>2 DEF MergedNext
    <2>2. m.heap = h /\ m.size = h.size[n]
      BY <2>1
    <2>3. [h.size EXCEPT ![n] = h.size[n]] = h.size /\ h.size[n] \in Nat
      BY <1>1
    <2>4. Half(h, n, h.size[n])
      BY <1>1, <1>2, <2>3 DEF Half, Good
    <2> QED BY <2>2, <2>4
  <1>3. CASE x # NULL /\ h.on[x] # NULL
    <2> DEFINE g1 == Destroy(h, x)
               g == FreeOff(g1, h.on[x])
               s == h.size[n] + SizeofT + h.size[x]
    <2>1. m = [heap |-> g, size |-> s]
      BY <1>3 DEF MergedNext
    <2>2. m.heap = g /\ m.size = s
      BY <2>1
    <2> DEFINE order1 == Closed(h.order, h.size, x)
               size1 == Joined(h.size, n, x)
    <2> HIDE DEF g1, g, order1, size1
    <2>3. /\ Chain(order1, size1)
          /\ x \in N /\ x # n /\ x # 0 /\ h.order[x].pPrev = n
          /\ order1[n].pNext = h.order[x].pNext
          /\ \A k \in N \ {x} : k # n => order1[k].pNext = h.order[k].pNext
      <3> DEFINE z == x
      <3>1. z = h.order[n].pNext /\ z # NULL /\ order1 = Closed(h.order, h.size, z)
            /\ size1 = Joined(h.size, n, z)
        BY <1>3 DEF order1, size1
      <3> HIDE DEF z
      <3>2. Chain(h.order, h.size)
        BY <1>1
      <3>3. /\ Chain(order1, size1)
            /\ z \in N /\ z # n /\ z # 0 /\ h.order[z].pPrev = n
            /\ order1[n].pNext = h.order[z].pNext
            /\ \A k \in N \ {z} : k # n => order1[k].pNext = h.order[k].pNext
        BY <3>1, <3>2, ChainJoin
      <3> QED BY <3>3 DEF z
    <2> HIDE DEF x
    <2>4. /\ Filed(g1, h.on[x]) /\ h.on[x] \in Class /\ g1.order = order1
          /\ g1.size = [k \in N \ {x} |-> h.size[k]]
          /\ g1.on = [k \in N \ {x} |-> h.on[k]]
      <3>1. Filed(h, NULL) /\ x \in DOMAIN h.size /\ h.on[x] # NULL
        BY <1>1, <1>3, <2>3
      <3> QED BY <3>1, DestroyFreeFiled DEF g1, order1
    <2>5. /\ Filed(g, NULL)
          /\ g.order = g1.order /\ g.size = g1.size /\ g.on = g1.on
      BY <2>4, FreeOffFiled DEF g
    <2>6. /\ DOMAIN g.size = N \ {x} /\ g.order = order1
          /\ \A k \in N \ {x} : g.size[k] = h.size[k] /\ g.on[k] = h.on[k]
      BY <2>4, <2>5
    <2>7. DOMAIN order1 = N \ {x}
      BY DEF order1, Closed
    <2>8. \A k \in N : /\ h.order[k].pNext \in N \cup {NULL}
                       /\ h.order[k].pNext # NULL => h.order[h.order[k].pNext].pPrev = k
      <3>1. Chain(h.order, h.size)
        BY <1>1
      <3>2. \A k \in N : Placed(h.order, h.size, k)
        BY <3>1, ChainNode
      <3> QED BY <3>2 DEF Placed
    <2>9. [g.size EXCEPT ![n] = s] = size1
      <3>1. g.size = [k \in N \ {x} |-> h.size[k]]
        BY <2>4, <2>5
      <3>2. s = h.size[n] + 1 + h.size[x]
        BY DEF SizeofT
      <3> QED BY <3>1, <3>2 DEF size1, Joined
    <2>10. s \in Nat
      BY <1>1, <2>3 DEF SizeofT
    <2>11. g.order[n].pNext # NULL => g.on[g.order[n].pNext] = NULL
      <3>1. h.order[x].pNext # NULL => h.order[x].pNext \in N \ {x} /\ h.on[h.order[x].pNext] = NULL
        BY <1>1, <1>3, <2>3, <2>8
      <3> QED BY <3>1, <2>3, <2>6
    <2>12. Sorted(g.on, g.size)
      BY <1>1, <2>6 DEF Sorted
    <2>13. Apart(g.order, g.on)
      <3> SUFFICES ASSUME NEW k \in N \ {x}, g.on[k] # NULL, order1[k].pNext # NULL
                   PROVE  g.on[order1[k].pNext] = NULL
        BY <2>6, <2>7 DEF Apart
      <3>1. k # n /\ h.on[k] # NULL
        BY <2>6, <2>3
      <3>2. order1[k].pNext = h.order[k].pNext /\ h.order[k].pNext \in N
            /\ h.order[k].pNext # x /\ h.on[h.order[k].pNext] = NULL
        BY <3>1, <2>3, <2>8, <1>1, <1>3
      <3> QED BY <3>2, <2>6
    <2>14. Half(g, n, s)
      BY <2>3, <2>5, <2>6, <2>9, <2>10, <2>11, <2>12, <2>13 DEF Half
    <2>15. Held(g) = Held(h) /\ \A k \in Held(h) : g.size[k] = h.size[k]
      BY <1>3, <2>6 DEF Held
    <2> QED BY <2>2, <2>14, <2>15
  <1> QED BY <1>2, <1>3

(* Free, second half: the node is put on a list, or swallowed by the node  *)
(* before it.                                                              *)
LEMMA MergedPrevGood ==
  ASSUME NEW h, NEW n, NEW s, Half(h, n, s), NEW g, g = MergedPrev(h, n, s)
  PROVE  /\ Good(g) /\ Held(g) = Held(h) \ {n}
         /\ \A k \in Held(h) \ {n} : g.size[k] = h.size[k]
  <1> DEFINE N == DOMAIN h.size
             p == h.order[n].pPrev
             sz == [h.size EXCEPT ![n] = s]
  <1>1. /\ Filed(h, NULL) /\ n \in N /\ h.on[n] = NULL /\ s \in Nat
        /\ Chain(h.order, sz)
        /\ Sorted(h.on, h.size)
        /\ Apart(h.order, h.on)
        /\ h.order[n].pNext # NULL => h.on[h.order[n].pNext] = NULL
    BY DEF Half
  <1>2. h.on \in [N -> Class \cup {NULL}] /\ DOMAIN sz = N /\ sz[n] = s /\ DOMAIN h.order = N
        /\ \A k \in N : k # n => sz[k] = h.size[k]
    BY <1>1 DEF Filed, Listed, Chain
  <1> HIDE DEF sz
  <1>3. \A k \in N : Placed(h.order, sz, k)
    BY <1>1, <1>2, ChainNode
  <1>4. \A k \in N : /\ h.order[k].pNext \in N \cup {NULL} /\ h.order[k].pPrev \in N \cup {NULL}
                     /\ h.order[k].pNext # NULL => h.order[h.order[k].pNext].pPrev = k
                     /\ k # 0 => h.order[k].pPrev # NULL /\ h.order[h.order[k].pPrev].pNext = k
                     /\ k \in Nat /\ sz[k] \in Nat /\ k + 1 + sz[k] <= csHeap
    BY <1>2, <1>3 DEF Placed
  <1>5. /\ \A k \in N : h.on[k] # NULL => h.on[k] = Lower(h.size[k])
        /\ \A k \in N :
             h.on[k] # NULL /\ h.order[k].pNext # NULL => h.on[h.order[k].pNext] = NULL
    BY <1>1, <1>2 DEF Sorted, Apart
  <1>6. csHeap \in Nat
    BY Constants
  <1>7. CASE ~(p # NULL /\ h.on[p] # NULL)
    <2>1. g = AddFree(h, n, s)
      BY <1>7 DEF MergedPrev
    <2>2. s <= csHeap
      BY <1>1, <1>2, <1>4, <1>6
    <2>3. /\ Filed(g, NULL) /\ Lower(s) \in Class
          /\ g.order = h.order /\ g.size = sz
          /\ g.on = [h.on EXCEPT ![n] = Lower(s)]
      BY <1>1, <2>1, <2>2, AddFreeFiled DEF sz
    <2>4. \A k \in N : g.on[k] = IF k = n THEN Lower(s) ELSE h.on[k]
      BY <1>2, <2>3
    <2>5. Sorted(g.on, g.size)
      BY <1>2, <1>5, <2>3, <2>4 DEF Sorted
    <2>6. Apart(g.order, g.on)
      <3> SUFFICES ASSUME NEW k \in N, g.on[k] # NULL, h.order[k].pNext # NULL
                   PROVE  g.on[h.order[k].pNext] = NULL
        BY <1>2, <2>3 DEF Apart
      <3>1. h.order[k].pNext \in N /\ h.order[h.order[k].pNext].pPrev = k
        BY <1>4
      <3>2. CASE k = n
        <4>1. h.order[n].pNext # n
          <5>1. Placed(h.order, sz, n)
            BY <1>1, <1>3
          <5> QED BY <5>1, Constants DEF Placed
        <4> QED BY <4>1, <3>1, <3>2, <2>4, <1>1
      <3>3. CASE k # n
        <4>1. h.on[k] # NULL
          BY <2>4, <3>3
        <4>2. h.order[k].pNext # n
          <5>1. k # NULL
            BY <1>4, Constants
          <5> QED BY <5>1, <4>1, <3>1, <1>7
        <4> QED BY <4>1, <4>2, <3>1, <2>4, <1>5
      <3> QED BY <3>2, <3>3
    <2>7. Good(g)
      BY <1>1, <2>3, <2>5, <2>6 DEF Good, Filed
    <2>8. Held(g) = Held(h) \ {n}
      <3>1. Lower(s) # NULL
        BY <2>3, Constants
      <3> QED BY <3>1, <2>3, <2>4, <1>2 DEF Held
    <2>9. \A k \in Held(h) \ {n} : g.size[k] = h.size[k]
      BY <2>3, <1>2 DEF Held
    <2> QED BY <2>7, <2>8, <2>9
  <1>8. CASE p # NULL /\ h.on[p] # NULL
    <2> DEFINE r == s + SizeofT + h.size[p]
               h1 == AddFree(h, p, r)
               h2 == Destroy(h1, n)
               order1 == Closed(h.order, sz, n)
               size1 == Joined(sz, p, n)
    <2>1. g = FreeOff(h2, h.on[p])
      BY <1>8 DEF MergedPrev
    <2> HIDE DEF h1, h2, order1, size1
    <2>2. p \in N /\ p # n /\ n # 0 /\ h.order[p].pNext = n
      <3>1. h.order[0].pPrev = NULL
        BY <1>1 DEF Chain
      <3>2. p \in N
        BY <1>1, <1>4, <1>8
      <3>3. n # 0
        BY <1>8, <3>1
      <3> QED BY <1>1, <1>4, <1>8, <3>2, <3>3
    <2> HIDE DEF p
    <2>3. /\ Chain(order1, size1)
          /\ h.order[n].pPrev = p
          /\ order1[p].pNext = h.order[n].pNext
          /\ \A k \in N \ {n} : k # p => order1[k].pNext = h.order[k].pNext
      <3>1. Chain(h.order, sz) /\ p \in DOMAIN sz /\ n = h.order[p].pNext /\ n # NULL
        <4>1. n # NULL
          BY <1>1, <1>4, Constants
        <4> QED BY <4>1, <1>1, <1>2, <2>2
      <3>2. order1 = Closed(h.order, sz, n) /\ size1 = Joined(sz, p, n)
        BY DEF order1, size1
      <3> HIDE DEF N
      <3>3. /\ Chain(order1, size1)
            /\ h.order[n].pPrev = p
            /\ order1[p].pNext = h.order[n].pNext
            /\ \A k \in DOMAIN sz \ {n} : k # p => order1[k].pNext = h.order[k].pNext
        BY <3>1, <3>2, ChainJoin
      <3> QED BY <3>3, <1>2 DEF N
    <2>4. r \in Nat /\ r <= csHeap /\ r = sz[p] + 1 + sz[n]
      <3>1. /\ n = p + 1 + sz[p] /\ sz[p] = h.size[p] /\ p \in Nat /\ sz[p] \in Nat
            /\ n + 1 + s <= csHeap
        <4>1. Placed(h.order, sz, p)
          BY <1>3, <2>2
        <4>2. n # NULL
          BY <1>1, <1>4, Constants
        <4> QED BY <4>1, <4>2, <1>1, <1>2, <1>4, <2>2 DEF Placed
      <3> QED BY <3>1, <1>1, <1>2, <1>6 DEF SizeofT
    <2> HIDE DEF r
    <2>5. /\ Filed(h1, h.on[p]) /\ h.on[p] \in Class /\ Lower(r) \in Class
          /\ h1.order = h.order /\ h1.size = [h.size EXCEPT ![p] = r]
          /\ h1.on = [h.on EXCEPT ![p] = Lower(r)]
      <3>1. Filed(h, NULL) /\ p \in DOMAIN h.size /\ h.on[p] # NULL
        BY <1>1, <1>8, <2>2 DEF p
      <3>2. h1 = AddFree(h, p, r)
        BY DEF h1
      <3> QED BY <2>4, <3>1, <3>2, MoveFreeFiled
    <2>6. n \in DOMAIN h1.size /\ DOMAIN h1.size = N /\ h1.on[n] = NULL
      BY <1>1, <1>2, <2>2, <2>5
    <2>7. /\ Filed(h2, h.on[p]) /\ h2.order = Closed(h1.order, h1.size, n)
          /\ h2.size = [k \in N \ {n} |-> h1.size[k]]
          /\ h2.on = [k \in N \ {n} |-> h1.on[k]]
      <3>1. Filed(h1, h.on[p])
        BY <2>5
      <3>2. /\ Filed(h2, h.on[p]) /\ h2.order = Closed(h1.order, h1.size, n)
            /\ h2.size = [k \in DOMAIN h1.size \ {n} |-> h1.size[k]]
            /\ h2.on = [k \in DOMAIN h1.size \ {n} |-> h1.on[k]]
        BY <3>1, <2>6, DestroyFiled DEF h2
      <3> QED BY <3>2, <2>6
    <2>8. /\ Filed(g, NULL)
          /\ g.order = h2.order /\ g.size = h2.size /\ g.on = h2.on
      BY <2>1, <2>5, <2>7, FreeOffFiled
    <2>9. g.order = order1
      BY <2>5, <2>6, <2>7, <2>8, <1>2 DEF order1, Closed
    <2>10. g.size = size1
      <3>1. \A k \in N \ {n} : h1.size[k] = IF k = p THEN sz[p] + 1 + sz[n] ELSE sz[k]
        BY <2>2, <2>4, <2>5, <1>2
      <3>2. size1 = [k \in N \ {n} |-> IF k = p THEN sz[p] + 1 + sz[n] ELSE sz[k]]
        BY <1>2 DEF size1, Joined
      <3> QED BY <3>1, <3>2, <2>7, <2>8
    <2>11. /\ DOMAIN g.size = N \ {n} /\ DOMAIN order1 = N \ {n}
           /\ g.size[p] = r /\ g.on[p] = Lower(r)
           /\ \A k \in N \ {n} : k # p => g.size[k] = h.size[k] /\ g.on[k] = h.on[k]
      <3>1. DOMAIN order1 = N \ {n}
        BY <1>2 DEF order1, Closed
      <3> QED BY <3>1, <2>2, <2>5, <2>7, <2>8, <1>2
    <2>12. Sorted(g.on, g.size)
      BY <1>5, <2>11 DEF Sorted
    <2>13. Apart(g.order, g.on)
      <3> SUFFICES ASSUME NEW k \in N \ {n}, g.on[k] # NULL, order1[k].pNext # NULL
                   PROVE  g.on[order1[k].pNext] = NULL
        BY <2>9, <2>11 DEF Apart
      <3>1. CASE k = p
        <4>1. order1[k].pNext = h.order[n].pNext /\ h.on[h.order[n].pNext] = NULL
          BY <2>3, <3>1, <1>1
        <4>2. h.order[n].pNext \in N /\ h.order[n].pNext # n /\ h.order[n].pNext # p
          <5>1. Placed(h.order, sz, n)
            BY <1>1, <1>3
          <5>2. h.order[n].pNext # n
            BY <5>1, Constants DEF Placed
          <5> QED BY <4>1, <5>2, <1>1, <1>4, <1>8 DEF p
        <4> QED BY <4>1, <4>2, <2>11
      <3>2. CASE k # p
        <4>1. h.on[k] # NULL /\ order1[k].pNext = h.order[k].pNext
          BY <2>3, <2>11, <3>2
        <4>2. h.order[k].pNext \in N /\ h.order[h.order[k].pNext].pPrev = k
              /\ h.on[h.order[k].pNext] = NULL
          BY <4>1, <1>4, <1>5
        <4>3. h.order[k].pNext # n /\ h.order[k].pNext # p
          BY <4>2, <3>2, <2>3, <1>8 DEF p
        <4> QED BY <4>1, <4>2, <4>3, <2>11
      <3> QED BY <3>1, <3>2
    <2>14. Good(g)
      BY <2>3, <2>8, <2>9, <2>10, <2>12, <2>13 DEF Good, Filed
    <2>15. Held(g) = Held(h) \ {n}
      <3>1. Lower(r) # NULL
        BY <2>5, Constants
      <3> QED BY <3>1, <1>8, <2>2, <2>11 DEF Held, p
    <2>16. \A k \in Held(h) \ {n} : g.size[k] = h.size[k]
      <3>1. p \notin Held(h)
        BY <1>8 DEF Held, p
      <3> QED BY <3>1, <2>11 DEF Held
    <2> QED BY <2>14, <2>15, <2>16
  <1> QED BY <1>7, <1>8

(* Free keeps the heap right: the node is no longer held, and no other     *)
(* node that is held changes.                                              *)
LEMMA FreedGood ==
  ASSUME NEW h, Good(h), NEW n \in DOMAIN h.size, h.on[n] = NULL,
         NEW m, m = MergedNext(h, n, h.size[n]),
         NEW g, g = MergedPrev(m.heap, n, m.size)
  PROVE  /\ Good(g) /\ Held(g) = Held(h) \ {n}
         /\ \A k \in Held(h) \ {n} : g.size[k] = h.size[k]
  <1>1. /\ Half(m.heap, n, m.size) /\ Held(m.heap) = Held(h)
        /\ \A k \in Held(h) : m.heap.size[k] = h.size[k]
    BY MergedNextHalf
  <1>2. /\ Good(g) /\ Held(g) = Held(m.heap) \ {n}
        /\ \A k \in Held(m.heap) \ {n} : g.size[k] = m.heap.size[k]
    BY <1>1, MergedPrevGood
  <1> QED BY <1>1, <1>2

-----------------------------------------------------------------------------
(* A list that is marked holds free nodes only, and at least one.          *)
LEMMA MarkedList ==
  ASSUME NEW h, Good(h), NEW b \in h.mask
  PROVE  /\ h.list[b] \in Seq(Area) /\ DOMAIN h.list[b] \subseteq Nat
         /\ \A k \in DOMAIN h.list[b] :
              h.list[b][k] \in DOMAIN h.size /\ h.on[h.list[b][k]] # NULL
         /\ Head(h.list[b]) \in DOMAIN h.size /\ h.on[Head(h.list[b])] # NULL
         /\ h.on[Head(h.list[b])] = b
  <1> DEFINE l == h.list[b]
  <1>1. b \in Class /\ b # NULL
    BY Constants DEF Good, Masked
  <1>2. l \in Seq(Area) /\ Range(l) = {n \in DOMAIN h.size : h.on[n] = b}
    BY <1>1 DEF Good, Listed
  <1>3. l # <<>>
    BY <1>1 DEF Good, Masked
  <1> HIDE DEF l
  <1>4. DOMAIN l = 1 .. Len(l) /\ Len(l) \in Nat
    BY <1>2, LenProperties
  <1>5. \A k \in DOMAIN l : l[k] \in DOMAIN h.size /\ h.on[l[k]] = b
    BY <1>2 DEF Range
  <1>6. Head(l) = l[1] /\ 1 \in DOMAIN l
    <2>1. Len(l) # 0
      BY <1>2, <1>3, EmptySeq
    <2> QED BY <2>1, <1>2, <1>4
  <1> QED BY <1>1, <1>2, <1>4, <1>5, <1>6 DEF l

(* Who holds the nodes that are not free, and what threads remember.       *)
Users ==
  /\ pc \in [Thread -> {"idle", "lower", "free"}]
  /\ sRequest \in [Thread -> Request \cup {0}]
  /\ pNode \in [Thread -> Held(Heap) \cup {NULL}]
  /\ sFree \in [Thread -> 0 .. csHeap]
  /\ asked \in [Held(Heap) -> Request]
  /\ alone \subseteq Thread
  /\ \A t \in Thread : pc[t] = "lower" => sRequest[t] \in Request
  /\ \A t \in Thread : pNode[t] # NULL <=> pc[t] = "free"
  /\ \A t \in Thread : pNode[t] # NULL => pNode[t] \notin live /\ sFree[t] = ms[pNode[t]]
  /\ \A t, u \in Thread : t # u /\ pNode[t] # NULL => pNode[t] # pNode[u]
  /\ live \subseteq Held(Heap)
  /\ \A n \in Held(Heap) : n \in live \/ \E t \in Thread : pNode[t] = n
  /\ \A n \in Held(Heap) : ms[n] >= asked[n]
  /\ \A t \in alone : pc[t] = "lower" => \A c \in mabFree : ~(c >= Upper(sRequest[t]))

HeapInv == Good(Heap) /\ Users

(* The fields of the heap.                                                 *)
LEMMA HeapFields ==
  /\ Heap.order = mOrder /\ Heap.size = ms /\ Heap.on = mpFree
  /\ Heap.list = maFree /\ Heap.mask = mabFree
  BY DEF Heap

(* What the heap becomes.                                                  *)
LEMMA BecomesHeap ==
  ASSUME NEW g, Shape(g), Becomes(g)
  PROVE  Heap' = g
  <1>1. Heap' = [order |-> g.order, size |-> g.size, on |-> g.on, list |-> g.list, mask |-> g.mask]
    BY DEF Heap, Becomes
  <1> QED BY <1>1 DEF Shape

(* A free node that is large enough.                                       *)
Fits(n, s) == n \in Node /\ mpFree[n] # NULL /\ ms[n] >= s

(* What the heap is once a free node is given to a caller.                 *)
LEMMA GiveHeap ==
  ASSUME HeapInv, NEW t, NEW s \in Request, NEW n, Fits(n, s), Give(t, n, s)
  PROVE  /\ Good(Heap)' /\ Held(Heap)' = Held(Heap) \cup {n} /\ n \notin Held(Heap)
         /\ ms'[n] >= s /\ asked'[n] = s
         /\ \A m \in Held(Heap) : ms'[m] = ms[m] /\ asked'[m] = asked[m]
  <1> DEFINE g == Taken(Heap, n, s)
  <1>1. /\ Good(Heap) /\ Users /\ n \in DOMAIN Heap.size /\ Heap.on[n] # NULL
        /\ Heap.size[n] >= s /\ s \in Nat
    BY HeapFields, Constants DEF HeapInv, Fits, Node
  <1>2. Becomes(g) /\ asked' = [m \in DOMAIN asked \cup {n} |-> IF m = n THEN s ELSE asked[m]]
    BY DEF Give
  <1>3. /\ Good(g) /\ Held(g) = Held(Heap) \cup {n}
        /\ \A m \in Held(Heap) : g.size[m] = Heap.size[m]
        /\ g.size[n] >= s
    BY <1>1, TakenGood
  <1> HIDE DEF g
  <1>4. Heap' = g
    BY <1>2, <1>3, BecomesHeap DEF Good
  <1>5. Good(Heap') /\ Held(Heap') = Held(Heap) \cup {n}
    BY <1>3, <1>4 DEF Good, Held
  <1>6. Good(Heap)' /\ Held(Heap)' = Held(Heap) \cup {n}
    BY <1>5 DEF Good, Held
  <1>7. n \notin Held(Heap) /\ DOMAIN asked = Held(Heap)
    BY <1>1 DEF Held, Users
  <1>8. ms'[n] >= s /\ \A m \in Held(Heap) : ms'[m] = ms[m]
    BY <1>2, <1>3, HeapFields DEF Becomes
  <1> QED BY <1>2, <1>6, <1>7, <1>8

(* Giving a free node to a caller.                                         *)
LEMMA GiveStep ==
  ASSUME HeapInv, NEW t \in Thread, pc[t] # "free", NEW s \in Request,
         NEW n, Fits(n, s), Give(t, n, s)
  PROVE  HeapInv'
  <1>1. Good(Heap) /\ Users
    BY DEF HeapInv
  <1>2. /\ live' = live \cup {n}
        /\ asked' = [m \in DOMAIN asked \cup {n} |-> IF m = n THEN s ELSE asked[m]]
        /\ pc' = [pc EXCEPT ![t] = "idle"] /\ sRequest' = [sRequest EXCEPT ![t] = 0]
        /\ alone' = {} /\ UNCHANGED <<pNode, sFree>>
    BY DEF Give, Goto, freeing
  <1>3. /\ Good(Heap)' /\ Held(Heap)' = Held(Heap) \cup {n} /\ n \notin Held(Heap)
        /\ ms'[n] >= s /\ asked'[n] = s
        /\ \A m \in Held(Heap) : ms'[m] = ms[m] /\ asked'[m] = asked[m]
    BY GiveHeap
  <1> DEFINE H == Held(Heap)
  <1>4. Users'
    <2>1. /\ pc' \in [Thread -> {"idle", "lower", "free"}]
          /\ sRequest' \in [Thread -> Request \cup {0}]
          /\ pNode' \in [Thread -> Held(Heap)' \cup {NULL}]
          /\ sFree' \in [Thread -> 0 .. csHeap]
          /\ alone' \subseteq Thread
      BY <1>1, <1>2, <1>3 DEF Users
    <2>2. asked' \in [Held(Heap)' -> Request]
      <3>1. asked \in [H -> Request]
        BY <1>1 DEF Users
      <3> HIDE DEF H
      <3>2. asked' \in [H \cup {n} -> Request]
        BY <1>2, <3>1
      <3> QED BY <3>2, <1>3 DEF H
    <2>3. \A u \in Thread : /\ pc'[u] = "lower" => sRequest'[u] \in Request
                            /\ pNode'[u] # NULL <=> pc'[u] = "free"
      BY <1>1, <1>2 DEF Users
    <2>4. \A u \in Thread : pNode'[u] # NULL => pNode'[u] \notin live' /\ sFree'[u] = ms'[pNode'[u]]
      <3> SUFFICES ASSUME NEW u \in Thread, pNode[u] # NULL
                   PROVE  pNode[u] \notin live' /\ sFree[u] = ms'[pNode[u]]
        BY <1>2
      <3>1. pNode[u] \in Held(Heap) /\ pNode[u] \notin live /\ sFree[u] = ms[pNode[u]]
        BY <1>1 DEF Users
      <3> QED BY <3>1, <1>2, <1>3
    <2>5. \A u, v \in Thread : u # v /\ pNode'[u] # NULL => pNode'[u] # pNode'[v]
      BY <1>1, <1>2 DEF Users
    <2>6. live' \subseteq Held(Heap)'
      BY <1>1, <1>2, <1>3 DEF Users
    <2>7. \A m \in Held(Heap)' : m \in live' \/ \E u \in Thread : pNode'[u] = m
      BY <1>1, <1>2, <1>3 DEF Users
    <2>8. \A m \in Held(Heap)' : ms'[m] >= asked'[m]
      <3> SUFFICES ASSUME NEW m \in Held(Heap) \cup {n} PROVE ms'[m] >= asked'[m]
        BY <1>3
      <3>3. CASE m = n
        BY <3>3, <1>3
      <3>4. CASE m # n
        BY <3>4, <1>1, <1>3 DEF Users
      <3> QED BY <3>3, <3>4
    <2> QED BY <1>2, <2>1, <2>2, <2>3, <2>4, <2>5, <2>6, <2>7, <2>8 DEF Users
  <1> QED BY <1>3, <1>4 DEF HeapInv

(* What AllocUpper gives: the head of a marked list.                       *)
LEMMA UpperGives ==
  ASSUME HeapInv, NEW s \in Request, Marked(Upper(s)) # {}
  PROVE  Fits(Head(maFree[Min(Marked(Upper(s)))]), s)
  <1> DEFINE S == Marked(Upper(s))
             n == Head(maFree[Min(S)])
  <1>1. Good(Heap)
    BY DEF HeapInv
  <1>2. S \subseteq mabFree /\ S \subseteq Nat
    BY <1>1, HeapFields DEF Good, Masked, Marked, Class
  <1>3. Min(S) \in mabFree /\ Min(S) >= Upper(s)
    BY <1>2, MinIsIn DEF Marked
  <1> HIDE DEF S
  <1>4. n \in Node /\ mpFree[n] # NULL /\ mpFree[n] = Min(S)
    BY <1>1, <1>3, MarkedList, HeapFields DEF Node
  <1> HIDE DEF n
  <1>5. Placed(mOrder, ms, n)
    BY <1>1, <1>4, ChainNode, HeapFields DEF Good, Node
  <1>6. ms[n] \in Nat /\ ms[n] <= csHeap /\ csHeap \in Nat /\ s \in 1 .. csHeap
    BY <1>5, Constants DEF Placed
  <1>7. mpFree[n] = Lower(ms[n])
    BY <1>1, <1>4, HeapFields DEF Good, Sorted, Node
  <1>8. Upper(s) <= Lower(ms[n])
    BY <1>3, <1>4, <1>7
  <1>9. s <= ms[n]
    BY <1>6, <1>8, UpperEnough
  <1> QED BY <1>4, <1>6, <1>9 DEF Fits, n, S

(* What AllocLower gives: a node of the first marked list.                 *)
LEMMA LowerGives ==
  ASSUME HeapInv, NEW s, NEW list,
         list = IF Marked(Lower(s)) = {} THEN <<>> ELSE maFree[Min(Marked(Lower(s)))],
         Fitting(list, s) # {}
  PROVE  Fits(list[Min(Fitting(list, s))], s)
  <1> DEFINE S == Marked(Lower(s))
             fit == Fitting(list, s)
  <1>1. Good(Heap)
    BY DEF HeapInv
  <1>2. S # {} /\ S \subseteq mabFree /\ S \subseteq Nat
    BY <1>1, HeapFields DEF Good, Masked, Marked, Class, Fitting
  <1>3. list = maFree[Min(S)]
    BY <1>2
  <1> HIDE DEF S
  <1>4. Min(S) \in mabFree
    BY <1>2, MinIsIn
  <1>5. /\ DOMAIN list \subseteq Nat
        /\ \A k \in DOMAIN list : list[k] \in Node /\ mpFree[list[k]] # NULL
    BY <1>1, <1>3, <1>4, MarkedList, HeapFields DEF Node
  <1>6. fit \subseteq DOMAIN list /\ \A k \in fit : ms[list[k]] >= s
    BY DEF Fitting
  <1> HIDE DEF fit
  <1>7. Min(fit) \in fit
    BY <1>5, <1>6, MinIsIn DEF fit
  <1> QED BY <1>5, <1>6, <1>7 DEF Fits, fit

(* AllocUpper: what it gives is the head of a marked list.                 *)
LEMMA AllocUpperStep ==
  ASSUME HeapInv, NEW t \in Thread, NEW s \in Request, AllocUpper(t, s)
  PROVE  HeapInv'
  <1> DEFINE S == Marked(Upper(s))
  <1>1. Good(Heap) /\ Users
    BY DEF HeapInv
  <1>2. pc[t] = "idle"
    BY DEF AllocUpper
  <1>3. CASE S # {} /\ Give(t, Head(maFree[Min(S)]), s)
    BY <1>2, <1>3, UpperGives, GiveStep
  <1>4. CASE ~(S # {} /\ Give(t, Head(maFree[Min(S)]), s))
    <2>1. /\ Marked(Upper(s)) = {}
          /\ pc' = [pc EXCEPT ![t] = "lower"]
          /\ sRequest' = [sRequest EXCEPT ![t] = s]
          /\ alone' = alone \cup {t}
          /\ UNCHANGED <<mOrder, ms, mpFree, maFree, mabFree, pNode, sFree, live, asked>>
      BY <1>4 DEF AllocUpper, Goto, heap, freeing
    <2>2. Heap' = Heap
      BY <2>1 DEF Heap
    <2>3. Good(Heap)' /\ Held(Heap)' = Held(Heap)
      BY <1>1, <2>2 DEF Good, Held
    <2>4. \A u \in alone' : pc'[u] = "lower" => \A c \in mabFree' : ~(c >= Upper(sRequest'[u]))
      <3> SUFFICES ASSUME NEW u \in alone \cup {t}, pc'[u] = "lower"
                   PROVE  \A c \in mabFree : ~(c >= Upper(sRequest'[u]))
        BY <2>1
      <3>1. CASE u = t
        BY <3>1, <1>1, <2>1 DEF Users, Marked
      <3>2. CASE u # t
        BY <3>2, <1>1, <2>1 DEF Users
      <3> QED BY <3>1, <3>2
    <2>5. Users'
      BY <1>1, <1>2, <2>1, <2>3, <2>4 DEF Users
    <2> QED BY <2>3, <2>5 DEF HeapInv
  <1> QED BY <1>3, <1>4

(* AllocLower: what it gives is on the first marked list.                  *)
LEMMA AllocLowerStep ==
  ASSUME HeapInv, NEW t \in Thread, AllocLower(t)
  PROVE  HeapInv'
  <1> DEFINE s == sRequest[t]
             S == Marked(Lower(s))
             list == IF S = {} THEN <<>> ELSE maFree[Min(S)]
             fit == Fitting(list, s)
  <1>1. Good(Heap) /\ Users
    BY DEF HeapInv
  <1>2. pc[t] = "lower" /\ s \in Request
    BY <1>1 DEF AllocLower, Users
  <1>3. CASE fit # {} /\ Give(t, list[Min(fit)], s)
    BY <1>2, <1>3, LowerGives, GiveStep
  <1>4. CASE ~(fit # {} /\ Give(t, list[Min(fit)], s))
    <2>1. /\ pc' = [pc EXCEPT ![t] = "idle"]
          /\ sRequest' = [sRequest EXCEPT ![t] = 0]
          /\ alone' = alone \ {t}
          /\ UNCHANGED <<mOrder, ms, mpFree, maFree, mabFree, pNode, sFree, live, asked>>
      BY <1>4 DEF AllocLower, Goto, heap, freeing
    <2>2. Heap' = Heap
      BY <2>1 DEF Heap
    <2>3. Good(Heap)' /\ Held(Heap)' = Held(Heap)
      BY <1>1, <2>2 DEF Good, Held
    <2>4. \A u \in alone' : pc'[u] = "lower" => \A c \in mabFree : ~(c >= Upper(sRequest[u]))
      BY <1>1, <2>1 DEF Users
    <2>5. \A u \in alone' : u # t /\ sRequest'[u] = sRequest[u]
      BY <1>1, <2>1 DEF Users
    <2>6. \A u \in alone' : pc'[u] = "lower" => \A c \in mabFree' : ~(c >= Upper(sRequest'[u]))
      BY <2>1, <2>4, <2>5
    <2>7. Users'
      BY <1>1, <1>2, <2>1, <2>3, <2>6 DEF Users
    <2> QED BY <2>3, <2>7 DEF HeapInv
  <1> QED BY <1>3, <1>4

(* Free, before the mutex: the node leaves the hands of its caller.        *)
LEMMA FreeReadStep ==
  ASSUME HeapInv, NEW t \in Thread, NEW n \in live, FreeRead(t, n)
  PROVE  HeapInv'
  <1>1. Good(Heap) /\ Users
    BY DEF HeapInv
  <1>2. /\ pc[t] = "idle" /\ live' = live \ {n}
        /\ pNode' = [pNode EXCEPT ![t] = n]
        /\ sFree' = [sFree EXCEPT ![t] = ms[n]]
        /\ pc' = [pc EXCEPT ![t] = "free"]
        /\ UNCHANGED <<mOrder, ms, mpFree, maFree, mabFree, sRequest, asked, alone>>
    BY DEF FreeRead, Goto, heap
  <1>3. Heap' = Heap
    BY <1>2 DEF Heap
  <1>4. Good(Heap)' /\ Held(Heap)' = Held(Heap)
    BY <1>1, <1>3 DEF Good, Held
  <1>5. n \in Held(Heap) /\ pNode[t] = NULL /\ \A u \in Thread : pNode[u] # n
    <2>1. n \in Held(Heap)
      BY <1>1 DEF Users
    <2>2. n # NULL
      BY <1>1, <2>1, Constants DEF Good, Chain, Held
    <2> QED BY <1>1, <1>2, <2>1, <2>2 DEF Users
  <1>6. ms[n] \in 0 .. csHeap
    <2>1. n \in DOMAIN ms /\ Chain(mOrder, ms)
      BY <1>1, <1>5, HeapFields DEF Good, Held
    <2>2. Placed(mOrder, ms, n)
      BY <2>1, ChainNode
    <2> QED BY <2>2, Constants DEF Placed
  <1>7. n # NULL
    BY <1>1, <1>5, Constants DEF Good, Chain, Held
  <1>8. Users'
    <2>1. /\ pc' \in [Thread -> {"idle", "lower", "free"}]
          /\ sRequest' \in [Thread -> Request \cup {0}]
          /\ pNode' \in [Thread -> Held(Heap)' \cup {NULL}]
          /\ sFree' \in [Thread -> 0 .. csHeap]
          /\ asked' \in [Held(Heap)' -> Request]
          /\ alone' \subseteq Thread
      BY <1>1, <1>2, <1>4, <1>5, <1>6 DEF Users
    <2>2. \A u \in Thread : /\ pc'[u] = "lower" => sRequest'[u] \in Request
                            /\ pNode'[u] # NULL <=> pc'[u] = "free"
      BY <1>1, <1>2, <1>7 DEF Users
    <2>3. \A u \in Thread : pNode'[u] # NULL => pNode'[u] \notin live' /\ sFree'[u] = ms'[pNode'[u]]
      <3> SUFFICES ASSUME NEW u \in Thread, pNode'[u] # NULL
                   PROVE  pNode'[u] \notin live' /\ sFree'[u] = ms'[pNode'[u]]
        OBVIOUS
      <3>1. CASE u = t
        BY <3>1, <1>1, <1>2 DEF Users
      <3>2. CASE u # t
        <4>1. pNode'[u] = pNode[u] /\ sFree'[u] = sFree[u]
          BY <3>2, <1>1, <1>2 DEF Users
        <4> QED BY <4>1, <1>1, <1>2 DEF Users
      <3> QED BY <3>1, <3>2
    <2>4. \A u, v \in Thread : u # v /\ pNode'[u] # NULL => pNode'[u] # pNode'[v]
      BY <1>1, <1>2, <1>5 DEF Users
    <2>5. live' \subseteq Held(Heap)'
      BY <1>1, <1>2, <1>4 DEF Users
    <2>6. \A m \in Held(Heap)' : m \in live' \/ \E u \in Thread : pNode'[u] = m
      <3> SUFFICES ASSUME NEW m \in Held(Heap), m \notin live'
                   PROVE  \E u \in Thread : pNode'[u] = m
        BY <1>4
      <3>1. CASE m = n
        BY <3>1, <1>1, <1>2 DEF Users
      <3>2. CASE m # n
        <4>1. PICK u \in Thread : pNode[u] = m
          BY <3>2, <1>1, <1>2 DEF Users
        <4>2. m # NULL
          BY <1>1, Constants DEF Good, Chain, Held
        <4>3. pNode'[u] = m
          BY <4>1, <4>2, <1>1, <1>2, <1>5 DEF Users
        <4> QED BY <4>3
      <3> QED BY <3>1, <3>2
    <2>7. \A m \in Held(Heap)' : ms'[m] >= asked'[m]
      BY <1>1, <1>2, <1>4 DEF Users
    <2>8. \A u \in alone' : pc'[u] = "lower" => \A c \in mabFree' : ~(c >= Upper(sRequest'[u]))
      <3> SUFFICES ASSUME NEW u \in alone, pc'[u] = "lower"
                   PROVE  \A c \in mabFree : ~(c >= Upper(sRequest[u]))
        BY <1>2
      <3>1. pc[u] = "lower"
        BY <1>1, <1>2 DEF Users
      <3> QED BY <3>1, <1>1 DEF Users
    <2> QED BY <2>1, <2>2, <2>3, <2>4, <2>5, <2>6, <2>7, <2>8 DEF Users
  <1> QED BY <1>4, <1>8 DEF HeapInv

(* What the heap is once a node is merged with its neighbours.             *)
LEMMA LockedHeap ==
  ASSUME HeapInv, NEW t \in Thread, FreeLocked(t)
  PROVE  /\ pNode[t] \in Held(Heap)
         /\ Good(Heap)' /\ Held(Heap)' = Held(Heap) \ {pNode[t]}
         /\ \A k \in Held(Heap) \ {pNode[t]} : ms'[k] = ms[k] /\ asked'[k] = asked[k]
  <1> DEFINE n == pNode[t]
             m == MergedNext(Heap, n, sFree[t])
             g == MergedPrev(m.heap, n, m.size)
  <1>1. Good(Heap) /\ Users
    BY DEF HeapInv
  <1>2. /\ pc[t] = "free" /\ Becomes(g)
        /\ asked' = [k \in DOMAIN asked \ {n} |-> asked[k]]
    BY DEF FreeLocked
  <1>3. n \in Held(Heap) /\ sFree[t] = ms[n] /\ DOMAIN asked = Held(Heap)
    BY <1>1, <1>2 DEF Users
  <1> HIDE DEF n
  <1>4. /\ Good(g) /\ Held(g) = Held(Heap) \ {n}
        /\ \A k \in Held(Heap) \ {n} : g.size[k] = Heap.size[k]
    <2>1. n \in DOMAIN Heap.size /\ Heap.on[n] = NULL
      BY <1>3 DEF Held
    <2>2. m = MergedNext(Heap, n, Heap.size[n])
      BY <1>3, HeapFields
    <2> HIDE DEF m
    <2> QED BY <1>1, <2>1, <2>2, FreedGood
  <1> HIDE DEF g
  <1>5. Heap' = g
    BY <1>2, <1>4, BecomesHeap DEF Good
  <1>6. Good(Heap)' /\ Held(Heap)' = Held(Heap) \ {n}
    BY <1>4, <1>5 DEF Good, Held
  <1>7. \A k \in Held(Heap) \ {n} : ms'[k] = ms[k]
    BY <1>2, <1>4, HeapFields DEF Becomes
  <1> QED BY <1>2, <1>3, <1>6, <1>7 DEF n

(* Free, under the mutex: the node is merged with its neighbours.          *)
LEMMA FreeLockedStep ==
  ASSUME HeapInv, NEW t \in Thread, FreeLocked(t)
  PROVE  HeapInv'
  <1> DEFINE n == pNode[t]
  <1>1. Good(Heap) /\ Users
    BY DEF HeapInv
  <1>2. /\ pc[t] = "free"
        /\ pNode' = [pNode EXCEPT ![t] = NULL]
        /\ sFree' = [sFree EXCEPT ![t] = 0]
        /\ pc' = [pc EXCEPT ![t] = "idle"]
        /\ asked' = [k \in DOMAIN asked \ {n} |-> asked[k]]
        /\ alone' = {} /\ UNCHANGED <<sRequest, live>>
    BY DEF FreeLocked, Goto
  <1>3. /\ n \in Held(Heap) /\ n # NULL /\ n \notin live /\ sFree[t] = ms[n]
        /\ \A u \in Thread : u # t => pNode[u] # n
    BY <1>1, <1>2 DEF Users
  <1>4. /\ Good(Heap)' /\ Held(Heap)' = Held(Heap) \ {n}
        /\ \A k \in Held(Heap) \ {n} : ms'[k] = ms[k] /\ asked'[k] = asked[k]
    BY LockedHeap
  <1> HIDE DEF n
  <1> DEFINE H == Held(Heap)
  <1>5. Users'
    <2>1. /\ pc' \in [Thread -> {"idle", "lower", "free"}]
          /\ sRequest' \in [Thread -> Request \cup {0}]
          /\ sFree' \in [Thread -> 0 .. csHeap]
          /\ alone' \subseteq Thread
      BY <1>1, <1>2, Constants DEF Users
    <2>2. asked' \in [Held(Heap)' -> Request]
      <3>1. asked \in [H -> Request]
        BY <1>1 DEF Users
      <3> HIDE DEF H
      <3>2. asked' \in [H \ {n} -> Request]
        BY <1>2, <3>1
      <3> QED BY <3>2, <1>4 DEF H
    <2>3. \A u \in Thread : pNode'[u] = IF u = t THEN NULL ELSE pNode[u]
      BY <1>1, <1>2 DEF Users
    <2>4. pNode' \in [Thread -> Held(Heap)' \cup {NULL}]
      <3>1. \A u \in Thread : pNode[u] \in Held(Heap) \cup {NULL}
        BY <1>1 DEF Users
      <3>2. \A u \in Thread : pNode'[u] \in Held(Heap)' \cup {NULL}
        BY <2>3, <3>1, <1>3, <1>4
      <3> QED BY <1>1, <1>2, <3>2 DEF Users
    <2>5. \A u \in Thread : /\ pc'[u] = "lower" => sRequest'[u] \in Request
                            /\ pNode'[u] # NULL <=> pc'[u] = "free"
      BY <1>1, <1>2, <2>3 DEF Users
    <2>6. \A u \in Thread : pNode'[u] # NULL => pNode'[u] \notin live' /\ sFree'[u] = ms'[pNode'[u]]
      <3> SUFFICES ASSUME NEW u \in Thread, u # t, pNode[u] # NULL
                   PROVE  pNode[u] \notin live /\ sFree'[u] = ms'[pNode[u]]
        BY <1>2, <2>3
      <3>1. /\ pNode[u] \in Held(Heap) \ {n} /\ pNode[u] \notin live
            /\ sFree[u] = ms[pNode[u]] /\ sFree'[u] = sFree[u]
        BY <1>1, <1>2, <1>3 DEF Users
      <3> QED BY <3>1, <1>4
    <2>7. \A u, v \in Thread : u # v /\ pNode'[u] # NULL => pNode'[u] # pNode'[v]
      BY <1>1, <2>3 DEF Users
    <2>8. live' \subseteq Held(Heap)'
      BY <1>1, <1>2, <1>3, <1>4 DEF Users
    <2>9. \A k \in Held(Heap)' : k \in live' \/ \E u \in Thread : pNode'[u] = k
      BY <1>1, <1>2, <1>3, <1>4, <2>3 DEF Users, n
    <2>10. \A k \in Held(Heap)' : ms'[k] >= asked'[k]
      <3> SUFFICES ASSUME NEW k \in Held(Heap) \ {n} PROVE ms'[k] >= asked'[k]
        BY <1>4
      <3> QED BY <1>1, <1>4 DEF Users
    <2> QED BY <1>2, <2>10, <2>1, <2>2, <2>4, <2>5, <2>6, <2>7, <2>8, <2>9 DEF Users
  <1> QED BY <1>4, <1>5 DEF HeapInv

(* Initially the area is one free node.                                    *)
LEMMA HeapInit == Init => HeapInv
  <1> SUFFICES ASSUME Init PROVE HeapInv
    OBVIOUS
  <1> DEFINE s == csHeap - 1
             b == Lower(s)
  <1>1. csHeap \in Nat /\ csHeap >= 1 /\ s \in Nat /\ s <= csHeap
    BY Constants
  <1>2. b \in Class /\ b # NULL
    BY <1>1, LowerClass, Constants
  <1>3. /\ mOrder = [n \in {0} |-> [pPrev |-> NULL, pNext |-> NULL]]
        /\ ms = [n \in {0} |-> s] /\ mpFree = [n \in {0} |-> b]
        /\ maFree = [c \in Class |-> IF c = b THEN <<0>> ELSE <<>>]
        /\ mabFree = {b}
        /\ pc = [t \in Thread |-> "idle"]
        /\ sRequest = [t \in Thread |-> 0]
        /\ pNode = [t \in Thread |-> NULL]
        /\ sFree = [t \in Thread |-> 0]
        /\ live = {} /\ asked = <<>> /\ alone = {}
    BY DEF Init, SizeofT
  <1> HIDE DEF s, b
  <1>4. Chain(mOrder, ms)
    BY <1>1, <1>3, Constants DEF Chain, Area, s
  <1>5. Listed({0}, mpFree, maFree)
    <2>1. mpFree \in [{0} -> Class \cup {NULL}]
      BY <1>2, <1>3
    <2>2. 0 \in Area /\ <<0>> \in Seq(Area) /\ <<>> \in Seq(Area)
      BY Constants
    <2>3. maFree \in [Class -> Seq(Area)]
      BY <1>3, <2>2
    <2>4. ASSUME NEW c \in Class
          PROVE  IsInjective(maFree[c]) /\ Range(maFree[c]) = {n \in {0} : mpFree[n] = c}
      <3>1. CASE c = b
        <4>1. maFree[c] = <<0>> /\ {n \in {0} : mpFree[n] = c} = {0}
          BY <3>1, <1>3
        <4>2. DOMAIN <<0>> = {1} /\ <<0>>[1] = 0
          OBVIOUS
        <4> QED BY <4>1, <4>2 DEF IsInjective, Range
      <3>2. CASE c # b
        <4>1. maFree[c] = <<>> /\ {n \in {0} : mpFree[n] = c} = {}
          BY <3>2, <1>3
        <4>2. DOMAIN <<>> = {}
          OBVIOUS
        <4> QED BY <4>1, <4>2 DEF IsInjective, Range
      <3> QED BY <3>1, <3>2
    <2> QED BY <2>1, <2>3, <2>4 DEF Listed
  <1>6. Masked(maFree, mabFree, NULL)
    BY <1>2, <1>3 DEF Masked
  <1>7. Sorted(mpFree, ms) /\ Apart(mOrder, mpFree)
    BY <1>3 DEF Sorted, Apart, b
  <1>8. Good(Heap)
    <2>1. DOMAIN ms = {0}
      BY <1>3
    <2> QED BY <2>1, <1>4, <1>5, <1>6, <1>7 DEF Good, Heap, Shape
  <1>9. Held(Heap) = {}
    BY <1>2, <1>3 DEF Held, Heap
  <1>10. Users
    <2>1. asked \in [{} -> Request]
      BY <1>3
    <2> QED BY <2>1, <1>1, <1>3, <1>9 DEF Users
  <1> QED BY <1>8, <1>10 DEF HeapInv

(* The heap is right in every state, for every area, set of requests and   *)
(* set of threads.                                                         *)
THEOREM HeapInductive == Spec => []HeapInv
  <1>1. HeapInv /\ [Next]_vars => HeapInv'
    <2> SUFFICES ASSUME HeapInv, [Next]_vars PROVE HeapInv'
      OBVIOUS
    <2>1. ASSUME NEW t \in Thread, NEW s \in Request, AllocUpper(t, s) PROVE HeapInv'
      BY <2>1, AllocUpperStep
    <2>2. ASSUME NEW t \in Thread, AllocLower(t) PROVE HeapInv'
      BY <2>2, AllocLowerStep
    <2>3. ASSUME NEW t \in Thread, NEW n \in live, FreeRead(t, n) PROVE HeapInv'
      BY <2>3, FreeReadStep
    <2>4. ASSUME NEW t \in Thread, FreeLocked(t) PROVE HeapInv'
      BY <2>4, FreeLockedStep
    <2>5. CASE UNCHANGED vars
      <3>1. Heap' = Heap /\ UNCHANGED <<ms, mabFree, pc, sRequest, pNode, sFree, live, asked, alone>>
        BY <2>5 DEF vars, heap, freeing, Heap
      <3>2. Good(Heap)' /\ Held(Heap)' = Held(Heap)
        BY <3>1 DEF HeapInv, Good, Held
      <3>3. Users'
        BY <3>1, <3>2 DEF HeapInv, Users
      <3> QED BY <3>2, <3>3 DEF HeapInv
    <2> QED BY <2>1, <2>2, <2>3, <2>4, <2>5 DEF Next
  <1> QED BY <1>1, HeapInit, PTL DEF Spec

-----------------------------------------------------------------------------
(* What is not free is in somebody's hands.                                *)
LEMMA HeldIsHeld ==
  ASSUME HeapInv
  PROVE  Held(Heap) = live \cup Freeing
  <1>1. Users
    BY DEF HeapInv
  <1>2. Held(Heap) \subseteq Node
    BY HeapFields DEF Held, Node
  <1>3. NULL \notin Node
    BY HeapFields, Constants DEF HeapInv, Good, Chain, Node
  <1>4. Freeing \subseteq Held(Heap)
    BY <1>1, <1>2, <1>3, Constants DEF Freeing, Users
  <1>5. \A n \in Held(Heap) : n \in live \cup Freeing
    BY <1>1, <1>2 DEF Freeing, Users
  <1> QED BY <1>1, <1>4, <1>5 DEF Users

(* Every state of the heap has its types: nodes lie in the area, their     *)
(* links lead to nodes, and lists hold nodes.                              *)
THEOREM HeapTypeCorrect == Spec => []TypeOK
  <1>1. HeapInv => TypeOK
    <2> SUFFICES ASSUME HeapInv PROVE TypeOK
      OBVIOUS
    <2>1. Good(Heap) /\ Users
      BY DEF HeapInv
    <2>2. /\ Chain(mOrder, ms) /\ Listed(Node, mpFree, maFree) /\ mabFree \subseteq Class
      BY <2>1, HeapFields DEF Good, Masked, Node
    <2>3. /\ Node \subseteq 0 .. csHeap - 1
          /\ mOrder \in [Node -> [pPrev : Node \cup {NULL}, pNext : Node \cup {NULL}]]
      BY <2>2 DEF Chain, Area, Node
    <2>4. ms \in [Node -> 0 .. csHeap]
      <3>1. \A n \in Node : Placed(mOrder, ms, n)
        BY <2>2, ChainNode DEF Node
      <3>2. \A n \in Node : ms[n] \in 0 .. csHeap
        <4> TAKE n \in Node
        <4>1. n \in Nat /\ ms[n] \in Nat /\ n + 1 + ms[n] <= csHeap
          BY <3>1 DEF Placed
        <4>2. csHeap \in Nat
          BY Constants
        <4> QED BY <4>1, <4>2
      <3>3. ms \in [Node -> Nat]
        BY <2>2 DEF Chain, Node
      <3> QED BY <3>2, <3>3
    <2>5. maFree \in [Class -> Seq(Node)]
      <3>1. maFree \in [Class -> Seq(Area)]
        BY <2>2 DEF Listed
      <3>2. ASSUME NEW b \in Class PROVE maFree[b] \in Seq(Node)
        <4>1. maFree[b] \in Seq(Area)
          BY <3>1
        <4>2. Range(maFree[b]) \subseteq Node
          BY <2>2 DEF Listed
        <4>3. maFree[b] \in Seq(Range(maFree[b]))
          BY <4>1, SeqOfRange
        <4> QED BY <4>2, <4>3, SeqMonotonic
      <3> QED BY <3>1, <3>2
    <2>6. mpFree \in [Node -> Class \cup {NULL}]
      BY <2>2 DEF Listed
    <2>7. Held(Heap) = live \cup Freeing /\ Held(Heap) \subseteq Node
      BY HeldIsHeld, HeapFields DEF Held, Node
    <2>8. /\ pc \in [Thread -> {"idle", "lower", "free"}]
          /\ sRequest \in [Thread -> Request \cup {0}]
          /\ pNode \in [Thread -> Node \cup {NULL}]
          /\ sFree \in [Thread -> 0 .. csHeap]
          /\ asked \in [live \cup Freeing -> Request]
          /\ live \subseteq Node /\ alone \subseteq Thread
      BY <2>1, <2>7 DEF Users
    <2> QED BY <2>2, <2>3, <2>4, <2>5, <2>6, <2>8 DEF TypeOK
  <1> QED BY <1>1, HeapInductive, PTL

(* The nodes tile the area however often they are split and merged.        *)
THEOREM AreaTiled == Spec => []Tiling
  <1>1. HeapInv => Tiling
    <2> SUFFICES ASSUME HeapInv PROVE Tiling
      OBVIOUS
    <2>1. Chain(mOrder, ms)
      BY HeapFields DEF HeapInv, Good
    <2>2. \A n \in Node : Placed(mOrder, ms, n)
      BY <2>1, ChainNode DEF Node
    <2>3. 0 \in Node /\ mOrder[0].pPrev = NULL
      BY <2>1 DEF Chain, Node
    <2> QED BY <2>2, <2>3 DEF Tiling, Placed, End, SizeofT
  <1> QED BY <1>1, HeapInductive, PTL

(* A free node is once on the list of its size and on no other, and the    *)
(* mask marks exactly the lists that are not empty.                        *)
THEOREM FreeListsAgree == Spec => []ListsAgree
  <1>1. HeapInv => ListsAgree
    <2> SUFFICES ASSUME HeapInv PROVE ListsAgree
      OBVIOUS
    <2>1. /\ Listed(Node, mpFree, maFree) /\ Masked(maFree, mabFree, NULL)
          /\ Sorted(mpFree, ms)
      BY HeapFields DEF HeapInv, Good, Node
    <2>2. \A n \in Node : IsFree(n) => mpFree[n] = Lower(ms[n])
      BY <2>1 DEF Sorted, IsFree, Node
    <2>3. mabFree = {b \in Class : maFree[b] # <<>>}
      BY <2>1, Constants DEF Masked
    <2> QED BY <2>1, <2>2, <2>3 DEF ListsAgree, Listed
  <1> QED BY <1>1, HeapInductive, PTL

(* No two free nodes are ever neighbours.                                  *)
THEOREM MergingComplete == Spec => []Merged
  <1>1. HeapInv => Merged
    <2> SUFFICES ASSUME HeapInv PROVE Merged
      OBVIOUS
    <2>1. Chain(mOrder, ms) /\ Apart(mOrder, mpFree)
      BY HeapFields DEF HeapInv, Good
    <2>2. DOMAIN mOrder = Node
      BY <2>1 DEF Chain, Node
    <2> QED BY <2>1, <2>2 DEF Merged, Apart, IsFree
  <1> QED BY <1>1, HeapInductive, PTL

(* What is not free has one holder, and the size Free has read before it   *)
(* took the mutex is still the node's.                                     *)
THEOREM HeldOnce == Spec => []Holders
  <1>1. HeapInv => Holders
    <2> SUFFICES ASSUME HeapInv PROVE Holders
      OBVIOUS
    <2>1. Users
      BY DEF HeapInv
    <2>2. {n \in Node : ~IsFree(n)} = live \cup Freeing
      BY HeldIsHeld, HeapFields DEF Held, IsFree, Node
    <2>3. live \cap Freeing = {}
      <3>1. \A n \in Node : n # NULL
        BY HeapFields, Constants DEF HeapInv, Good, Chain, Node
      <3> QED BY <2>1, <3>1 DEF Users, Freeing
    <2> QED BY <2>1, <2>2, <2>3 DEF Users, Holders
  <1> QED BY <1>1, HeapInductive, PTL

(* No list from the class of s on has a node for s, if the first of them   *)
(* has none and no list from Upper(s) on has any node at all.              *)
LEMMA NothingFits ==
  ASSUME HeapInv, NEW s \in Request, NEW list,
         list = IF Marked(Lower(s)) = {} THEN <<>> ELSE maFree[Min(Marked(Lower(s)))],
         Fitting(list, s) = {},
         \A c \in mabFree : ~(c >= Upper(s))
  PROVE  \A n \in Node : IsFree(n) => ms[n] < s
  <1> DEFINE S == Marked(Lower(s))
  <1>1. Good(Heap) /\ s \in 1 .. csHeap /\ s \in Nat
    BY Constants DEF HeapInv
  <1> SUFFICES ASSUME NEW n \in Node, mpFree[n] # NULL, ~(ms[n] < s) PROVE FALSE
    BY DEF IsFree
  <1> DEFINE c == mpFree[n]
  <1>2. Placed(mOrder, ms, n)
    BY <1>1, ChainNode, HeapFields DEF Good, Node
  <1>3. ms[n] \in Nat /\ s <= ms[n]
    BY <1>1, <1>2 DEF Placed
  <1>4. c = Lower(ms[n]) /\ c \in Class
    <2>1. mpFree \in [Node -> Class \cup {NULL}]
      BY <1>1, HeapFields DEF Good, Listed, Node
    <2> QED BY <1>1, <2>1, HeapFields DEF Good, Sorted, Node
  <1>5. n \in Range(maFree[c]) /\ c \in mabFree
    <2>1. n \in Range(maFree[c])
      BY <1>1, <1>4, HeapFields DEF Good, Listed, Node
    <2>2. maFree[c] # <<>>
      BY <2>1 DEF Range
    <2> QED BY <1>1, <1>4, <2>1, <2>2, HeapFields DEF Good, Masked
  <1> HIDE DEF c
  <1>6. c = Lower(s)
    <2>1. Lower(s) <= c
      BY <1>1, <1>3, <1>4, LowerGrows
    <2>2. Upper(s) \in Nat /\ Upper(s) <= Lower(s) + 1 /\ ~(c >= Upper(s))
      BY <1>1, <1>5, UpperNext
    <2>3. Lower(s) \in Nat /\ c \in Nat
      BY <1>4, ReachedFinite DEF Class
    <2> QED BY <2>1, <2>2, <2>3
  <1>7. c \in S /\ S \subseteq Nat /\ \A d \in S : d >= c
    <2>1. mabFree \subseteq Nat /\ c \in Nat
      BY <1>1, <1>4, HeapFields DEF Good, Masked, Class
    <2>2. S = {d \in mabFree : d >= c}
      BY <1>6 DEF Marked
    <2> HIDE DEF S
    <2>3. c \in S
      BY <1>5, <2>1, <2>2
    <2> QED BY <2>1, <2>2, <2>3
  <1> HIDE DEF S
  <1>8. Min(S) = c
    <2>1. Min(S) \in S /\ Min(S) <= c
      BY <1>7, MinIsIn
    <2>2. Min(S) \in Nat /\ c \in Nat /\ Min(S) >= c
      BY <1>7, <2>1
    <2> QED BY <2>1, <2>2
  <1>9. list = maFree[c]
    BY <1>7, <1>8 DEF S
  <1>10. PICK k \in DOMAIN list : list[k] = n
    BY <1>5, <1>9 DEF Range
  <1>11. k \in Fitting(list, s)
    BY <1>1, <1>3, <1>10 DEF Fitting
  <1> QED BY <1>11

(* An allocation that had the heap for itself between its two sections     *)
(* fails only when no free node is large enough.                           *)
THEOREM FailureIsTrue == Spec => FailsOnlyIfFull
  <1>1. ASSUME HeapInv, [Next]_vars,
               NEW t \in alone, pc[t] = "lower", pc'[t] = "idle", live' = live
        PROVE  \A n \in Node : IsFree(n) => ms[n] < sRequest[t]
    <2>1. Users /\ t \in Thread
      BY <1>1 DEF HeapInv, Users
    <2>2. ASSUME NEW u \in Thread, NEW s \in Request, AllocUpper(u, s) PROVE FALSE
      <3>1. pc[u] = "idle" /\ (pc' = [pc EXCEPT ![u] = "idle"] \/ pc' = [pc EXCEPT ![u] = "lower"])
        BY <2>2 DEF AllocUpper, Give, Goto
      <3>2. u # t
        BY <1>1, <3>1
      <3> QED BY <1>1, <2>1, <3>1, <3>2 DEF Users
    <2>3. ASSUME NEW u \in Thread, NEW n \in live, FreeRead(u, n) PROVE FALSE
      BY <1>1, <2>1, <2>3 DEF FreeRead, Goto
    <2>4. ASSUME NEW u \in Thread, FreeLocked(u) PROVE FALSE
      BY <1>1, <2>1, <2>4 DEF FreeLocked, Goto
    <2>5. ASSUME NEW u \in Thread, AllocLower(u)
          PROVE  \A n \in Node : IsFree(n) => ms[n] < sRequest[t]
      <3> DEFINE s == sRequest[t]
                 list == IF Marked(Lower(s)) = {} THEN <<>> ELSE maFree[Min(Marked(Lower(s)))]
      <3>1. pc' = [pc EXCEPT ![u] = "idle"]
        BY <2>5 DEF AllocLower, Give, Goto
      <3>2. u = t
        BY <1>1, <2>1, <3>1
      <3>3. s \in Request /\ \A c \in mabFree : ~(c >= Upper(s))
        BY <1>1, <2>1 DEF Users
      <3>4. CASE Fitting(list, s) = {}
        <4> HIDE DEF s
        <4> QED BY <1>1, <3>3, <3>4, NothingFits DEF s
      <3>5. CASE Fitting(list, s) # {} /\ Give(t, list[Min(Fitting(list, s))], s)
        <4> DEFINE n == list[Min(Fitting(list, s))]
        <4>1. Fits(n, s)
          BY <1>1, <3>5, LowerGives
        <4> HIDE DEF n
        <4>2. Give(t, n, s)
          BY <3>5 DEF n
        <4>3. n \notin Held(Heap) /\ live' = live \cup {n}
          BY <1>1, <3>3, <4>1, <4>2, GiveHeap DEF Give
        <4>4. n \notin live
          BY <2>1, <4>3 DEF Users
        <4> QED BY <1>1, <4>3, <4>4
      <3> QED BY <2>5, <3>2, <3>4, <3>5 DEF AllocLower
    <2>6. CASE UNCHANGED vars
      BY <1>1, <2>6 DEF vars
    <2> QED BY <1>1, <2>2, <2>3, <2>4, <2>5, <2>6 DEF Next
  <1>2. HeapInv /\ [Next]_vars =>
          [\A t \in alone : pc[t] = "lower" /\ pc'[t] = "idle" /\ live' = live =>
             \A n \in Node : IsFree(n) => ms[n] < sRequest[t]]_vars
    BY <1>1
  <1> QED BY <1>2, HeapInductive, PTL DEF Spec, FailsOnlyIfFull

-----------------------------------------------------------------------------
(* The block of a node that is not free.                                   *)
BlockOf(n) == [at |-> n + SizeofT, size |-> ms[n], asked |-> asked[n]]

Blocks == {BlockOf(n) : n \in live \cup Freeing}

(* The blocks are those of the nodes that are not free, and these lie in   *)
(* the area, apart from each other.                                        *)
BlocksInv ==
  /\ HeapInv
  /\ Blocks = {BlockOf(n) : n \in Held(Heap)}
  /\ \A n \in Held(Heap) : n \in Nat /\ ms[n] \in Nat /\ n + 1 + ms[n] <= csHeap
  /\ \A n, m \in Held(Heap) : n # m => n + 1 + ms[n] <= m + 1 \/ m + 1 + ms[m] <= n + 1

LEMMA BlocksOfHeap == HeapInv => BlocksInv
  <1> SUFFICES ASSUME HeapInv PROVE BlocksInv
    OBVIOUS
  <1>1. Chain(mOrder, ms) /\ Held(Heap) \subseteq DOMAIN ms
    BY HeapFields DEF HeapInv, Good, Held
  <1>2. \A n \in Held(Heap) : n \in Nat /\ ms[n] \in Nat /\ n + 1 + ms[n] <= csHeap
    <2>1. \A n \in DOMAIN ms : Placed(mOrder, ms, n)
      BY <1>1, ChainNode
    <2> QED BY <1>1, <2>1 DEF Placed
  <1>3. ASSUME NEW n \in Held(Heap), NEW m \in Held(Heap), n # m
        PROVE  n + 1 + ms[n] <= m + 1 \/ m + 1 + ms[m] <= n + 1
    <2>1. (n < m => n + 1 + ms[n] <= m) /\ (m < n => m + 1 + ms[m] <= n)
      BY <1>1 DEF Chain
    <2> QED BY <1>2, <1>3, <2>1
  <1>4. Blocks = {BlockOf(n) : n \in Held(Heap)}
    BY HeldIsHeld DEF Blocks
  <1> QED BY <1>2, <1>3, <1>4 DEF BlocksInv

(* Giving a node hands out a block that nobody held.                       *)
LEMMA GiveRefines ==
  ASSUME BlocksInv, BlocksInv', NEW t, NEW s \in Request, NEW n, Fits(n, s), Give(t, n, s)
  PROVE  B!Next
  <1> DEFINE b == [at |-> n + 1, size |-> ms'[n], asked |-> s]
             H == Held(Heap)
             H2 == Held(Heap)'
  <1>1. /\ H2 = H \cup {n} /\ n \notin H /\ ms'[n] >= s /\ asked'[n] = s
        /\ \A m \in H : ms'[m] = ms[m] /\ asked'[m] = asked[m]
    BY GiveHeap DEF BlocksInv
  <1>2. Blocks = {BlockOf(m) : m \in H} /\ Blocks' = {BlockOf(m)' : m \in H2}
    BY DEF BlocksInv
  <1>3. \A m \in H2 : n \in Nat /\ ms'[n] \in Nat /\ m \in Nat /\ ms'[m] \in Nat
                      /\ n + 1 + ms'[n] <= csHeap /\ m + 1 + ms'[m] <= csHeap
    BY <1>1 DEF BlocksInv
  <1>4. \A m \in H : n + 1 + ms'[n] <= m + 1 \/ m + 1 + ms[m] <= n + 1
    <2>1. \A k, m \in H2 : k # m => k + 1 + ms'[k] <= m + 1 \/ m + 1 + ms'[m] <= k + 1
      BY DEF BlocksInv
    <2> QED BY <1>1, <2>1
  <1> HIDE DEF H, H2
  <1>5. /\ \A m \in H : BlockOf(m) = [at |-> m + 1, size |-> ms[m], asked |-> asked[m]]
        /\ \A m \in H : BlockOf(m)' = BlockOf(m)
        /\ BlockOf(n)' = b
    BY <1>1 DEF BlockOf, SizeofT
  <1>6. Blocks' = Blocks \cup {b}
    BY <1>1, <1>2, <1>5
  <1>7. b \in B!Block
    <2>1. n \in Nat /\ ms'[n] \in Nat /\ n + 1 + ms'[n] <= csHeap /\ csHeap \in Nat
      BY <1>1, <1>3, Constants
    <2>2. n + 1 \in 0 .. csHeap /\ ms'[n] \in 0 .. csHeap
      BY <2>1
    <2> QED BY <2>2 DEF B!Block
  <1>8. \A m \in H : B!Disjoint(b, BlockOf(m)) /\ b # BlockOf(m)
    <2> TAKE m \in H
    <2>1. n + 1 + ms'[n] <= m + 1 \/ m + 1 + ms[m] <= n + 1
      BY <1>4
    <2>2. BlockOf(m).at = m + 1 /\ BlockOf(m).size = ms[m]
      BY <1>5
    <2>3. n + 1 # m + 1
      <3>1. n \in Nat /\ m \in Nat /\ n # m
        BY <1>1, <1>3
      <3> QED BY <3>1
    <2> QED BY <2>1, <2>2, <2>3 DEF B!Disjoint
  <1> HIDE DEF b
  <1>9. b \notin Blocks /\ \A c \in Blocks : B!Disjoint(b, c)
    BY <1>2, <1>8
  <1>10. b.size >= b.asked /\ b.at + b.size <= csHeap
    BY <1>1, <1>3 DEF b
  <1> QED BY <1>6, <1>7, <1>9, <1>10 DEF B!Next, B!Alloc, Blocks, BlockOf

(* Freeing a node gives its block back.                                    *)
LEMMA FreeRefines ==
  ASSUME BlocksInv, BlocksInv', NEW t \in Thread, FreeLocked(t)
  PROVE  B!Next
  <1> DEFINE n == pNode[t]
             b == BlockOf(n)
             H == Held(Heap)
             H2 == Held(Heap)'
  <1>1. /\ n \in H /\ H2 = H \ {n}
        /\ \A m \in H2 : ms'[m] = ms[m] /\ asked'[m] = asked[m]
    BY LockedHeap DEF BlocksInv
  <1>2. Blocks = {BlockOf(m) : m \in H} /\ Blocks' = {BlockOf(m)' : m \in H2}
    BY DEF BlocksInv
  <1>3. \A m \in H : m \in Nat
    BY DEF BlocksInv
  <1> HIDE DEF H, H2, n
  <1>4. \A m \in H : m # n => BlockOf(m) # b
    <2> SUFFICES ASSUME NEW m \in H, m # n PROVE m + 1 # n + 1
      BY DEF BlockOf, SizeofT
    <2> QED BY <1>1, <1>3
  <1>5. \A m \in H2 : BlockOf(m)' = BlockOf(m)
    BY <1>1 DEF BlockOf
  <1> HIDE DEF b
  <1>6. b \in Blocks /\ Blocks' = Blocks \ {b}
    BY <1>1, <1>2, <1>4, <1>5 DEF b
  <1> QED BY <1>6 DEF B!Next, B!Free, Blocks, BlockOf

(* The heap is one that keeps its promise: the blocks the callers hold lie *)
(* in the area, are large enough and never overlap.                        *)
THEOREM HeapImplements == Spec => ImplementsHeldBlocks
  <1>1. Init => B!Init
    <2> SUFFICES ASSUME Init PROVE B!Init
      OBVIOUS
    <2>1. live = {} /\ Node = {0} /\ \A t \in Thread : pNode[t] = NULL
      BY DEF Init, Node
    <2>2. Freeing = {}
      BY <2>1, Constants DEF Freeing
    <2> QED BY <2>1, <2>2 DEF B!Init
  <1>2. ASSUME BlocksInv, BlocksInv', [Next]_vars
        PROVE  B!Next \/ UNCHANGED Blocks
    <2>1. ASSUME NEW t \in Thread, NEW s \in Request, AllocUpper(t, s)
          PROVE  B!Next \/ UNCHANGED Blocks
      <3>1. CASE Marked(Upper(s)) # {} /\ Give(t, Head(maFree[Min(Marked(Upper(s)))]), s)
        BY <1>2, <3>1, UpperGives, GiveRefines DEF BlocksInv
      <3>2. CASE UNCHANGED <<heap, freeing, live, asked>>
        BY <3>2 DEF heap, freeing, Blocks, BlockOf, Freeing, Node
      <3> QED BY <2>1, <3>1, <3>2 DEF AllocUpper
    <2>2. ASSUME NEW t \in Thread, AllocLower(t)
          PROVE  B!Next \/ UNCHANGED Blocks
      <3> DEFINE s == sRequest[t]
                 list == IF Marked(Lower(s)) = {} THEN <<>> ELSE maFree[Min(Marked(Lower(s)))]
      <3>1. CASE Fitting(list, s) # {} /\ Give(t, list[Min(Fitting(list, s))], s)
        <4>1. s \in Request
          BY <1>2, <2>2 DEF AllocLower, BlocksInv, HeapInv, Users
        <4> HIDE DEF s
        <4> QED BY <1>2, <3>1, <4>1, LowerGives, GiveRefines DEF BlocksInv
      <3>2. CASE UNCHANGED <<heap, freeing, live, asked>>
        BY <3>2 DEF heap, freeing, Blocks, BlockOf, Freeing, Node
      <3> QED BY <2>2, <3>1, <3>2 DEF AllocLower
    <2>3. ASSUME NEW t \in Thread, NEW n \in live, FreeRead(t, n)
          PROVE  UNCHANGED Blocks
      <3>1. UNCHANGED <<mOrder, ms, mpFree, maFree, mabFree, asked>>
        BY <2>3 DEF FreeRead, heap
      <3>2. Held(Heap)' = Held(Heap)
        BY <3>1 DEF Held, Heap
      <3> QED BY <1>2, <3>1, <3>2 DEF BlocksInv, BlockOf
    <2>4. ASSUME NEW t \in Thread, FreeLocked(t) PROVE B!Next
      BY <1>2, <2>4, FreeRefines
    <2>5. CASE UNCHANGED vars
      BY <2>5 DEF vars, heap, freeing, Blocks, BlockOf, Freeing, Node
    <2> QED BY <1>2, <2>1, <2>2, <2>3, <2>4, <2>5 DEF Next
  <1>3. BlocksInv /\ BlocksInv' /\ [Next]_vars => [B!Next]_Blocks
    BY <1>2
  <1> QED BY <1>1, <1>3, BlocksOfHeap, HeapInductive, PTL DEF Spec, ImplementsHeldBlocks, B!Spec, Blocks, BlockOf

=============================================================================
