------------------------ MODULE CachedLocal_proofs ------------------------
(***************************************************************************)
(* What the proofs about LocalPool and LocalCram share: the arithmetic of  *)
(* a ring whose counters wrap, and lists without repetitions.              *)
(***************************************************************************)
EXTENDS CachedLocal, TLAPS, FiniteSetTheorems, SequenceTheorems

(* What the assumptions say of the ring.                                   *)
LEMMA RingConstants ==
  /\ cnRevolver \in Nat \ {0}
  /\ SlotIndex = 0 .. cnRevolver - 1
  BY CacheAssumption DEF SlotIndex

(* RevolverMask of a counter is a slot of the ring.                        *)
LEMMA SlotRange ==
  ASSUME NEW n \in Nat
  PROVE  Slot(n) \in SlotIndex
  BY RingConstants DEF Slot

(* The mask leaves a slot number alone.                                    *)
LEMMA SlotId ==
  ASSUME NEW i \in SlotIndex
  PROVE  Slot(i) = i
  BY RingConstants DEF Slot

(* The slot after the last one is the first.                               *)
LEMMA SlotEnd == Slot(cnRevolver) = 0
  BY RingConstants DEF Slot

(* Arithmetic of %: a remainder is below the divisor.                      *)
LEMMA ModRange ==
  ASSUME NEW n \in Int,
         NEW N \in Nat \ {0}
  PROVE  n % N \in 0 .. N-1
  OBVIOUS

(* A number is quotient times divisor plus remainder.                      *)
LEMMA DivMod ==
  ASSUME NEW n \in Int,
         NEW N \in Nat \ {0}
  PROVE  n = N * (n \div N) + (n % N) /\ n \div N \in Int
  OBVIOUS

(* Below the divisor the remainder is the number itself.                   *)
LEMMA ModSmall ==
  ASSUME NEW N \in Nat \ {0},
         NEW n \in 0 .. N-1
  PROVE  n % N = n
  OBVIOUS

(* Quotient and remainder are unique.                                      *)
LEMMA ModUnique ==
  ASSUME NEW N \in Nat \ {0},
         NEW q \in Int,
         NEW k \in Int,
         NEW r \in 0 .. N-1,
         NEW s \in 0..N-1,
         N*q + r = N*k + s
  PROVE  r = s
  <1>1. N*(q-k) = s - r OBVIOUS
  <1>2. CASE q - k >= 1 BY <1>1, <1>2
  <1>3. CASE k - q >= 1 BY <1>1, <1>3
  <1>4. CASE k = q BY <1>1, <1>4
  <1> QED BY <1>2, <1>3, <1>4

(* Counting up by one moves the remainder to the next one, round and       *)
(* round.                                                                  *)
LEMMA ModSucc ==
  ASSUME NEW N \in Nat \ {0},
         NEW n \in Nat
  PROVE  (n + 1) % N = IF n % N = N - 1 THEN 0 ELSE (n % N) + 1
  <1> DEFINE q == n \div N
             r == n % N
             k == (n+1) \div N
             s == (n+1) % N
  <1>1. n = N * q + r /\ q \in Int /\ r \in 0 .. N-1
    BY DivMod, ModRange
  <1>2. n+1 = N * k + s /\ k \in Int /\ s \in 0 .. N-1
    BY DivMod, ModRange
  <1> HIDE DEF q, r, k, s
  <1>3. CASE r = N - 1
    <2>1. N * (q+1) + 0 = N * k + s
      BY <1>1, <1>2, <1>3
    <2>2. 0 = s
      BY <2>1, <1>1, <1>2, ModUnique
    <2> QED BY <2>2, <1>3 DEF r, s
  <1>4. CASE r # N - 1
    <2>1. N * q + (r + 1) = N * k + s /\ r + 1 \in 0 .. N - 1
      BY <1>1, <1>2, <1>4
    <2>2. r + 1 = s
      BY <2>1, <1>1, <1>2, ModUnique
    <2> QED BY <2>2, <1>4 DEF r, s
  <1> QED BY <1>3, <1>4

(* The same holds for a counter that wraps at a multiple of the divisor:   *)
(* this is where cnRevolver has to divide 2^16.                            *)
LEMMA ModSuccWrap ==
  ASSUME NEW N \in Nat \ {0},
         NEW C \in Nat \ {0},
         C % N = 0,
         NEW n \in 0 .. C-1
  PROVE  ((n + 1) % C) % N = IF n % N = N - 1 THEN 0 ELSE (n % N) + 1
  <1>a. n \in Nat
    OBVIOUS
  <1>0. (n + 1) % N = IF n % N = N - 1 THEN 0 ELSE (n % N) + 1
    BY <1>a, ModSucc, Zenon
  <1>1. CASE n = C - 1
    <2>1. (n + 1) % C = 0
      <3>1. n % C = C - 1 BY <1>1, ModSmall
      <3>2. (n + 1) % C = IF n % C = C - 1 THEN 0 ELSE (n % C) + 1
         BY <1>a, ModSucc, Zenon
      <3> QED BY <3>1, <3>2
    <2>2. 0 % N = 0 BY ModSmall
    <2>3. (n + 1) % N = 0 BY <1>1
    <2> QED BY <2>1, <2>2, <2>3, <1>0
  <1>2. CASE n < C - 1
    <2>1. (n + 1) % C = n + 1
      BY <1>2, ModSmall
    <2> QED BY <2>1, <1>0
  <1> QED BY <1>1, <1>2

(* mRevolverFree draws the slots in order, also when the counter wraps.    *)
LEMMA CountedSlot ==
  ASSUME NEW n \in 0 .. cnCounter - 1
  PROVE  Slot(Counted(n)) = IF Slot(n) = cnRevolver - 1 THEN 0 ELSE Slot(n) + 1
  BY CacheAssumption, ModSuccWrap, Zenon DEF Slot, Counted

(* The slot of a counter that has gone round the ring once at most.        *)
LEMMA SlotTwice ==
  ASSUME NEW k \in 0 .. 2 * cnRevolver - 1
  PROVE  Slot(k) = IF k < cnRevolver THEN k ELSE k - cnRevolver
  <1>1. CASE k < cnRevolver
    BY <1>1, SlotId, RingConstants
  <1>2. CASE k >= cnRevolver
    <2> DEFINE q == k \div cnRevolver
    <2>1. k \in Int
      OBVIOUS
    <2>2. /\ k = cnRevolver * q + Slot(k) /\ q \in Int
          /\ Slot(k) \in 0 .. cnRevolver - 1
      BY <2>1, RingConstants, DivMod, ModRange, Zenon DEF Slot
    <2> HIDE DEF q
    <2>3. k - cnRevolver \in 0 .. cnRevolver - 1
      BY <1>2, RingConstants
    <2>4. cnRevolver * q + Slot(k) = cnRevolver * 1 + (k - cnRevolver)
      BY <2>2, RingConstants
    <2>5. Slot(k) = k - cnRevolver
      BY <2>2, <2>3, <2>4, ModUnique, RingConstants
    <2> QED BY <1>2, <2>5, RingConstants
  <1> QED BY <1>1, <1>2, RingConstants

(* The counter of frees stays in its 16 bits.                              *)
LEMMA CountedType ==
  ASSUME NEW n \in 0 .. cnCounter - 1
  PROVE  Counted(n) \in 0 .. cnCounter - 1
  BY CacheAssumption DEF Counted

-----------------------------------------------------------------------------
(* Taking the head off a list without repetitions removes one element.     *)
LEMMA TailRange ==
  ASSUME NEW S, NEW s \in Seq(S), s # <<>>,
         \A j, k \in 1 .. Len(s) : s[j] = s[k] => j = k
  PROVE  /\ Head(s) \in Range(s)
         /\ Range(Tail(s)) = Range(s) \ {Head(s)}
         /\ \A j, k \in 1 .. Len(Tail(s)) : Tail(s)[j] = Tail(s)[k] => j = k
  <1>1. /\ Tail(s) \in Seq(S)
        /\ Len(Tail(s)) = Len(s) - 1
        /\ Head(s) = s[1]
        /\ Len(s) \in Nat /\ Len(s) > 0
        /\ \A j \in 1 .. Len(s) - 1 : Tail(s)[j] = s[j+1]
    OBVIOUS
  <1>2. Head(s) \in Range(s)
    BY <1>1 DEF Range
  <1>3. \A j, k \in 1 .. Len(Tail(s)) : Tail(s)[j] = Tail(s)[k] => j = k
    BY <1>1
  <1>4. ASSUME NEW x \in Range(Tail(s))
        PROVE  x \in Range(s) \ {Head(s)}
    <2>1. PICK j \in 1 .. Len(s) - 1 : x = s[j+1]
      BY <1>1, <1>4 DEF Range
    <2> QED BY <1>1, <2>1 DEF Range
  <1>5. ASSUME NEW x \in Range(s) \ {Head(s)}
        PROVE  x \in Range(Tail(s))
    <2>1. PICK j \in 1 .. Len(s) : x = s[j] /\ j # 1
      BY <1>1, <1>5 DEF Range
    <2>2. j - 1 \in 1 .. Len(s) - 1 /\ x = Tail(s)[j-1]
      BY <1>1, <2>1
    <2>3. j - 1 \in DOMAIN Tail(s)
      BY <1>1, <2>2
    <2> QED BY <2>2, <2>3 DEF Range
  <1> QED BY <1>2, <1>3, <1>4, <1>5

(* Putting a new element before such a list adds it and nothing else.      *)
LEMMA ConsRange ==
  ASSUME NEW S, NEW s \in Seq(S), NEW p \in S, p \notin Range(s),
         \A j, k \in 1 .. Len(s) : s[j] = s[k] => j = k
  PROVE  /\ Range(<<p>> \o s) = Range(s) \cup {p}
         /\ \A j, k \in 1 .. Len(<<p>> \o s) : (<<p>> \o s)[j] = (<<p>> \o s)[k] => j = k
  <1> DEFINE c == <<p>> \o s
  <1>1. /\ c \in Seq(S)
        /\ Len(c) = Len(s) + 1 /\ Len(s) \in Nat
        /\ c[1] = p
        /\ \A j \in 2 .. Len(s) + 1 : c[j] = s[j-1]
    OBVIOUS
  <1> HIDE DEF c
  <1>2. ASSUME NEW x \in Range(c) PROVE x \in Range(s) \cup {p}
    <2>1. PICK j \in 1 .. Len(s) + 1 : x = c[j]
      BY <1>1, <1>2 DEF Range
    <2>2. CASE j = 1
      BY <1>1, <2>1, <2>2
    <2>3. CASE j # 1
      <3>1. x = s[j-1] /\ j - 1 \in 1 .. Len(s)
        BY <1>1, <2>1, <2>3
      <3> QED BY <3>1 DEF Range
    <2> QED BY <2>2, <2>3
  <1>3. ASSUME NEW x \in Range(s) \cup {p} PROVE x \in Range(c)
    <2>1. CASE x = p
      BY <1>1, <2>1 DEF Range
    <2>2. CASE x \in Range(s)
      <3>1. PICK j \in 1 .. Len(s) : x = s[j]
        BY <2>2 DEF Range
      <3>2. j + 1 \in 2 .. Len(s) + 1 /\ x = c[j+1]
        BY <1>1, <3>1
      <3> QED BY <1>1, <3>2 DEF Range
    <2> QED BY <1>3, <2>1, <2>2
  <1>4. ASSUME NEW j \in 1 .. Len(c), NEW k \in 1 .. Len(c), c[j] = c[k] PROVE j = k
    <2>1. \A i \in 2 .. Len(c) : c[i] # p
      <3> SUFFICES ASSUME NEW i \in 2 .. Len(c) PROVE c[i] # p
        OBVIOUS
      <3>1. c[i] = s[i-1] /\ i - 1 \in 1 .. Len(s)
        BY <1>1
      <3> QED BY <3>1 DEF Range
    <2>2. CASE j = 1 \/ k = 1
      BY <1>1, <1>4, <2>1, <2>2
    <2>3. CASE j # 1 /\ k # 1
      <3>1. /\ c[j] = s[j-1] /\ c[k] = s[k-1]
            /\ j - 1 \in 1 .. Len(s) /\ k - 1 \in 1 .. Len(s)
        BY <1>1, <2>3
      <3>2. j - 1 = k - 1
        BY <1>4, <3>1
      <3> QED BY <3>2
    <2> QED BY <2>2, <2>3
  <1>5. Range(c) = Range(s) \cup {p}
    BY <1>2, <1>3
  <1>6. \A j, k \in 1 .. Len(c) : c[j] = c[k] => j = k
    BY <1>4
  <1> QED BY <1>5, <1>6 DEF c

(* A list without repetitions has as many elements as it is long.          *)
LEMMA OnceCount ==
  ASSUME NEW S, NEW s \in Seq(S),
         \A j, k \in 1 .. Len(s) : s[j] = s[k] => j = k
  PROVE  IsFiniteSet(Range(s)) /\ Cardinality(Range(s)) = Len(s)
  <1> DEFINE n == Len(s)
             R == Range(s)
  <1>1. n \in Nat /\ DOMAIN s = 1 .. n /\ R = {s[j] : j \in 1 .. n}
    BY DEF Range
  <1>2. s \in [1 .. n -> R]
    BY <1>1
  <1>3. s \in Injection(1 .. n, R)
    BY <1>2 DEF Injection, IsInjective
  <1>4. s \in Surjection(1 .. n, R)
    BY <1>1, <1>2 DEF Surjection
  <1> HIDE DEF R
  <1>5. ExistsBijection(1 .. n, R)
    BY <1>3, <1>4 DEF Bijection, ExistsBijection
  <1> HIDE DEF n
  <1>6. IsFiniteSet(1 .. n) /\ Cardinality(1 .. n) = IF 1 > n THEN 0 ELSE n - 1 + 1
    BY <1>1, FS_Interval
  <1>7. IsFiniteSet(R) /\ Cardinality(R) = n
    BY <1>1, <1>5, <1>6, FS_Bijection
  <1> QED BY <1>7 DEF n, R
=============================================================================
