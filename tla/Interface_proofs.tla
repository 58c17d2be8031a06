-------------------------- MODULE Interface_proofs --------------------------
(***************************************************************************)
(* Proofs about Interface and the arithmetic of sizes below it, for every  *)
(* set of requests, alignments and addresses: what v & -b does, which      *)
(* realm a size belongs to, then which block every address lies in.        *)
(***************************************************************************)
EXTENDS Interface, TLAPS, FiniteSetTheorems, WellFoundedInduction

-----------------------------------------------------------------------------
(* Quotients and remainders.                                               *)

(* A number is quotient times divisor plus remainder.                      *)
LEMMA DivMod ==
  ASSUME NEW n \in Int, NEW N \in Nat \ {0}
  PROVE  n = N * (n \div N) + (n % N) /\ n \div N \in Int /\ n % N \in 0 .. N-1
  OBVIOUS

(* There is only one way to divide with a remainder.                       *)
LEMMA DivUnique ==
  ASSUME NEW N \in Nat \ {0}, NEW q \in Int, NEW r \in 0 .. N-1,
         NEW n \in Int, n = N * q + r
  PROVE  n \div N = q /\ n % N = r
  <1> DEFINE k == n \div N
             s == n % N
  <1>1. n = N * k + s /\ k \in Int /\ s \in 0 .. N-1
    BY DivMod
  <1> HIDE DEF k, s
  <1>2. N * (q - k) = s - r
    BY <1>1
  <1>3. CASE q - k >= 1
    BY <1>1, <1>2, <1>3
  <1>4. CASE k - q >= 1
    BY <1>1, <1>2, <1>4
  <1>5. CASE k = q
    BY <1>1, <1>2, <1>5
  <1>6. k = q /\ s = r
    BY <1>1, <1>3, <1>4, <1>5
  <1> QED BY <1>6 DEF k, s

(* Divisor times quotient plus remainder, divided.                         *)
LEMMA Divided ==
  ASSUME NEW N \in Nat \ {0}, NEW q \in Int, NEW r \in 0 .. N-1
  PROVE  (N * q + r) \div N = q /\ (N * q + r) % N = r
  <1> DEFINE n == N * q + r
  <1>1. n \in Int /\ n = N * q + r
    OBVIOUS
  <1> HIDE DEF n
  <1>2. n \div N = q /\ n % N = r
    BY <1>1, DivUnique
  <1> QED BY <1>2 DEF n

(* The quotient is one between the divisor and its double.                 *)
LEMMA DivOne ==
  ASSUME NEW v \in Nat, NEW m \in Nat \ {0}
  PROVE  v \div m = 1 <=> m <= v /\ v < 2 * m
  <1>1. v = m * (v \div m) + (v % m) /\ v \div m \in Int /\ v % m \in 0 .. m-1
    BY DivMod
  <1>2. ASSUME v \div m = 1 PROVE m <= v /\ v < 2 * m
    BY <1>1, <1>2
  <1>3. ASSUME m <= v, v < 2 * m PROVE v \div m = 1
    <2>1. v = m * 1 + (v - m) /\ v - m \in 0 .. m-1
      BY <1>3
    <2> QED BY <2>1, DivUnique
  <1> QED BY <1>2, <1>3

(* The remainder of a product is taken in two steps.                       *)
LEMMA ModProduct ==
  ASSUME NEW v \in Nat, NEW B \in Nat \ {0}, NEW m \in Nat \ {0}
  PROVE  v % (B * m) = B * ((v \div B) % m) + (v % B)
  <1> DEFINE h == v \div B
             l == v % B
             k == h \div m
             x == h % m
  <1>1. v = B * h + l /\ h \in Int /\ l \in 0 .. B-1
    BY DivMod
  <1>2. h = m * k + x /\ k \in Int /\ x \in 0 .. m-1
    BY <1>1, DivMod
  <1> HIDE DEF h, l, k, x
  <1>3. v = (B * m) * k + (B * x + l)
    BY <1>1, <1>2
  <1>4. B * x + l \in 0 .. B * m - 1
    <2>1. B * x <= B * (m - 1) /\ B * x \in Nat
      BY <1>2
    <2>2. B * (m - 1) = B * m - B
      OBVIOUS
    <2>3. B * m \in Nat
      OBVIOUS
    <2> QED BY <1>1, <2>1, <2>2, <2>3
  <1>5. B * m \in Nat \ {0}
    OBVIOUS
  <1> HIDE DEF h, l, k, x
  <1>6. v % (B * m) = B * x + l
    <2> DEFINE N == B * m
               r == B * x + l
    <2>1. N \in Nat \ {0} /\ r \in 0 .. N-1 /\ v = N * k + r
      BY <1>3, <1>4, <1>5
    <2> HIDE DEF N, r
    <2>2. v % N = r
      BY <1>2, <2>1, DivUnique
    <2> QED BY <2>2 DEF N, r
  <1> QED BY <1>6 DEF h, l, x

-----------------------------------------------------------------------------
(* Powers of two, as far as sizes go.                                      *)
LEMMA Bits ==
  /\ bit(0) = 1 /\ bit(1) = 2 /\ bit(2) = 4 /\ bit(3) = 8 /\ bit(4) = 16
  /\ bit(5) = 32 /\ bit(6) = 64 /\ bit(7) = 128 /\ bit(8) = 256
  /\ bit(9) = 512 /\ bit(10) = 1024 /\ bit(11) = 2048 /\ bit(12) = 4096
  /\ bit(13) = 8192 /\ bit(14) = 16384 /\ bit(15) = 32768 /\ bit(16) = 65536
  /\ bit(17) = 131072 /\ bit(18) = 262144 /\ bit(19) = 524288 /\ bit(20) = 1048576
  /\ bit(21) = 2097152 /\ bit(22) = 4194304 /\ bit(23) = 8388608
  /\ bit(24) = 16777216 /\ bit(25) = 33554432 /\ bit(26) = 67108864
  /\ bit(27) = 134217728 /\ bit(28) = 268435456 /\ bit(29) = 536870912
  /\ bit(30) = 1073741824 /\ bit(31) = 2147483648 /\ bit(32) = 4294967296
  BY DEF bit

(* Each is twice the one before.                                           *)
LEMMA Twice ==
  ASSUME NEW k \in 0 .. 31
  PROVE  bit(k+1) = 2 * bit(k) /\ bit(k) \in Nat \ {0} /\ bit(k+1) \in Nat \ {0}
  BY Bits

(* They grow.                                                              *)
LEMMA BitsGrow ==
  ASSUME NEW k \in 0 .. 32, NEW j \in 0 .. 32, k < j
  PROVE  2 * bit(k) <= bit(j)
  BY Bits

-----------------------------------------------------------------------------
(* v & w, half by half.                                                    *)

(* Quotients and remainders of naturals are naturals.                      *)
LEMMA Parts ==
  ASSUME NEW v \in Nat, NEW B \in Nat \ {0}
  PROVE  /\ v \div B \in Nat /\ v % B \in 0 .. B-1
         /\ v = B * (v \div B) + (v % B)
  <1>1. v = B * (v \div B) + (v % B) /\ v \div B \in Int /\ v % B \in 0 .. B-1
    BY DivMod
  <1>2. v \div B >= 0
    <2> SUFFICES ASSUME v \div B <= -1 PROVE FALSE
      BY <1>1
    <2>1. B * (v \div B) <= B * (-1)
      BY <1>1
    <2> QED BY <1>1, <2>1
  <1> QED BY <1>1, <1>2

(* x has no more than the last digits of w, those below N.                 *)
Within(x, w, N) == x \in 0 .. w % N

(* The last digits are no more than the whole.                             *)
LEMMA WithinLess ==
  ASSUME NEW x, NEW w \in Nat, NEW N \in Nat \ {0}, Within(x, w, N)
  PROVE  x \in 0 .. w
  <1> DEFINE q == w \div N
             r == w % N
  <1>1. w = N * q + r /\ q \in Nat /\ r \in Nat
    BY Parts
  <1>2. x \in 0 .. r
    BY DEF Within
  <1> HIDE DEF q, r
  <1>3. N * q \in Nat
    BY <1>1
  <1> QED BY <1>1, <1>2, <1>3

(* Both halves within the halves of w: the whole within w.                 *)
LEMMA JoinWithin ==
  ASSUME NEW B \in Nat \ {0}, NEW w \in Nat, NEW hi, NEW lo,
         Within(hi, w \div B, B), Within(lo, w, B)
  PROVE  Within(B * hi + lo, w, B * B)
  <1> DEFINE x == (w \div B) % B
             y == w % B
  <1>1. w % (B * B) = B * x + y
    BY ModProduct
  <1>2. x \in Nat /\ y \in Nat
    BY Parts
  <1>3. hi \in 0 .. x /\ lo \in 0 .. y
    BY DEF Within
  <1> HIDE DEF x, y
  <1>4. B * hi <= B * x /\ B * hi \in Nat /\ B * x \in Nat
    BY <1>2, <1>3
  <1> QED BY <1>1, <1>2, <1>3, <1>4 DEF Within

(* v & w is made of its halves; where w has no ones, neither have they.    *)
LEMMA NoOnes ==
  ASSUME NEW v \in Nat
  PROVE  And1(v, 0) = 0 /\ And2(v, 0) = 0 /\ And4(v, 0) = 0 /\ And8(v, 0) = 0 /\ And16(v, 0) = 0
  <1>1. v % 2 \in 0 .. 1 /\ 0 % 2 = 0
    BY SMT
  <1>2. And1(v, 0) = 0
    BY <1>1, SMT DEF And1
  <1> QED BY <1>2 DEF And2, And4, And8, And16

LEMMA And2Halves ==
  ASSUME NEW v \in Nat, NEW w \in Nat
  PROVE  And2(v, w) = 2 * And1(v \div 2, w \div 2) + And1(v, w)
  <1>1. CASE w = 0
    <2>1. v \div 2 \in Nat /\ 0 \div 2 = 0
      BY Parts, SMT
    <2>2. And1(v \div 2, 0) = 0 /\ And1(v, 0) = 0
      BY <2>1, NoOnes
    <2>3. And2(v, w) = 0
      BY <1>1 DEF And2
    <2> QED BY <1>1, <2>1, <2>2, <2>3
  <1>2. CASE w # 0
    BY <1>2 DEF And2
  <1> QED BY <1>1, <1>2

LEMMA And4Halves ==
  ASSUME NEW v \in Nat, NEW w \in Nat
  PROVE  And4(v, w) = 4 * And2(v \div 4, w \div 4) + And2(v, w)
  <1>1. CASE w = 0
    <2>1. v \div 4 \in Nat /\ 0 \div 4 = 0
      BY Parts, SMT
    <2>2. And2(v \div 4, 0) = 0 /\ And2(v, 0) = 0
      BY <2>1, NoOnes
    <2>3. And4(v, w) = 0
      BY <1>1 DEF And4
    <2> QED BY <1>1, <2>1, <2>2, <2>3
  <1>2. CASE w # 0
    BY <1>2 DEF And4
  <1> QED BY <1>1, <1>2

LEMMA And8Halves ==
  ASSUME NEW v \in Nat, NEW w \in Nat
  PROVE  And8(v, w) = 16 * And4(v \div 16, w \div 16) + And4(v, w)
  <1>1. CASE w = 0
    <2>1. v \div 16 \in Nat /\ 0 \div 16 = 0
      BY Parts, SMT
    <2>2. And4(v \div 16, 0) = 0 /\ And4(v, 0) = 0
      BY <2>1, NoOnes
    <2>3. And8(v, w) = 0
      BY <1>1 DEF And8
    <2> QED BY <1>1, <2>1, <2>2, <2>3
  <1>2. CASE w # 0
    BY <1>2 DEF And8
  <1> QED BY <1>1, <1>2

LEMMA And16Halves ==
  ASSUME NEW v \in Nat, NEW w \in Nat
  PROVE  And16(v, w) = 256 * And8(v \div 256, w \div 256) + And8(v, w)
  <1>1. CASE w = 0
    <2>1. v \div 256 \in Nat /\ 0 \div 256 = 0
      BY Parts, SMT
    <2>2. And8(v \div 256, 0) = 0 /\ And8(v, 0) = 0
      BY <2>1, NoOnes
    <2>3. And16(v, w) = 0
      BY <1>1 DEF And16
    <2> QED BY <1>1, <2>1, <2>2, <2>3
  <1>2. CASE w # 0
    BY <1>2 DEF And16
  <1> QED BY <1>1, <1>2

LEMMA AndHalves ==
  ASSUME NEW v \in Nat, NEW w \in Nat
  PROVE  And(v, w) = 65536 * And16(v \div 65536, w \div 65536) + And16(v, w)
  <1>1. CASE w = 0
    <2>1. v \div 65536 \in Nat /\ 0 \div 65536 = 0
      BY Parts, SMT
    <2>2. And16(v \div 65536, 0) = 0 /\ And16(v, 0) = 0
      BY <2>1, NoOnes
    <2>3. And(v, w) = 0
      BY <1>1 DEF And
    <2> QED BY <1>1, <2>1, <2>2, <2>3
  <1>2. CASE w # 0
    BY <1>2 DEF And
  <1> QED BY <1>1, <1>2

(* v & w has no more than w.                                               *)
LEMMA AndBound ==
  ASSUME NEW v0 \in Nat, NEW w0 \in Nat
  PROVE  And(v0, w0) \in 0 .. w0
  <1>1. \A v, w \in Nat : Within(And1(v, w), w, 2)
    <2> TAKE v, w \in Nat
    <2>1. v % 2 \in 0 .. 1 /\ w % 2 \in 0 .. 1
      OBVIOUS
    <2> QED BY <2>1 DEF And1, Within
  <1>2. \A v, w \in Nat : Within(And2(v, w), w, 4)
    <2> TAKE v, w \in Nat
    <2>1. v \div 2 \in Nat /\ w \div 2 \in Nat
      BY Parts, SMT
    <2>2. Within(And1(v \div 2, w \div 2), w \div 2, 2) /\ Within(And1(v, w), w, 2)
      BY <1>1, <2>1, SMT
    <2> QED BY <2>2, JoinWithin, And2Halves, SMT
  <1>3. \A v, w \in Nat : Within(And4(v, w), w, 16)
    <2> TAKE v, w \in Nat
    <2>1. v \div 4 \in Nat /\ w \div 4 \in Nat
      BY Parts, SMT
    <2>2. Within(And2(v \div 4, w \div 4), w \div 4, 4) /\ Within(And2(v, w), w, 4)
      BY <1>2, <2>1, SMT
    <2> QED BY <2>2, JoinWithin, And4Halves, SMT
  <1>4. \A v, w \in Nat : Within(And8(v, w), w, 256)
    <2> TAKE v, w \in Nat
    <2>1. v \div 16 \in Nat /\ w \div 16 \in Nat
      BY Parts, SMT
    <2>2. Within(And4(v \div 16, w \div 16), w \div 16, 16) /\ Within(And4(v, w), w, 16)
      BY <1>3, <2>1, SMT
    <2> QED BY <2>2, JoinWithin, And8Halves, SMT
  <1>5. \A v, w \in Nat : Within(And16(v, w), w, 65536)
    <2> TAKE v, w \in Nat
    <2>1. v \div 256 \in Nat /\ w \div 256 \in Nat
      BY Parts, SMT
    <2>2. Within(And8(v \div 256, w \div 256), w \div 256, 256) /\ Within(And8(v, w), w, 256)
      BY <1>4, <2>1, SMT
    <2> QED BY <2>2, JoinWithin, And16Halves, SMT
  <1>6. \A v, w \in Nat : Within(And(v, w), w, 4294967296)
    <2> TAKE v, w \in Nat
    <2>1. v \div 65536 \in Nat /\ w \div 65536 \in Nat
      BY Parts, SMT
    <2>2. Within(And16(v \div 65536, w \div 65536), w \div 65536, 65536) /\ Within(And16(v, w), w, 65536)
      BY <1>5, <2>1, SMT
    <2> QED BY <2>2, JoinWithin, AndHalves, SMT
  <1>7. Within(And(v0, w0), w0, 4294967296)
    BY <1>6
  <1> QED BY <1>7, WithinLess, SMT

(* The remainders that divide bit(2n) into two halves of n bits.           *)
Halving == {1, 2, 4, 8, 16}

(* A power of two in the upper half.                                       *)
LEMMA UpperBit ==
  ASSUME NEW n \in Halving, NEW j \in 0 .. n
  PROVE  /\ bit(n + j) = bit(n) * bit(j) /\ bit(n) \in Nat \ {0} /\ bit(j) \in Nat \ {0}
         /\ 2 * n \in 0 .. 32 /\ n \in 0 .. 16
  <1>1. CASE n = 1
    BY <1>1, Bits, SMT
  <1>2. CASE n = 2
    BY <1>2, Bits, SMT
  <1>3. CASE n = 4
    BY <1>3, Bits, SMT
  <1>4. CASE n = 8
    BY <1>4, Bits, SMT
  <1>5. CASE n = 16
    BY <1>5, Bits, SMT
  <1> QED BY <1>1, <1>2, <1>3, <1>4, <1>5 DEF Halving

(* A half of 2n bits.                                                      *)
LEMMA HalfBits ==
  ASSUME NEW n \in Halving
  PROVE  bit(2 * n) = bit(n) * bit(n) /\ bit(n) \in Nat \ {0} /\ n \in 0 .. 16
  <1>1. n \in 0 .. n /\ n + n = 2 * n
    BY SMT DEF Halving
  <1> QED BY <1>1, UpperBit

(* Where w is the mask of a power of two, x is the remainder of v by it.   *)
Masked(x, v, w, n) ==
  \A k \in 0 .. n : w % bit(n) = bit(k) - 1 => x = v % bit(k)

(* Both halves masked: the whole masked.                                   *)
LEMMA JoinMasked ==
  ASSUME NEW n \in Halving, NEW v \in Nat, NEW w \in Nat, NEW hi, NEW lo,
         Masked(hi, v \div bit(n), w \div bit(n), n), Masked(lo, v, w, n)
  PROVE  Masked(bit(n) * hi + lo, v, w, 2 * n)
  <1> DEFINE B == bit(n)
             x == (w \div B) % B
             y == w % B
  <1>1. B \in Nat \ {0} /\ n \in 0 .. 16
    <2>1. 0 \in 0 .. n
      BY SMT DEF Halving
    <2> QED BY <2>1, UpperBit
  <1>2. bit(2 * n) = B * B
    <2>1. bit(n + n) = bit(n) * bit(n)
      <3>1. n \in 0 .. n
        BY <1>1
      <3> QED BY <3>1, UpperBit
    <2>2. n + n = 2 * n
      BY <1>1
    <2> QED BY <2>1, <2>2
  <1>3. w % (B * B) = B * x + y /\ x \in 0 .. B-1 /\ y \in 0 .. B-1
    BY <1>1, ModProduct, Parts
  <1>4. SUFFICES ASSUME NEW k \in 0 .. 2 * n, B * x + y = bit(k) - 1
                 PROVE  B * hi + lo = v % bit(k)
    BY <1>2, <1>3 DEF Masked
  <1>5. /\ \A i \in 0 .. n : x = bit(i) - 1 => hi = (v \div B) % bit(i)
        /\ \A i \in 0 .. n : y = bit(i) - 1 => lo = v % bit(i)
    BY DEF Masked
  <1>6. bit(0) = 1
    BY Bits, SMT
  <1> HIDE DEF B, x, y
  <1>7. (B * x + y) \div B = x /\ (B * x + y) % B = y
    <2>1. x \in Int /\ y \in 0 .. B-1
      BY <1>1, <1>3
    <2> QED BY <1>1, <2>1, Divided
  <1>8. CASE k <= n
    <2>1. bit(k) \in 1 .. B
      <3>1. k \in 0 .. 16 /\ (k = n \/ k < n)
        BY <1>1, <1>8
      <3>2. bit(k) \in Nat \ {0} /\ (k < n => 2 * bit(k) <= bit(n))
        BY <1>1, <3>1, Twice, BitsGrow, SMT
      <3> QED BY <1>1, <3>1, <3>2 DEF B
    <2>2. x = 0 /\ y = bit(k) - 1
      <3> DEFINE b == bit(k) - 1
      <3>1. B * x + y = B * 0 + b /\ b \in 0 .. B-1
        BY <1>1, <1>4, <2>1
      <3> HIDE DEF b
      <3>2. (B * 0 + b) \div B = 0 /\ (B * 0 + b) % B = b
        BY <1>1, <3>1, Divided
      <3> QED BY <1>7, <3>1, <3>2 DEF b
    <2>3. hi = 0
      <3>1. hi = (v \div B) % 1
        BY <1>1, <1>5, <1>6, <2>2
      <3>2. v \div B \in Nat
        BY <1>1, Parts
      <3> QED BY <3>1, <3>2
    <2>4. lo = v % bit(k)
      BY <1>1, <1>4, <1>5, <1>8, <2>2
    <2>5. v % bit(k) \in Int
      BY <2>1, Parts
    <2> QED BY <1>1, <2>3, <2>4, <2>5
  <1>9. CASE k > n
    <2> DEFINE j == k - n
    <2>1. j \in 0 .. n /\ n + j = k
      BY <1>1, <1>4, <1>9
    <2> HIDE DEF j
    <2>2. bit(k) = B * bit(j) /\ bit(j) \in Nat \ {0}
      BY <2>1, UpperBit DEF B
    <2>3. x = bit(j) - 1 /\ y = B - 1
      <3> DEFINE b == bit(j) - 1
                 l == B - 1
      <3>1. b \in Int /\ l \in 0 .. B-1 /\ B * x + y = B * b + l
        BY <1>1, <1>4, <2>2
      <3> HIDE DEF b, l
      <3>2. (B * b + l) \div B = b /\ (B * b + l) % B = l
        BY <1>1, <3>1, Divided
      <3> QED BY <1>7, <3>1, <3>2 DEF b, l
    <2>4. hi = (v \div B) % bit(j) /\ lo = v % B
      BY <1>1, <1>5, <2>1, <2>3 DEF B
    <2> QED BY <1>1, <2>2, <2>4, ModProduct
  <1> QED BY <1>1, <1>4, <1>8, <1>9

(* v & (2^k - 1) is v % 2^k.                                               *)
LEMMA AndMask ==
  ASSUME NEW v0 \in Nat, NEW k0 \in 0 .. 31
  PROVE  And(v0, bit(k0) - 1) = v0 % bit(k0)
  <1>1. \A v, w \in Nat : Masked(And1(v, w), v, w, 1)
    <2> TAKE v, w \in Nat
    <2>1. /\ bit(0) = 1 /\ bit(1) = 2
          /\ v % 2 \in 0 .. 1 /\ w % 2 \in 0 .. 1 /\ v % 1 = 0
      BY Bits, SMT
    <2>2. ASSUME NEW k \in 0 .. 1, w % 2 = bit(k) - 1
          PROVE  (v % 2) * (w % 2) = v % bit(k)
      <3>1. CASE k = 0
        BY <2>1, <2>2, <3>1
      <3>2. CASE k = 1
        BY <2>1, <2>2, <3>2
      <3> QED BY <3>1, <3>2
    <2> QED BY <2>1, <2>2 DEF And1, Masked
  <1>2. \A v, w \in Nat : Masked(And2(v, w), v, w, 2)
    <2> TAKE v, w \in Nat
    <2>1. v \div 2 \in Nat /\ w \div 2 \in Nat
      BY Parts, SMT
    <2>2. /\ Masked(And1(v \div 2, w \div 2), v \div 2, w \div 2, 1)
          /\ Masked(And1(v, w), v, w, 1)
      BY <1>1, <2>1, SMT
    <2>3. bit(1) = 2
      BY Bits, SMT
    <2> QED BY <2>2, <2>3, JoinMasked, And2Halves, SMT DEF Halving
  <1>3. \A v, w \in Nat : Masked(And4(v, w), v, w, 4)
    <2> TAKE v, w \in Nat
    <2>1. v \div 4 \in Nat /\ w \div 4 \in Nat
      BY Parts, SMT
    <2>2. /\ Masked(And2(v \div 4, w \div 4), v \div 4, w \div 4, 2)
          /\ Masked(And2(v, w), v, w, 2)
      BY <1>2, <2>1, SMT
    <2>3. bit(2) = 4
      BY Bits, SMT
    <2> QED BY <2>2, <2>3, JoinMasked, And4Halves, SMT DEF Halving
  <1>4. \A v, w \in Nat : Masked(And8(v, w), v, w, 8)
    <2> TAKE v, w \in Nat
    <2>1. v \div 16 \in Nat /\ w \div 16 \in Nat
      BY Parts, SMT
    <2>2. /\ Masked(And4(v \div 16, w \div 16), v \div 16, w \div 16, 4)
          /\ Masked(And4(v, w), v, w, 4)
      BY <1>3, <2>1, SMT
    <2>3. bit(4) = 16
      BY Bits, SMT
    <2> QED BY <2>2, <2>3, JoinMasked, And8Halves, SMT DEF Halving
  <1>5. \A v, w \in Nat : Masked(And16(v, w), v, w, 16)
    <2> TAKE v, w \in Nat
    <2>1. v \div 256 \in Nat /\ w \div 256 \in Nat
      BY Parts, SMT
    <2>2. /\ Masked(And8(v \div 256, w \div 256), v \div 256, w \div 256, 8)
          /\ Masked(And8(v, w), v, w, 8)
      BY <1>4, <2>1, SMT
    <2>3. bit(8) = 256
      BY Bits, SMT
    <2> QED BY <2>2, <2>3, JoinMasked, And16Halves, SMT DEF Halving
  <1>6. \A v, w \in Nat : Masked(And(v, w), v, w, 32)
    <2> TAKE v, w \in Nat
    <2>1. v \div 65536 \in Nat /\ w \div 65536 \in Nat
      BY Parts, SMT
    <2>2. /\ Masked(And16(v \div 65536, w \div 65536), v \div 65536, w \div 65536, 16)
          /\ Masked(And16(v, w), v, w, 16)
      BY <1>5, <2>1, SMT
    <2>3. bit(16) = 65536
      BY Bits, SMT
    <2> QED BY <2>2, <2>3, JoinMasked, AndHalves, SMT DEF Halving
  <1>7. bit(k0) \in Nat \ {0} /\ bit(32) = 2 * bit(31) /\ (k0 < 31 => 2 * bit(k0) <= bit(31))
    BY Twice, BitsGrow, SMT
  <1>8. (bit(k0) - 1) % bit(32) = bit(k0) - 1
    <2>1. bit(k0) - 1 \in 0 .. bit(32) - 1 /\ bit(32) \in Nat \ {0}
      BY <1>7, Bits, SMT
    <2> DEFINE b == bit(k0) - 1
               N == bit(32)
    <2>2. b \in 0 .. N-1 /\ N \in Nat \ {0} /\ b = N * 0 + b
      BY <2>1
    <2> HIDE DEF b, N
    <2>3. b % N = b
      BY <2>2, DivUnique
    <2> QED BY <2>3 DEF b, N
  <1> QED BY <1>6, <1>7, <1>8 DEF Masked

(* x is v & v, as far as n digits go.                                      *)
Whole(x, v, n) == x = v % bit(n)

(* Both halves whole.                                                      *)
LEMMA JoinWhole ==
  ASSUME NEW n \in Halving, NEW v \in Nat, NEW hi, NEW lo,
         Whole(hi, v \div bit(n), n), Whole(lo, v, n)
  PROVE  Whole(bit(n) * hi + lo, v, 2 * n)
  <1>1. bit(2 * n) = bit(n) * bit(n) /\ bit(n) \in Nat \ {0}
    BY HalfBits
  <1> QED BY <1>1, ModProduct DEF Whole

(* x = v & (v - 1) is zero for powers of two only.                         *)
Alone(x, v, n) == x = 0 => \E k \in 0 .. n - 1 : v = bit(k)

(* With ones in the lower half the upper half has to be empty; without, it *)
(* is the upper half that is alone.                                        *)
LEMMA JoinAlone ==
  ASSUME NEW n \in Halving, NEW v \in 1 .. bit(2 * n) - 1, NEW hi \in Nat, NEW lo \in Nat,
         v % bit(n) # 0 => hi = v \div bit(n),
         v % bit(n) = 0 => Alone(hi, v \div bit(n), n),
         v < bit(n) => Alone(lo, v, n)
  PROVE  Alone(bit(n) * hi + lo, v, 2 * n)
  <1> DEFINE B == bit(n)
  <1>1. B \in Nat \ {0} /\ n \in 0 .. 16 /\ v \in Nat \ {0}
    BY HalfBits
  <1>2. SUFFICES ASSUME B * hi + lo = 0
                 PROVE  \E k \in 0 .. 2 * n - 1 : v = bit(k)
    BY DEF Alone
  <1>3. v = B * (v \div B) + (v % B) /\ v \div B \in Nat /\ v % B \in 0 .. B-1
    BY <1>1, Parts
  <1> HIDE DEF B
  <1>4. hi = 0 /\ lo = 0
    <2>1. B * hi \in Nat
      BY <1>1
    <2>2. B * hi = 0 /\ lo = 0
      BY <1>1, <1>2, <2>1
    <2> QED BY <1>1, <2>2
  <1>5. CASE v % B # 0
    <2>1. v \div B = 0
      BY <1>4, <1>5 DEF B
    <2>2. B * (v \div B) = 0
      BY <1>1, <2>1
    <2>3. v < B
      BY <1>1, <1>3, <2>2
    <2>4. \E k \in 0 .. n - 1 : v = bit(k)
      BY <1>4, <2>3 DEF Alone, B
    <2> QED BY <1>1, <2>4
  <1>6. CASE v % B = 0
    <2>1. PICK j \in 0 .. n - 1 : v \div B = bit(j)
      BY <1>4, <1>6 DEF Alone, B
    <2>2. bit(n + j) = B * bit(j)
      <3>1. j \in 0 .. n
        BY <1>1
      <3> QED BY <3>1, UpperBit DEF B
    <2>3. v = bit(n + j)
      <3>1. bit(j) \in Nat
        BY <1>3, <2>1
      <3> QED BY <1>1, <1>3, <1>6, <2>1, <2>2, <3>1
    <2>4. n + j \in 0 .. 2 * n - 1
      BY <1>1
    <2> QED BY <2>3, <2>4
  <1> QED BY <1>5, <1>6

(* The halves of v - 1.                                                    *)
LEMMA Predecessor ==
  ASSUME NEW v \in Nat \ {0}, NEW B \in Nat \ {0}
  PROVE  /\ v % B # 0 => (v - 1) \div B = v \div B
         /\ v % B = 0 => (v - 1) \div B = (v \div B) - 1 /\ v \div B >= 1
  <1> DEFINE q == v \div B
             r == v % B
  <1>1. v = B * q + r /\ q \in Nat /\ r \in 0 .. B-1
    BY Parts
  <1> HIDE DEF q, r
  <1>2. CASE r # 0
    <2>1. v - 1 = B * q + (r - 1) /\ r - 1 \in 0 .. B-1 /\ v - 1 \in Int
      BY <1>1, <1>2
    <2>2. (v - 1) \div B = q
      <3> DEFINE u == v - 1
                 s == r - 1
      <3>1. u = B * q + s /\ s \in 0 .. B-1 /\ u \in Int
        BY <2>1
      <3> HIDE DEF u, s
      <3>2. u \div B = q
        BY <1>1, <3>1, DivUnique
      <3> QED BY <3>2 DEF u
    <2> QED BY <1>2, <2>2 DEF q, r
  <1>3. CASE r = 0
    <2>1. q >= 1
      <3> SUFFICES ASSUME q = 0 PROVE FALSE
        BY <1>1
      <3> QED BY <1>1, <1>3
    <2>2. v - 1 = B * (q - 1) + (B - 1)
      BY <1>1, <1>3
    <2>3. (v - 1) \div B = q - 1
      <3> DEFINE u == v - 1
                 p == q - 1
                 s == B - 1
      <3>1. u = B * p + s /\ p \in Int /\ s \in 0 .. B-1 /\ u \in Int
        BY <1>1, <2>2
      <3> HIDE DEF u, p, s
      <3>2. u \div B = p
        BY <3>1, DivUnique
      <3> QED BY <3>2 DEF u, p
    <2> QED BY <1>3, <2>1, <2>3 DEF q, r
  <1> QED BY <1>2, <1>3

(* The same, from what is known of the halves of v and v - 1.              *)
Equal(vh, wh) == wh = vh
Next1(vh, wh, n) == wh = vh - 1 /\ vh \in 1 .. bit(n) - 1

LEMMA AloneStep ==
  ASSUME NEW n \in Halving, NEW v \in 1 .. bit(2 * n) - 1, NEW hi \in Nat, NEW lo \in Nat,
         Equal(v \div bit(n), (v - 1) \div bit(n)) => Whole(hi, v \div bit(n), n),
         Next1(v \div bit(n), (v - 1) \div bit(n), n) => Alone(hi, v \div bit(n), n),
         v \in 1 .. bit(n) - 1 => Alone(lo, v, n)
  PROVE  Alone(bit(n) * hi + lo, v, 2 * n)
  <1> DEFINE B == bit(n)
             q == v \div B
             r == v % B
  <1>1. B \in Nat \ {0} /\ bit(2 * n) = B * B
    BY HalfBits
  <1>2. v \in Nat \ {0}
    BY <1>1
  <1>3. v = B * q + r /\ q \in Nat /\ r \in 0 .. B-1
    BY <1>1, <1>2, Parts
  <1>4. /\ v % B # 0 => (v - 1) \div B = v \div B
        /\ v % B = 0 => (v - 1) \div B = (v \div B) - 1 /\ v \div B >= 1
    BY <1>1, <1>2, Predecessor
  <1>5. q <= B - 1
    <2> HIDE DEF B, q, r
    <2>1. SUFFICES ASSUME q >= B PROVE FALSE
      BY <1>1, <1>3
    <2>2. B * q >= B * B /\ B * q \in Nat /\ B * B \in Nat
      BY <1>1, <1>3, <2>1
    <2>3. v <= B * B - 1
      BY <1>1 DEF B
    <2> QED BY <1>1, <1>3, <2>2, <2>3
  <1>6. v % B # 0 => hi = q
    <2> SUFFICES ASSUME v % B # 0 PROVE hi = q
      OBVIOUS
    <2>1. Equal(q, (v - 1) \div B)
      BY <1>4 DEF Equal
    <2>2. hi = q % B
      BY <2>1 DEF Whole
    <2>3. q = B * 0 + q /\ q \in 0 .. B-1
      <3> HIDE DEF B, q
      <3> QED BY <1>1, <1>3, <1>5
    <2>4. (B * 0 + q) % B = q
      <3> HIDE DEF B, q, r
      <3>1. B \in Nat \ {0} /\ 0 \in Int /\ q \in 0 .. B-1
        BY <1>1, <2>3
      <3> QED BY <3>1, Divided
    <2> QED BY <2>2, <2>3, <2>4
  <1>7. v % B = 0 => Alone(hi, q, n)
    <2> SUFFICES ASSUME v % B = 0 PROVE Alone(hi, q, n)
      OBVIOUS
    <2>1. (v - 1) \div B = q - 1 /\ q >= 1
      BY <1>4
    <2>2. q \in 1 .. B - 1
      <3> HIDE DEF B, q
      <3> QED BY <1>1, <1>3, <1>5, <2>1
    <2> QED BY <2>1, <2>2 DEF Next1
  <1>8. v < B => Alone(lo, v, n)
    <2> SUFFICES ASSUME v < B PROVE Alone(lo, v, n)
      OBVIOUS
    <2>1. v \in 1 .. B - 1
      <3> HIDE DEF B
      <3> QED BY <1>1, <1>2
    <2> QED BY <2>1
  <1> QED BY <1>6, <1>7, <1>8, JoinAlone

Natural(x) == x \in Nat

LEMMA JoinNatural ==
  ASSUME NEW B \in Nat, NEW hi, NEW lo, Natural(hi), Natural(lo)
  PROVE  Natural(B * hi + lo)
  BY DEF Natural

(* The upper half of a natural number is one.                              *)
LEMMA HalfNatural ==
  ASSUME NEW v \in Nat, NEW n \in Halving
  PROVE  v \div bit(n) \in Nat
  <1>1. bit(n) \in Nat \ {0}
    BY HalfBits
  <1> QED BY <1>1, Parts

LEMMA AndNatural ==
  /\ \A v, w \in Nat : Natural(And1(v, w))
  /\ \A v, w \in Nat : Natural(And2(v, w))
  /\ \A v, w \in Nat : Natural(And4(v, w))
  /\ \A v, w \in Nat : Natural(And8(v, w))
  /\ \A v, w \in Nat : Natural(And16(v, w))
  <1>1. \A v, w \in Nat : Natural(And1(v, w))
    <2> TAKE v, w \in Nat
    <2>1. v % 2 \in 0 .. 1 /\ w % 2 \in 0 .. 1
      OBVIOUS
    <2> QED BY <2>1 DEF And1, Natural
  <1>2. \A v, w \in Nat : Natural(And2(v, w))
    <2> TAKE v, w \in Nat
    <2>1. v \div 2 \in Nat /\ w \div 2 \in Nat
      BY Parts, SMT
    <2>2. Natural(And1(v \div 2, w \div 2)) /\ Natural(And1(v, w))
      BY <1>1, <2>1, SMT
    <2> QED BY <2>2, JoinNatural, And2Halves, SMT
  <1>3. \A v, w \in Nat : Natural(And4(v, w))
    <2> TAKE v, w \in Nat
    <2>1. v \div 4 \in Nat /\ w \div 4 \in Nat
      BY Parts, SMT
    <2>2. Natural(And2(v \div 4, w \div 4)) /\ Natural(And2(v, w))
      BY <1>2, <2>1, SMT
    <2> QED BY <2>2, JoinNatural, And4Halves, SMT
  <1>4. \A v, w \in Nat : Natural(And8(v, w))
    <2> TAKE v, w \in Nat
    <2>1. v \div 16 \in Nat /\ w \div 16 \in Nat
      BY Parts, SMT
    <2>2. Natural(And4(v \div 16, w \div 16)) /\ Natural(And4(v, w))
      BY <1>3, <2>1, SMT
    <2> QED BY <2>2, JoinNatural, And8Halves, SMT
  <1>5. \A v, w \in Nat : Natural(And16(v, w))
    <2> TAKE v, w \in Nat
    <2>1. v \div 256 \in Nat /\ w \div 256 \in Nat
      BY Parts, SMT
    <2>2. Natural(And8(v \div 256, w \div 256)) /\ Natural(And8(v, w))
      BY <1>4, <2>1, SMT
    <2> QED BY <2>2, JoinNatural, And16Halves, SMT
  <1> QED BY <1>1, <1>2, <1>3, <1>4, <1>5

(* v & v is v.                                                             *)
LEMMA AndWhole ==
  /\ \A v \in Nat : Whole(And1(v, v), v, 1)
  /\ \A v \in Nat : Whole(And2(v, v), v, 2)
  /\ \A v \in Nat : Whole(And4(v, v), v, 4)
  /\ \A v \in Nat : Whole(And8(v, v), v, 8)
  /\ \A v \in Nat : Whole(And16(v, v), v, 16)
  <1>1. \A v \in Nat : Whole(And1(v, v), v, 1)
    <2> TAKE v \in Nat
    <2>1. bit(1) = 2 /\ v % 2 \in 0 .. 1
      BY Bits, SMT
    <2> QED BY <2>1 DEF And1, Whole
  <1>2. \A v \in Nat : Whole(And2(v, v), v, 2)
    <2> TAKE v \in Nat
    <2>1. bit(1) = 2 /\ 1 \in Halving /\ 2 * 1 = 2
      BY Bits, SMT DEF Halving
    <2>2. v \div 2 \in Nat
      BY Parts, SMT
    <2>3. Whole(And1(v \div 2, v \div 2), v \div 2, 1) /\ Whole(And1(v, v), v, 1)
      BY <1>1, <2>2, SMT
    <2>4. Whole(bit(1) * And1(v \div 2, v \div 2) + And1(v, v), v, 2 * 1)
      BY <2>1, <2>3, JoinWhole, SMT
    <2> QED BY <2>1, <2>4, And2Halves, SMT
  <1>3. \A v \in Nat : Whole(And4(v, v), v, 4)
    <2> TAKE v \in Nat
    <2>1. bit(2) = 4 /\ 2 \in Halving /\ 2 * 2 = 4
      BY Bits, SMT DEF Halving
    <2>2. v \div 4 \in Nat
      BY Parts, SMT
    <2>3. Whole(And2(v \div 4, v \div 4), v \div 4, 2) /\ Whole(And2(v, v), v, 2)
      BY <1>2, <2>2, SMT
    <2>4. Whole(bit(2) * And2(v \div 4, v \div 4) + And2(v, v), v, 2 * 2)
      BY <2>1, <2>3, JoinWhole, SMT
    <2> QED BY <2>1, <2>4, And4Halves, SMT
  <1>4. \A v \in Nat : Whole(And8(v, v), v, 8)
    <2> TAKE v \in Nat
    <2>1. bit(4) = 16 /\ 4 \in Halving /\ 2 * 4 = 8
      BY Bits, SMT DEF Halving
    <2>2. v \div 16 \in Nat
      BY Parts, SMT
    <2>3. Whole(And4(v \div 16, v \div 16), v \div 16, 4) /\ Whole(And4(v, v), v, 4)
      BY <1>3, <2>2, SMT
    <2>4. Whole(bit(4) * And4(v \div 16, v \div 16) + And4(v, v), v, 2 * 4)
      BY <2>1, <2>3, JoinWhole, SMT
    <2> QED BY <2>1, <2>4, And8Halves, SMT
  <1>5. \A v \in Nat : Whole(And16(v, v), v, 16)
    <2> TAKE v \in Nat
    <2>1. bit(8) = 256 /\ 8 \in Halving /\ 2 * 8 = 16
      BY Bits, SMT DEF Halving
    <2>2. v \div 256 \in Nat
      BY Parts, SMT
    <2>3. Whole(And8(v \div 256, v \div 256), v \div 256, 8) /\ Whole(And8(v, v), v, 8)
      BY <1>4, <2>2, SMT
    <2>4. Whole(bit(8) * And8(v \div 256, v \div 256) + And8(v, v), v, 2 * 8)
      BY <2>1, <2>3, JoinWhole, SMT
    <2> QED BY <2>1, <2>4, And16Halves, SMT
  <1> QED BY <1>1, <1>2, <1>3, <1>4, <1>5

(* v & (v - 1) = 0 tells the powers of two, as far as 32 digits go.        *)
LEMMA AndAlone ==
  ASSUME NEW v0 \in 1 .. bit(31), And(v0, v0 - 1) = 0
  PROVE  \E k \in 0 .. 31 : v0 = bit(k)
  <1>1. \A v \in 1 .. bit(1) - 1 : Alone(And1(v, v - 1), v, 1)
    BY Bits, SMT DEF Alone
  <1>2. \A v \in 1 .. bit(2) - 1 : Alone(And2(v, v - 1), v, 2)
    <2> TAKE v \in 1 .. bit(2) - 1
    <2> DEFINE vh == v \div bit(1)
               wh == (v - 1) \div bit(1)
               hi == And1(vh, wh)
               lo == And1(v, v - 1)
    <2>1. bit(1) = 2 /\ 1 \in Halving /\ bit(2 * 1) = bit(2) /\ bit(2) \in Nat /\ 2 * 1 = 2
      BY Bits, SMT DEF Halving
    <2>2. v \in Nat /\ v - 1 \in Nat
      BY <2>1, SMT
    <2>3. vh \in Nat /\ wh \in Nat
      BY <2>1, <2>2, HalfNatural
    <2> HIDE DEF vh, wh
    <2>4. Natural(hi) /\ Natural(lo)
      BY <2>2, <2>3, AndNatural
    <2>5. Equal(vh, wh) => Whole(hi, vh, 1)
      BY <2>3, AndWhole DEF Equal
    <2>6. Next1(vh, wh, 1) => Alone(hi, vh, 1)
      BY <1>1 DEF Next1
    <2>7. v \in 1 .. bit(1) - 1 => Alone(lo, v, 1)
      BY <1>1
    <2>8. Alone(bit(1) * hi + lo, v, 2 * 1)
      <3> HIDE DEF hi, lo
      <3>1. hi \in Nat /\ lo \in Nat
        BY <2>4 DEF Natural
      <3>2. v \in 1 .. bit(2 * 1) - 1
        BY <2>1
      <3>3. /\ Equal(v \div bit(1), (v - 1) \div bit(1)) => Whole(hi, v \div bit(1), 1)
            /\ Next1(v \div bit(1), (v - 1) \div bit(1), 1) => Alone(hi, v \div bit(1), 1)
        BY <2>5, <2>6 DEF vh, wh
      <3> QED BY <2>1, <2>7, <3>1, <3>2, <3>3, AloneStep
    <2>9. And2(v, v - 1) = bit(1) * hi + lo
      <3>1. And2(v, v - 1) = 2 * And1(v \div 2, (v - 1) \div 2) + And1(v, v - 1)
        <4>1. \A w \in Nat : And2(v, w) = 2 * And1(v \div 2, w \div 2) + And1(v, w)
          BY <2>2, And2Halves, SMT
        <4> QED BY <2>2, <4>1, SMT
      <3> QED BY <2>1, <3>1, SMT DEF vh, wh
    <2> QED BY <2>1, <2>8, <2>9, SMT
  <1>3. \A v \in 1 .. bit(4) - 1 : Alone(And4(v, v - 1), v, 4)
    <2> TAKE v \in 1 .. bit(4) - 1
    <2> DEFINE vh == v \div bit(2)
               wh == (v - 1) \div bit(2)
               hi == And2(vh, wh)
               lo == And2(v, v - 1)
    <2>1. bit(2) = 4 /\ 2 \in Halving /\ bit(2 * 2) = bit(4) /\ bit(4) \in Nat /\ 2 * 2 = 4
      BY Bits, SMT DEF Halving
    <2>2. v \in Nat /\ v - 1 \in Nat
      BY <2>1, SMT
    <2>3. vh \in Nat /\ wh \in Nat
      BY <2>1, <2>2, HalfNatural
    <2> HIDE DEF vh, wh
    <2>4. Natural(hi) /\ Natural(lo)
      BY <2>2, <2>3, AndNatural
    <2>5. Equal(vh, wh) => Whole(hi, vh, 2)
      BY <2>3, AndWhole DEF Equal
    <2>6. Next1(vh, wh, 2) => Alone(hi, vh, 2)
      BY <1>2 DEF Next1
    <2>7. v \in 1 .. bit(2) - 1 => Alone(lo, v, 2)
      BY <1>2
    <2>8. Alone(bit(2) * hi + lo, v, 2 * 2)
      <3> HIDE DEF hi, lo
      <3>1. hi \in Nat /\ lo \in Nat
        BY <2>4 DEF Natural
      <3>2. v \in 1 .. bit(2 * 2) - 1
        BY <2>1
      <3>3. /\ Equal(v \div bit(2), (v - 1) \div bit(2)) => Whole(hi, v \div bit(2), 2)
            /\ Next1(v \div bit(2), (v - 1) \div bit(2), 2) => Alone(hi, v \div bit(2), 2)
        BY <2>5, <2>6 DEF vh, wh
      <3> QED BY <2>1, <2>7, <3>1, <3>2, <3>3, AloneStep
    <2>9. And4(v, v - 1) = bit(2) * hi + lo
      <3>1. And4(v, v - 1) = 4 * And2(v \div 4, (v - 1) \div 4) + And2(v, v - 1)
        <4>1. \A w \in Nat : And4(v, w) = 4 * And2(v \div 4, w \div 4) + And2(v, w)
          BY <2>2, And4Halves, SMT
        <4> QED BY <2>2, <4>1, SMT
      <3> QED BY <2>1, <3>1, SMT DEF vh, wh
    <2> QED BY <2>1, <2>8, <2>9, SMT
  <1>4. \A v \in 1 .. bit(8) - 1 : Alone(And8(v, v - 1), v, 8)
    <2> TAKE v \in 1 .. bit(8) - 1
    <2> DEFINE vh == v \div bit(4)
               wh == (v - 1) \div bit(4)
               hi == And4(vh, wh)
               lo == And4(v, v - 1)
    <2>1. bit(4) = 16 /\ 4 \in Halving /\ bit(2 * 4) = bit(8) /\ bit(8) \in Nat /\ 2 * 4 = 8
      BY Bits, SMT DEF Halving
    <2>2. v \in Nat /\ v - 1 \in Nat
      BY <2>1, SMT
    <2>3. vh \in Nat /\ wh \in Nat
      BY <2>1, <2>2, HalfNatural
    <2> HIDE DEF vh, wh
    <2>4. Natural(hi) /\ Natural(lo)
      BY <2>2, <2>3, AndNatural
    <2>5. Equal(vh, wh) => Whole(hi, vh, 4)
      BY <2>3, AndWhole DEF Equal
    <2>6. Next1(vh, wh, 4) => Alone(hi, vh, 4)
      BY <1>3 DEF Next1
    <2>7. v \in 1 .. bit(4) - 1 => Alone(lo, v, 4)
      BY <1>3
    <2>8. Alone(bit(4) * hi + lo, v, 2 * 4)
      <3> HIDE DEF hi, lo
      <3>1. hi \in Nat /\ lo \in Nat
        BY <2>4 DEF Natural
      <3>2. v \in 1 .. bit(2 * 4) - 1
        BY <2>1
      <3>3. /\ Equal(v \div bit(4), (v - 1) \div bit(4)) => Whole(hi, v \div bit(4), 4)
            /\ Next1(v \div bit(4), (v - 1) \div bit(4), 4) => Alone(hi, v \div bit(4), 4)
        BY <2>5, <2>6 DEF vh, wh
      <3> QED BY <2>1, <2>7, <3>1, <3>2, <3>3, AloneStep
    <2>9. And8(v, v - 1) = bit(4) * hi + lo
      <3>1. And8(v, v - 1) = 16 * And4(v \div 16, (v - 1) \div 16) + And4(v, v - 1)
        <4>1. \A w \in Nat : And8(v, w) = 16 * And4(v \div 16, w \div 16) + And4(v, w)
          BY <2>2, And8Halves, SMT
        <4> QED BY <2>2, <4>1, SMT
      <3> QED BY <2>1, <3>1, SMT DEF vh, wh
    <2> QED BY <2>1, <2>8, <2>9, SMT
  <1>5. \A v \in 1 .. bit(16) - 1 : Alone(And16(v, v - 1), v, 16)
    <2> TAKE v \in 1 .. bit(16) - 1
    <2> DEFINE vh == v \div bit(8)
               wh == (v - 1) \div bit(8)
               hi == And8(vh, wh)
               lo == And8(v, v - 1)
    <2>1. bit(8) = 256 /\ 8 \in Halving /\ bit(2 * 8) = bit(16) /\ bit(16) \in Nat /\ 2 * 8 = 16
      BY Bits, SMT DEF Halving
    <2>2. v \in Nat /\ v - 1 \in Nat
      BY <2>1, SMT
    <2>3. vh \in Nat /\ wh \in Nat
      BY <2>1, <2>2, HalfNatural
    <2> HIDE DEF vh, wh
    <2>4. Natural(hi) /\ Natural(lo)
      BY <2>2, <2>3, AndNatural
    <2>5. Equal(vh, wh) => Whole(hi, vh, 8)
      BY <2>3, AndWhole DEF Equal
    <2>6. Next1(vh, wh, 8) => Alone(hi, vh, 8)
      BY <1>4 DEF Next1
    <2>7. v \in 1 .. bit(8) - 1 => Alone(lo, v, 8)
      BY <1>4
    <2>8. Alone(bit(8) * hi + lo, v, 2 * 8)
      <3> HIDE DEF hi, lo
      <3>1. hi \in Nat /\ lo \in Nat
        BY <2>4 DEF Natural
      <3>2. v \in 1 .. bit(2 * 8) - 1
        BY <2>1
      <3>3. /\ Equal(v \div bit(8), (v - 1) \div bit(8)) => Whole(hi, v \div bit(8), 8)
            /\ Next1(v \div bit(8), (v - 1) \div bit(8), 8) => Alone(hi, v \div bit(8), 8)
        BY <2>5, <2>6 DEF vh, wh
      <3> QED BY <2>1, <2>7, <3>1, <3>2, <3>3, AloneStep
    <2>9. And16(v, v - 1) = bit(8) * hi + lo
      <3>1. And16(v, v - 1) = 256 * And8(v \div 256, (v - 1) \div 256) + And8(v, v - 1)
        <4>1. \A w \in Nat : And16(v, w) = 256 * And8(v \div 256, w \div 256) + And8(v, w)
          BY <2>2, And16Halves, SMT
        <4> QED BY <2>2, <4>1, SMT
      <3> QED BY <2>1, <3>1, SMT DEF vh, wh
    <2> QED BY <2>1, <2>8, <2>9, SMT
  <1>6. \A v \in 1 .. bit(32) - 1 : Alone(And(v, v - 1), v, 32)
    <2> TAKE v \in 1 .. bit(32) - 1
    <2> DEFINE vh == v \div bit(16)
               wh == (v - 1) \div bit(16)
               hi == And16(vh, wh)
               lo == And16(v, v - 1)
    <2>1. bit(16) = 65536 /\ 16 \in Halving /\ bit(2 * 16) = bit(32) /\ bit(32) \in Nat /\ 2 * 16 = 32
      BY Bits, SMT DEF Halving
    <2>2. v \in Nat /\ v - 1 \in Nat
      BY <2>1, SMT
    <2>3. vh \in Nat /\ wh \in Nat
      BY <2>1, <2>2, HalfNatural
    <2> HIDE DEF vh, wh
    <2>4. Natural(hi) /\ Natural(lo)
      BY <2>2, <2>3, AndNatural
    <2>5. Equal(vh, wh) => Whole(hi, vh, 16)
      BY <2>3, AndWhole DEF Equal
    <2>6. Next1(vh, wh, 16) => Alone(hi, vh, 16)
      BY <1>5 DEF Next1
    <2>7. v \in 1 .. bit(16) - 1 => Alone(lo, v, 16)
      BY <1>5
    <2>8. Alone(bit(16) * hi + lo, v, 2 * 16)
      <3> HIDE DEF hi, lo
      <3>1. hi \in Nat /\ lo \in Nat
        BY <2>4 DEF Natural
      <3>2. v \in 1 .. bit(2 * 16) - 1
        BY <2>1
      <3>3. /\ Equal(v \div bit(16), (v - 1) \div bit(16)) => Whole(hi, v \div bit(16), 16)
            /\ Next1(v \div bit(16), (v - 1) \div bit(16), 16) => Alone(hi, v \div bit(16), 16)
        BY <2>5, <2>6 DEF vh, wh
      <3> QED BY <2>1, <2>7, <3>1, <3>2, <3>3, AloneStep
    <2>9. And(v, v - 1) = bit(16) * hi + lo
      <3>1. And(v, v - 1) = 65536 * And16(v \div 65536, (v - 1) \div 65536) + And16(v, v - 1)
        <4>1. \A w \in Nat : And(v, w) = 65536 * And16(v \div 65536, w \div 65536) + And16(v, w)
          BY <2>2, AndHalves, SMT
        <4> QED BY <2>2, <4>1, SMT
      <3> QED BY <2>1, <3>1, SMT DEF vh, wh
    <2> QED BY <2>1, <2>8, <2>9, SMT
  <1>7. v0 \in 1 .. bit(32) - 1
    BY Bits, SMT
  <1> QED BY <1>6, <1>7 DEF Alone

-----------------------------------------------------------------------------
(* v & -b, and the highest bit.                                            *)

(* Up to a multiple of a, and by less than a.                              *)
LEMMA AlignBounds ==
  ASSUME NEW v \in Nat, NEW a \in Nat \ {0}
  PROVE  align_t(v, a) \in v .. v + a - 1
  <1>1. v + a - 1 \in Nat /\ a - 1 \in Nat /\ a # 0
    OBVIOUS
  <1>2. And(v + a - 1, a - 1) \in 0 .. a - 1
    BY <1>1, AndBound
  <1>3. align_t(v, a) = (v + a - 1) - And(v + a - 1, a - 1)
    BY <1>1 DEF align_t, bound_t
  <1> QED BY <1>2, <1>3

(* For a power of two, to the multiple itself.                             *)
LEMMA AlignBits ==
  ASSUME NEW v \in Nat, NEW k \in 0 .. 31
  PROVE  align_t(v, bit(k)) = bit(k) * ((v + bit(k) - 1) \div bit(k))
  <1> DEFINE B == bit(k)
             x == v + B - 1
  <1>1. B \in Nat \ {0}
    BY Twice
  <1>2. x \in Nat
    BY <1>1
  <1>3. And(x, B - 1) = x % B
    BY <1>2, AndMask
  <1>4. align_t(v, B) = x - (x % B)
    BY <1>1, <1>3 DEF align_t, bound_t
  <1> HIDE DEF B, x
  <1>5. x = B * (x \div B) + (x % B) /\ x \div B \in Nat /\ x % B \in 0 .. B-1
    BY <1>1, <1>2, Parts
  <1>6. x - (x % B) = B * (x \div B)
    BY <1>1, <1>2, <1>5
  <1> QED BY <1>4, <1>6 DEF B, x

(* A multiple of the power of two.                                         *)
LEMMA AlignMultiple ==
  ASSUME NEW v \in Nat, NEW k \in 0 .. 31
  PROVE  align_t(v, bit(k)) % bit(k) = 0
  <1> DEFINE B == bit(k)
             q == (v + B - 1) \div B
  <1>1. B \in Nat \ {0}
    BY Twice
  <1>2. v + B - 1 \in Nat
    BY <1>1
  <1>3. q \in Nat
    BY <1>1, <1>2, Parts
  <1>4. align_t(v, B) = B * q
    BY AlignBits
  <1> HIDE DEF B, q
  <1>5. B * q = B * q + 0 /\ 0 \in 0 .. B-1 /\ q \in Int
    BY <1>1, <1>3
  <1>6. (B * q + 0) % B = 0
    BY <1>1, <1>5, Divided
  <1> QED BY <1>4, <1>5, <1>6 DEF B

(* v & -v is no more than v.                                               *)
LEMMA LowestBound ==
  ASSUME NEW v \in Nat
  PROVE  LowestBit(v) \in 0 .. v
  <1>1. CASE v = 0
    BY <1>1 DEF LowestBit
  <1>2. CASE v # 0
    <2> DEFINE x == And(v, v - 1)
    <2>1. v - 1 \in Nat
      BY <1>2
    <2>2. x \in 0 .. v - 1
      BY <2>1, AndBound
    <2>3. LowestBit(v) = v - x
      BY <1>2 DEF LowestBit, bound_t
    <2> HIDE DEF x
    <2> QED BY <1>2, <2>2, <2>3
  <1> QED BY <1>1, <1>2

(* What IsPowerOf2 says yes to is a power of two.                          *)
LEMMA PowersOf2 ==
  ASSUME NEW a \in 1 .. bit(31), IsPowerOf2(a)
  PROVE  \E k \in 0 .. 31 : a = bit(k)
  <1> DEFINE x == And(a, a - 1)
  <1>1. bit(31) \in Nat
    BY Twice
  <1>2. a \in Nat /\ a # 0 /\ a - 1 \in Nat
    BY <1>1
  <1>3. a - x = a
    BY <1>2 DEF IsPowerOf2, LowestBit, bound_t
  <1>4. x \in 0 .. a - 1
    BY <1>2, AndBound
  <1>5. x = 0
    <2> HIDE DEF x
    <2> QED BY <1>2, <1>3, <1>4
  <1> QED BY <1>5, AndAlone

(* A set of natural numbers that is not empty has a minimum.               *)
LEMMA MinIsIn ==
  ASSUME NEW S, S \subseteq Nat, S # {}
  PROVE  Min(S) \in S /\ \A y \in S : Min(S) <= y
  <1>1. PICK x \in S : \A y \in S : ~(<<y, x>> \in OpToRel(<, Nat))
    BY NatLessThanWellFounded, WFMin
  <1>2. ASSUME NEW y \in S PROVE x <= y
    <2>1. x \in Nat /\ y \in Nat
      OBVIOUS
    <2>2. ~(y < x)
      BY <1>1, <2>1 DEF OpToRel
    <2> QED BY <2>1, <2>2
  <1> QED BY <1>2 DEF Min

(* Only one power of two divides v with the quotient one.                  *)
LEMMA MsbIs ==
  ASSUME NEW b \in 0 .. 30, NEW v \in Nat, bit(b) <= v, v < 2 * bit(b)
  PROVE  Msb(v) = b
  <1>1. v \div bit(b) = 1
    <2>1. bit(b) \in Nat \ {0}
      BY Twice
    <2> QED BY <2>1, DivOne
  <1>2. ASSUME NEW c \in 0 .. 30, v \div bit(c) = 1 PROVE c = b
    <2>1. bit(c) <= v /\ v < 2 * bit(c) /\ bit(c) \in Nat /\ bit(b) \in Nat
      <3>1. bit(c) \in Nat \ {0} /\ bit(b) \in Nat
        BY Twice
      <3> QED BY <1>2, <3>1, DivOne
    <2>2. ~ (c < b) /\ ~ (b < c)
      <3>1. /\ c < b => 2 * bit(c) <= bit(b)
            /\ b < c => 2 * bit(b) <= bit(c)
        BY BitsGrow
      <3> QED BY <2>1, <3>1
    <2> QED BY <2>2
  <1> QED BY <1>1, <1>2 DEF Msb

(* The highest bit is where it says.                                       *)
LEMMA MsbOf ==
  ASSUME NEW v \in 1 .. bit(31) - 1
  PROVE  Msb(v) \in 0 .. 30 /\ bit(Msb(v)) <= v /\ v < 2 * bit(Msb(v))
  <1> DEFINE S == {b \in 0 .. 31 : v < bit(b)}
  <1>1. bit(31) \in Nat /\ bit(0) = 1
    BY Bits, SMT
  <1>2. v \in Nat \ {0}
    BY <1>1
  <1>3. 31 \in S
    BY <1>1
  <1>4. PICK n \in S : \A m \in S : n <= m
    BY <1>3, MinIsIn
  <1> DEFINE b == n - 1
  <1>5. n # 0
    BY <1>1, <1>2
  <1>6. b \in 0 .. 30 /\ b + 1 = n /\ ~ (n <= b) /\ b \in 0 .. 31
    BY <1>5
  <1>7. b \notin S
    BY <1>4, <1>6
  <1>8. bit(n) = 2 * bit(b) /\ bit(b) \in Nat
    BY <1>6, Twice
  <1>9. bit(b) <= v /\ v < 2 * bit(b)
    <2>1. ~ (v < bit(b)) /\ v < bit(n)
      BY <1>6, <1>7
    <2> QED BY <1>2, <1>8, <2>1
  <1> HIDE DEF b
  <1> QED BY <1>2, <1>6, <1>9, MsbIs

-----------------------------------------------------------------------------
(* Size classes.  A size that has a realm is w * bit(e): the exponent e    *)
(* counts from bit(cbFrac) on, w in 16 .. 31 holds the fraction.           *)

(* What rounding gives: w may be 32, where it carries into the exponent.   *)
Rounds(s, e, w) ==
  /\ Rounded(s) = bit(e) * w
  /\ Larger(s, bit(cbFrac)) <= bit(e) * w
  /\ bit(e) * w < Larger(s, bit(cbFrac)) + bit(e)
  /\ bit(e) * 16 <= Larger(s, bit(cbFrac)) /\ Larger(s, bit(cbFrac)) < bit(e) * 32
  /\ e = 26 => w = 16

(* Products with a positive number keep the order, both ways.              *)
LEMMA Monotone ==
  ASSUME NEW g \in Nat \ {0}, NEW x \in Int, NEW y \in Int, g * x < g * y
  PROVE  x < y
  <1> SUFFICES ASSUME y <= x PROVE FALSE
    OBVIOUS
  <1>1. g * y <= g * x
    OBVIOUS
  <1> QED BY <1>1

(* The exponents that occur.                                               *)
LEMMA Exponent ==
  ASSUME NEW e \in 0 .. 26
  PROVE  /\ bit(e) \in Nat \ {0} /\ bit(e + 4) = 16 * bit(e) /\ bit(e + 4) \in Nat
         /\ e < 26 => bit(e + 1) = 2 * bit(e)
         /\ bit(cbFrac) = 16 /\ bit(30) = 16 * bit(26) /\ bit(0) = 1
  <1>1. e + 1 \in 0 .. 31 /\ e + 2 \in 0 .. 31 /\ e + 3 \in 0 .. 31
    OBVIOUS
  <1>2. /\ bit(e + 1) = 2 * bit(e) /\ bit(e) \in Nat \ {0}
        /\ bit(e + 1 + 1) = 2 * bit(e + 1)
        /\ bit(e + 2 + 1) = 2 * bit(e + 2)
        /\ bit(e + 3 + 1) = 2 * bit(e + 3)
    BY <1>1, Twice
  <1>3. e + 1 + 1 = e + 2 /\ e + 2 + 1 = e + 3 /\ e + 3 + 1 = e + 4
    OBVIOUS
  <1>4. bit(cbFrac) = 16 /\ bit(30) = 16 * bit(26) /\ bit(0) = 1
    BY Bits, SMT DEF cbFrac
  <1> QED BY <1>2, <1>3, <1>4

(* Every size is rounded to one that has a realm.                          *)
LEMMA RoundedTo ==
  ASSUME NEW s \in 0 .. bit(30)
  PROVE  \E e \in 0 .. 26, w \in 16 .. 32 :
           Rounds(s, e, w) /\ Msb(Larger(s, bit(cbFrac))) = e + 4
  <1> DEFINE L == Larger(s, bit(cbFrac))
             e == Msb(L) - 4
             g == bit(e)
             w == (L + g - 1) \div g
  <1>1. /\ bit(30) \in Nat /\ bit(cbFrac) = 16 /\ bit(4) = 16 /\ bit(3) = 8 /\ 16 <= bit(30)
        /\ bit(31) = 2 * bit(30)
    BY Bits, SMT DEF cbFrac
  <1>2. L \in 16 .. bit(30)
    BY <1>1 DEF Larger
  <1>3. Msb(L) \in 0 .. 30 /\ bit(Msb(L)) <= L /\ L < 2 * bit(Msb(L))
    <2>1. L \in 1 .. bit(31) - 1
      <3> HIDE DEF L
      <3> QED BY <1>1, <1>2
    <2> HIDE DEF L
    <2> QED BY <2>1, MsbOf
  <1>4. Msb(L) >= 4
    <2> HIDE DEF L
    <2> SUFFICES ASSUME Msb(L) < 4 PROVE FALSE
      BY <1>3
    <2>1. 2 * bit(Msb(L)) <= bit(4) /\ bit(Msb(L)) \in Nat
      BY <1>3, BitsGrow, Twice
    <2> QED BY <1>1, <1>2, <1>3, <2>1
  <1>5. e \in 0 .. 26 /\ Msb(L) = e + 4
    <2> HIDE DEF L
    <2> QED BY <1>3, <1>4
  <1>6. Rounded(s) = align_t(L, g)
    BY DEF Rounded, cbFrac
  <1> HIDE DEF e
  <1>7. g \in Nat \ {0} /\ bit(e + 4) = 16 * g /\ bit(30) = 16 * bit(26)
    BY <1>5, Exponent
  <1>8. align_t(L, g) = g * w
    <2>1. e \in 0 .. 31 /\ L \in Nat
      <3> HIDE DEF L
      <3> QED BY <1>1, <1>2, <1>5
    <2> HIDE DEF L
    <2> QED BY <2>1, AlignBits
  <1>9. align_t(L, g) \in L .. L + g - 1
    <2>1. L \in Nat
      <3> HIDE DEF L
      <3> QED BY <1>1, <1>2
    <2> HIDE DEF L, g, w
    <2> QED BY <1>7, <2>1, AlignBounds
  <1>10. w \in Nat
    <2>1. L + g - 1 \in Nat
      <3> HIDE DEF L, g
      <3> QED BY <1>1, <1>2, <1>7
    <2> HIDE DEF L, g
    <2> QED BY <1>7, <2>1, Parts
  <1>11. 16 * g <= L /\ L < 32 * g
    <2>1. bit(Msb(L)) = 16 * g
      BY <1>5, <1>7
    <2> HIDE DEF L, g
    <2> QED BY <1>2, <1>3, <1>7, <2>1
  <1>12. e = 26 => L = 16 * g
    <2> SUFFICES ASSUME e = 26 PROVE L = 16 * g
      OBVIOUS
    <2>1. bit(30) = 16 * g
      BY <1>7
    <2> HIDE DEF L, g
    <2> QED BY <1>1, <1>2, <1>11, <2>1, <1>7
  <1> HIDE DEF L, g, w
  <1>13. g * w \in L .. L + g - 1 /\ L \in Nat
    BY <1>1, <1>2, <1>8, <1>9
  <1>14. 16 <= w
    <2> SUFFICES ASSUME w <= 15 PROVE FALSE
      BY <1>10
    <2>1. g * w <= g * 15
      BY <1>7, <1>10
    <2> QED BY <1>7, <1>10, <1>11, <1>13, <2>1
  <1>15. w <= 32
    <2> SUFFICES ASSUME w >= 33 PROVE FALSE
      BY <1>10
    <2>1. g * w >= g * 33
      BY <1>7, <1>10
    <2> QED BY <1>7, <1>10, <1>11, <1>13, <2>1
  <1>16. e = 26 => w = 16
    <2> SUFFICES ASSUME e = 26 PROVE w <= 16
      BY <1>10, <1>14
    <2> SUFFICES ASSUME w >= 17 PROVE FALSE
      BY <1>10
    <2>1. g * w >= g * 17
      BY <1>7, <1>10
    <2> QED BY <1>7, <1>10, <1>12, <1>13, <2>1
  <1>17. w \in 16 .. 32
    BY <1>10, <1>14, <1>15
  <1>18. /\ Rounded(s) = bit(e) * w
         /\ L <= bit(e) * w /\ bit(e) * w < L + bit(e)
         /\ bit(e) * 16 <= L /\ L < bit(e) * 32
    <2>1. g * 16 = 16 * g /\ g * 32 = 32 * g
      BY <1>7
    <2>2. L <= g * w /\ g * w < L + g
      BY <1>7, <1>10, <1>13
    <2> QED BY <1>6, <1>8, <1>11, <2>1, <2>2 DEF g
  <1>19. Rounds(s, e, w)
    BY <1>16, <1>18 DEF Rounds, L
  <1>20. Msb(Larger(s, bit(cbFrac))) = e + 4
    BY <1>5 DEF L
  <1> QED BY <1>5, <1>17, <1>19, <1>20

(* Taken apart again: exponent and fraction of a size that has a realm.    *)
LEMMA Exact ==
  ASSUME NEW e \in 0 .. 26, NEW w \in 16 .. 31
  PROVE  Msb(bit(e) * w) = e + 4 /\ (bit(e) * w) \div bit(e) = w /\ w % 16 = w - 16
  <1> DEFINE g == bit(e)
             v == g * w
  <1>1. g \in Nat \ {0} /\ bit(e + 4) = 16 * g
    BY Exponent
  <1> HIDE DEF g
  <1>2. v \in Nat /\ 16 * g <= v /\ v < 32 * g
    BY <1>1
  <1>3. Msb(v) = e + 4
    <2>1. e + 4 \in 0 .. 30 /\ bit(e + 4) <= v /\ v < 2 * bit(e + 4)
      <3> HIDE DEF v
      <3> QED BY <1>1, <1>2
    <2> HIDE DEF v
    <2> QED BY <1>2, <2>1, MsbIs
  <1>4. v \div g = w
    <2>1. v = g * w + 0 /\ 0 \in 0 .. g-1
      BY <1>1
    <2>2. (g * w + 0) \div g = w
      BY <1>1, <2>1, Divided
    <2> QED BY <2>1, <2>2
  <1> QED BY <1>3, <1>4 DEF g

LEMMA RealmExact ==
  ASSUME NEW s, NEW e \in 0 .. 26, NEW w \in 16 .. 31, Rounded(s) = bit(e) * w
  PROVE  Realm(s) = 16 * e + w - 16
  <1>1. Realm(s) = Msb(bit(e) * w) * cnFrac
                   + (((bit(e) * w) \div bit(Msb(bit(e) * w) - cbFrac)) % cnFrac) - cnVoid
    BY DEF Realm
  <1>2. e + 4 - 4 = e /\ (e + 4) * 16 + (w - 16) - 64 = 16 * e + w - 16
    OBVIOUS
  <1> QED BY <1>1, <1>2, Exact DEF cnFrac, cbFrac, cnVoid

(* Tag::Realm of a size from what it is rounded to.                        *)
LEMMA RealmOf ==
  ASSUME NEW s, NEW e \in 0 .. 26, NEW w \in 16 .. 32, e = 26 => w = 16,
         Rounded(s) = bit(e) * w
  PROVE  Realm(s) = 16 * e + w - 16
  <1>1. CASE w # 32
    <2>1. w \in 16 .. 31
      BY <1>1
    <2> QED BY <2>1, RealmExact
  <1>2. CASE w = 32
    <2>1. e + 1 \in 0 .. 26 /\ 16 \in 16 .. 31
      BY <1>2
    <2>2. bit(e) * w = bit(e + 1) * 16
      <3>1. bit(e + 1) = 2 * bit(e) /\ bit(e) \in Nat
        <4>1. e < 26
          BY <2>1
        <4> QED BY <4>1, Exponent
      <3> QED BY <1>2, <3>1
    <2>3. Realm(s) = 16 * (e + 1) + 16 - 16
      BY <2>1, <2>2, RealmExact
    <2> QED BY <1>2, <2>3
  <1> QED BY <1>1, <1>2

LEMMA SizeExact ==
  ASSUME NEW e \in 0 .. 26, NEW w \in 16 .. 31
  PROVE  Size(16 * e + w - 16) = bit(e) * w
  <1> DEFINE r == 16 * e + w - 16
             f == w - 16
  <1>1. r + 64 = 16 * (e + 4) + f /\ e + 4 \in Int /\ f \in 0 .. 15 /\ e + 4 - 4 = e
    OBVIOUS
  <1>2. (16 * (e + 4) + f) \div 16 = e + 4 /\ (16 * (e + 4) + f) % 16 = f
    <2> HIDE DEF f
    <2>1. 16 \in Nat \ {0} /\ e + 4 \in Int /\ f \in 0 .. 16-1
      BY <1>1
    <2> QED BY <2>1, Divided
  <1> HIDE DEF r
  <1>3. Size(r) = bit(e + 4) + f * bit(e)
    <2>1. (r + cnVoid) \div cnFrac = e + 4 /\ (r + cnVoid) % cnFrac = f
      BY <1>1, <1>2 DEF cnVoid, cnFrac
    <2> QED BY <1>1, <2>1 DEF Size, cbFrac
  <1>4. bit(e + 4) = 16 * bit(e) /\ bit(e) \in Nat
    BY Exponent
  <1>5. 16 * bit(e) + f * bit(e) = bit(e) * w
    BY <1>4
  <1> QED BY <1>3, <1>4, <1>5 DEF r

(* Tag::Size of a realm, the fraction full or not.                         *)
LEMMA SizeOf ==
  ASSUME NEW e \in 0 .. 26, NEW w \in 16 .. 32, e = 26 => w = 16
  PROVE  Size(16 * e + w - 16) = bit(e) * w
  <1>1. CASE w # 32
    <2>1. w \in 16 .. 31
      BY <1>1
    <2> QED BY <2>1, SizeExact
  <1>2. CASE w = 32
    <2>1. e + 1 \in 0 .. 26 /\ 16 \in 16 .. 31
      BY <1>2
    <2>2. bit(e) * w = bit(e + 1) * 16
      <3>1. bit(e + 1) = 2 * bit(e) /\ bit(e) \in Nat
        <4>1. e < 26
          BY <2>1
        <4> QED BY <4>1, Exponent
      <3> QED BY <1>2, <3>1
    <2>3. Size(16 * (e + 1) + 16 - 16) = bit(e + 1) * 16
      BY <2>1, SizeExact
    <2>4. 16 * (e + 1) + 16 - 16 = 16 * e + w - 16
      BY <1>2
    <2> QED BY <2>2, <2>3, <2>4
  <1> QED BY <1>1, <1>2

(* What is known of the realm of a size, in one place.                     *)
LEMMA RealmIs ==
  ASSUME NEW s \in 0 .. bit(30)
  PROVE  \E e \in 0 .. 26, w \in 16 .. 32 :
           /\ Rounds(s, e, w) /\ Msb(Larger(s, bit(cbFrac))) = e + 4
           /\ Realm(s) = 16 * e + w - 16 /\ Size(Realm(s)) = bit(e) * w
  <1>1. PICK e \in 0 .. 26, w \in 16 .. 32 :
          Rounds(s, e, w) /\ Msb(Larger(s, bit(cbFrac))) = e + 4
    BY RoundedTo
  <1>2. Rounded(s) = bit(e) * w /\ (e = 26 => w = 16)
    BY <1>1 DEF Rounds
  <1>3. Realm(s) = 16 * e + w - 16
    BY <1>2, RealmOf
  <1>4. Size(16 * e + w - 16) = bit(e) * w
    BY <1>2, SizeOf
  <1> QED BY <1>1, <1>3, <1>4

(* A size that has a realm is not rounded any further.                     *)
LEMMA RoundedExact ==
  ASSUME NEW e \in 0 .. 26, NEW w \in 16 .. 31, e = 26 => w = 16
  PROVE  Rounded(bit(e) * w) = bit(e) * w
  <1> DEFINE g == bit(e)
             s == g * w
  <1>1. g \in Nat \ {0} /\ bit(cbFrac) = 16 /\ bit(30) = 16 * bit(26) /\ bit(30) \in Nat
    <2>1. bit(30) \in Nat
      BY Twice
    <2> QED BY <2>1, Exponent
  <1>2. Msb(s) = e + 4
    BY Exact
  <1>3. Msb(s) - cbFrac = e
    BY <1>2 DEF cbFrac
  <1> HIDE DEF g
  <1>4. s \in Nat /\ s >= 16
    BY <1>1
  <1>5. Larger(s, bit(cbFrac)) = s
    BY <1>1, <1>4 DEF Larger
  <1>6. Rounded(s) = align_t(s, bit(e))
    <2> HIDE DEF s
    <2>1. Rounded(s) = align_t(Larger(s, bit(cbFrac)), bit(Msb(Larger(s, bit(cbFrac))) - cbFrac))
      BY DEF Rounded
    <2> QED BY <1>3, <1>5, <2>1
  <1>7. align_t(s, bit(e)) = g * ((s + g - 1) \div g)
    <2>1. e \in 0 .. 31
      OBVIOUS
    <2> HIDE DEF s
    <2> QED BY <1>4, <2>1, AlignBits DEF g
  <1>8. (s + g - 1) \div g = w
    <2> DEFINE f == g - 1
    <2>1. s + g - 1 = g * w + f /\ f \in 0 .. g-1 /\ w \in Int
      BY <1>1
    <2> HIDE DEF f, s
    <2>2. (g * w + f) \div g = w
      BY <1>1, <2>1, Divided
    <2> QED BY <2>1, <2>2
  <1> QED BY <1>6, <1>7, <1>8 DEF g

(* The realm of the size of a realm is that realm.                         *)
LEMMA RealmOfSize ==
  ASSUME NEW e \in 0 .. 26, NEW w \in 16 .. 32, e = 26 => w = 16
  PROVE  Realm(bit(e) * w) = 16 * e + w - 16
  <1>1. CASE w # 32
    <2>1. w \in 16 .. 31
      BY <1>1
    <2>2. Rounded(bit(e) * w) = bit(e) * w
      BY <2>1, RoundedExact
    <2> QED BY <2>2, RealmOf
  <1>2. CASE w = 32
    <2>1. e + 1 \in 0 .. 26 /\ 16 \in 16 .. 31
      BY <1>2
    <2>2. bit(e) * w = bit(e + 1) * 16
      <3>1. bit(e + 1) = 2 * bit(e) /\ bit(e) \in Nat
        <4>1. e < 26
          BY <2>1
        <4> QED BY <4>1, Exponent
      <3> QED BY <1>2, <3>1
    <2>3. Rounded(bit(e + 1) * 16) = bit(e + 1) * 16
      BY <2>1, RoundedExact
    <2> QED BY <2>2, <2>3, RealmOf
  <1> QED BY <1>1, <1>2

(* The size of the realm below.                                            *)
LEMMA SizeBelow ==
  ASSUME NEW e \in 0 .. 26, NEW w \in 16 .. 32, 16 * e + w - 16 > 0
  PROVE  \/ w > 16 /\ Size(16 * e + w - 16 - 1) = bit(e) * (w - 1)
         \/ w = 16 /\ e > 0 /\ Size(16 * e + w - 16 - 1) \in 0 .. bit(e) * 16 - 1
  <1>1. CASE w > 16
    <2> DEFINE x == w - 1
    <2>1. x \in 16 .. 31 /\ 16 * e + w - 16 - 1 = 16 * e + x - 16
      BY <1>1
    <2> HIDE DEF x
    <2>2. Size(16 * e + x - 16) = bit(e) * x
      BY <2>1, SizeExact
    <2> QED BY <1>1, <2>1, <2>2 DEF x
  <1>2. CASE w = 16
    <2> DEFINE d == e - 1
    <2>1. d \in 0 .. 26 /\ 31 \in 16 .. 31 /\ 16 * e + w - 16 - 1 = 16 * d + 31 - 16
          /\ d + 1 = e /\ d < 26 /\ e > 0
      BY <1>2
    <2> HIDE DEF d
    <2>2. Size(16 * d + 31 - 16) = bit(d) * 31
      BY <2>1, SizeExact
    <2>3. bit(e) = 2 * bit(d) /\ bit(d) \in Nat \ {0}
      BY <2>1, Exponent
    <2> QED BY <1>2, <2>1, <2>2, <2>3
  <1> QED BY <1>1, <1>2

(* Tag::Realm gives the smallest realm that is large enough.               *)
LEMMA RealmLeast ==
  ASSUME NEW s \in 0 .. bit(30)
  PROVE  Least(s) /\ Size(Realm(s)) \in Nat /\ s <= Size(Realm(s))
  <1> DEFINE L == Larger(s, bit(cbFrac))
             r == Realm(s)
  <1>1. PICK e \in 0 .. 26, w \in 16 .. 32 :
          /\ Rounds(s, e, w)
          /\ r = 16 * e + w - 16 /\ Size(r) = bit(e) * w
    BY RealmIs
  <1>2. /\ L <= bit(e) * w /\ bit(e) * w < L + bit(e) /\ bit(e) * 16 <= L
        /\ e = 26 => w = 16
    BY <1>1 DEF Rounds
  <1>3. bit(e) \in Nat \ {0} /\ bit(cbFrac) = 16 /\ bit(0) = 1 /\ bit(30) \in Nat
    <2>1. bit(30) \in Nat
      BY Twice
    <2> QED BY <2>1, Exponent
  <1>4. s \in Nat
    BY <1>3
  <1>5. L \in Nat /\ L >= 16 /\ s <= L /\ (L # 16 => L = s)
    BY <1>3, <1>4 DEF Larger
  <1> HIDE DEF L
  <1>6. bit(e) * w \in Nat
    BY <1>3
  <1>7. r \in 0 .. cnRealm - 1
    <2> HIDE DEF r
    <2> QED BY <1>1 DEF cnRealm
  <1>8. s <= Size(r) /\ Size(r) \in Nat
    BY <1>1, <1>2, <1>4, <1>5, <1>6
  <1>9. Realm(Size(r)) = r
    BY <1>1, <1>2, RealmOfSize
  <1>10. ASSUME r > 0 PROVE Size(r - 1) < s
    <2>1. 16 * e + w - 16 > 0
      BY <1>1, <1>10
    <2>2. r - 1 = 16 * e + w - 16 - 1
      BY <1>1
    <2>3. \/ w > 16 /\ Size(r - 1) = bit(e) * (w - 1)
          \/ w = 16 /\ e > 0 /\ Size(r - 1) \in 0 .. bit(e) * 16 - 1
      BY <2>1, <2>2, SizeBelow
    <2> DEFINE z == Size(r - 1)
    <2> HIDE DEF r, z
    <2>4. CASE w > 16
      <3>1. z = bit(e) * (w - 1)
        BY <2>3, <2>4 DEF z
      <3>2. bit(e) * (w - 1) = bit(e) * w - bit(e)
        BY <1>3
      <3>3. z < L
        BY <1>2, <1>3, <1>5, <1>6, <3>1, <3>2
      <3>4. z >= 16 \/ L # 16
        <4>1. z >= 16
          BY <1>3, <2>4, <3>1
        <4> QED BY <4>1
      <3>5. z \in Int
        BY <1>3, <3>1
      <3> QED BY <1>4, <1>5, <3>3, <3>4, <3>5 DEF z
    <2>5. CASE w = 16
      <3>1. e > 0 /\ z \in 0 .. bit(e) * 16 - 1
        BY <2>3, <2>5 DEF z
      <3>2. bit(e) >= 2
        <4> DEFINE d == e - 1
        <4>1. d \in 0 .. 26 /\ d + 1 = e /\ d < 26
          BY <3>1
        <4> HIDE DEF d
        <4>2. bit(e) = 2 * bit(d) /\ bit(d) \in Nat \ {0}
          BY <4>1, Exponent
        <4> QED BY <4>2
      <3>3. bit(e) * 16 > 16
        BY <1>3, <3>2
      <3>4. L # 16
        BY <1>2, <1>3, <1>5, <3>3
      <3>5. bit(e) * 16 <= s
        BY <1>2, <1>5, <3>4
      <3>6. z < s
        <4>1. bit(e) * 16 \in Nat
          BY <1>3
        <4> QED BY <1>4, <3>1, <3>5, <4>1
      <3> QED BY <3>6 DEF z
    <2> QED BY <2>4, <2>5
  <1>11. Least(s)
    BY <1>7, <1>8, <1>9, <1>10 DEF Least
  <1> QED BY <1>8, <1>11

-----------------------------------------------------------------------------
(* What a local allocator takes and gives, for every request.              *)

(* No block is larger: 3 * size of calloc, sHeader + a + s of pvalloc.     *)
Limit == 3 * Largest + 3 * SystemPageSize

(* What the assumptions say of the constants.                              *)
LEMMA Constants ==
  /\ Largest \in Nat /\ Largest <= bit(27)
  /\ Request \subseteq 0 .. Largest /\ Alignment \subseteq 1 .. Largest
  /\ sAny \in 0 .. Largest /\ sPool \in 0 .. Largest /\ sCram \in 0 .. Largest
  /\ Page \in Nat /\ MaxHeld \in Nat \ {0}
  /\ Limit \in Nat /\ Limit = 3 * Largest + 12288
  BY InterfaceAssumption, Bits, SMT DEF Limit, SystemPageSize

(* A parcel has room for its header, and less than a line more.            *)
LEMMA ParcelSize ==
  ASSUME NEW s \in Nat
  PROVE  SizeofS(s) \in s + 8 .. s + 23 /\ FirstData(s) \in s + 8 .. s + 23
  <1>1. 8 + s \in Nat /\ s + 8 \in Nat /\ 16 \in Nat \ {0}
    OBVIOUS
  <1>2. align_t(8 + s, 16) \in 8 + s .. 8 + s + 16 - 1
    BY <1>1, AlignBounds
  <1>3. align_t(s + 8, 16) \in s + 8 .. s + 8 + 16 - 1
    BY <1>1, AlignBounds
  <1> QED BY <1>2, <1>3 DEF SizeofS, FirstData, sParcel, csAlign

(* What RightClass says of one block.                                      *)
Right(s) ==
  /\ Least(Budget(s)) /\ Extent(s) <= Size(Realm(Budget(s)))
  /\ s <= ClassSize(s) /\ ClassSize(s) <= Room(s)
  /\ Kind(s) = "pool" => Pool(s) < cnPool /\ ClassSize(s) < s + csSizeT + (IF s = 0 THEN 1 ELSE 0)
  /\ Kind(s) = "cram" => Least(s) /\ Realm(s) - Realm(bit(Cram(s))) \in 0 .. cnFrac

(* The rest of Right once the budget is bounded and holds the parcels.     *)
LEMMA BudgetRight ==
  ASSUME NEW b \in 0 .. bit(30), NEW x \in Int, x <= b
  PROVE  Least(b) /\ x <= Size(Realm(b)) /\ Size(Realm(b)) \in Nat /\ b <= Size(Realm(b))
  <1>1. Least(b) /\ Size(Realm(b)) \in Nat /\ b <= Size(Realm(b))
    BY RealmLeast
  <1>2. bit(30) \in Nat
    BY Twice
  <1> QED BY <1>1, <1>2

(* Which pool, and how large its parcels are.                              *)
LEMMA PoolOf ==
  ASSUME NEW s \in 0 .. 1024
  PROVE  /\ Pool(s) \in 0 .. 127 /\ PoolSize(Pool(s)) \in 0 .. 1024
         /\ s <= PoolSize(Pool(s))
         /\ PoolSize(Pool(s)) < s + 8 + (IF s = 0 THEN 1 ELSE 0)
  <1> DEFINE d == IF s = 0 THEN 0 ELSE s - 1
             o == d \div 8
  <1>1. d \in 0 .. 1023 /\ s <= d + 1 /\ d + 8 < s + 8 + (IF s = 0 THEN 1 ELSE 0)
    OBVIOUS
  <1>2. Pool(s) = o
    BY DEF Pool, csSizeT
  <1> HIDE DEF d
  <1>3. d = 8 * o + (d % 8) /\ o \in Int /\ d % 8 \in 0 .. 7
    BY <1>1
  <1>4. PoolSize(o) = (o + 1) * 8
    BY DEF PoolSize, csSizeT
  <1> HIDE DEF o
  <1>5. o \in 0 .. 127 /\ s <= (o + 1) * 8 /\ (o + 1) * 8 <= d + 8
    BY <1>1, <1>3
  <1> QED BY <1>1, <1>2, <1>4, <1>5

LEMMA PoolRight ==
  ASSUME NEW s \in 0 .. Limit, Kind(s) = "pool"
  PROVE  Right(s) /\ Room(s) \in Int /\ ClassSize(s) \in Nat
  <1>1. s \in 0 .. 1024
    <2>1. s <= 1024
      BY DEF Kind, csPool
    <2> QED BY <2>1, Constants
  <1>2. /\ Pool(s) \in 0 .. 127 /\ PoolSize(Pool(s)) \in 0 .. 1024
        /\ s <= PoolSize(Pool(s))
        /\ PoolSize(Pool(s)) < s + 8 + (IF s = 0 THEN 1 ELSE 0)
    BY <1>1, PoolOf
  <1> DEFINE o == Pool(s)
             p == PoolSize(o)
             z == SizeofS(p)
             b == PoolBudget(o)
  <1>3. o \in 0 .. 127 /\ p \in 0 .. 1024 /\ s <= p /\ p < s + 8 + (IF s = 0 THEN 1 ELSE 0)
    BY <1>2
  <1>4. /\ Budget(s) = b /\ Extent(s) = PoolExtent(o)
        /\ ClassSize(s) = p /\ Room(s) = z - sParcel
    BY DEF Budget, Extent, ClassSize, Room, ByKind
  <1>5. b = sPool + 16 + z * 256
    BY DEF PoolBudget, csAlign, cnPoolParcel
  <1>6. PoolExtent(o) = FirstData(sPool) + 255 * z + p
    <2>1. PoolExtent(o) = FirstData(sPool) + (256 - 1) * z + p
      BY DEF PoolExtent, cnPoolParcel
    <2>2. 256 - 1 = 255
      OBVIOUS
    <2> QED BY <2>1, <2>2
  <1> HIDE DEF o, p, b
  <1>7. z \in p + 8 .. p + 23
    <2>1. p \in Nat
      BY <1>3
    <2> QED BY <2>1, ParcelSize
  <1>8. FirstData(sPool) \in sPool + 8 .. sPool + 23 /\ sPool \in Nat
    <2>1. sPool \in Nat
      BY Constants
    <2> QED BY <2>1, ParcelSize
  <1> HIDE DEF z
  <1>9. b \in 0 .. bit(30)
    <2>1. sPool <= bit(27) /\ bit(27) + bit(19) < bit(30) /\ bit(19) > 300 * 1024 /\ bit(19) \in Nat /\ bit(27) \in Nat /\ bit(30) \in Nat
      BY Constants, Bits, SMT
    <2> QED BY <1>3, <1>5, <1>7, <1>8, <2>1
  <1>10. PoolExtent(o) \in Int /\ PoolExtent(o) <= b
    BY <1>3, <1>5, <1>6, <1>7, <1>8
  <1>11. Least(b) /\ PoolExtent(o) <= Size(Realm(b))
    BY <1>9, <1>10, BudgetRight
  <1>12. p <= z - sParcel /\ z - sParcel \in Int
    BY <1>3, <1>7 DEF sParcel
  <1>13. Pool(s) < cnPool
    BY <1>3 DEF o, cnPool
  <1>14. Kind(s) # "cram"
    OBVIOUS
  <1>15. ClassSize(s) < s + csSizeT + (IF s = 0 THEN 1 ELSE 0)
    BY <1>3, <1>4 DEF csSizeT
  <1>16. s <= ClassSize(s) /\ ClassSize(s) <= Room(s) /\ Room(s) \in Int /\ ClassSize(s) \in Nat
    BY <1>3, <1>4, <1>12
  <1> QED BY <1>4, <1>11, <1>13, <1>14, <1>15, <1>16 DEF Right

(* The cram's realms lie in its bit, the last one carried.                 *)
LEMMA CramOf ==
  ASSUME NEW s \in 1025 .. bit(20)
  PROVE  /\ Cram(s) \in 0 .. 20
         /\ Realm(s) - Realm(bit(Cram(s))) \in 0 .. 16
  <1>1. s \in 0 .. bit(30) /\ s \in Nat /\ bit(cbFrac) = 16 /\ bit(30) \in Nat
        /\ bit(20) \in Nat
    BY Bits, SMT DEF cbFrac
  <1>2. Larger(s, bit(cbFrac)) = s
    BY <1>1 DEF Larger
  <1>3. PICK e \in 0 .. 26, w \in 16 .. 32 : Msb(s) = e + 4 /\ Realm(s) = 16 * e + w - 16 /\ Rounds(s, e, w)
    BY <1>1, <1>2, RealmIs
  <1>4. bit(e) * 16 <= s /\ s < bit(e) * 32 /\ bit(e + 4) = 16 * bit(e) /\ bit(e) \in Nat \ {0}
    BY <1>2, <1>3, Exponent DEF Rounds
  <1>5. e + 4 <= 20
    <2> SUFFICES ASSUME e + 4 > 20 PROVE FALSE
      OBVIOUS
    <2>1. 2 * bit(20) <= bit(e + 4)
      <3>1. e + 4 \in 0 .. 32 /\ 20 \in 0 .. 32 /\ 20 < e + 4
        OBVIOUS
      <3> QED BY <3>1, BitsGrow
    <2> QED BY <1>1, <1>4, <2>1
  <1>6. Realm(bit(e) * 16) = 16 * e
    <2>1. Realm(bit(e) * 16) = 16 * e + 16 - 16
      BY RealmOfSize
    <2> QED BY <2>1
  <1>7. Cram(s) = e + 4 /\ bit(Cram(s)) = bit(e) * 16
    BY <1>3, <1>4 DEF Cram
  <1> QED BY <1>3, <1>5, <1>6, <1>7

LEMMA CramRight ==
  ASSUME NEW s \in 0 .. Limit, Kind(s) = "cram"
  PROVE  Right(s) /\ Room(s) \in Int /\ ClassSize(s) \in Nat
  <1> DEFINE c == Cram(s)
             b == CramBudget(c)
  <1>1. s \in 1025 .. bit(20)
    <2>1. ~ (s <= 1024) /\ s <= csCram
      BY DEF Kind, csPool
    <2>2. csCram = bit(20) /\ bit(20) \in Nat
      BY Bits, SMT DEF csCram
    <2> QED BY <2>1, <2>2, Constants
  <1>2. c \in 0 .. 20 /\ Realm(s) - Realm(bit(c)) \in 0 .. 16
    BY <1>1, CramOf
  <1>3. /\ Budget(s) = b /\ Extent(s) = CramExtent(c)
        /\ ClassSize(s) = Size(Realm(s)) /\ Room(s) = Size(Realm(s))
    BY DEF Budget, Extent, ClassSize, Room, ByKind, CramSize
  <1>4. b = sCram + bit(c) * 32 /\ CramExtent(c) = b
    BY DEF CramBudget, CramExtent, cnCramParcel
  <1>5. s \in 0 .. bit(30)
    BY <1>1, Bits, SMT
  <1>6. Least(s) /\ s <= Size(Realm(s)) /\ Size(Realm(s)) \in Nat
    BY <1>5, RealmLeast
  <1> HIDE DEF b, c
  <1>7. b \in 0 .. bit(30)
    <2>1. bit(c) <= bit(20) /\ bit(c) \in Nat
      <3>1. c = 20 \/ c < 20
        BY <1>2
      <3>2. bit(c) \in Nat /\ bit(20) \in Nat /\ (c < 20 => 2 * bit(c) <= bit(20))
        BY <1>2, BitsGrow, Twice
      <3> QED BY <3>1, <3>2
    <2>2. sCram <= bit(27) /\ bit(27) + 32 * bit(20) < bit(30) /\ bit(27) \in Nat /\ bit(30) \in Nat
          /\ bit(20) \in Nat /\ sCram \in Nat
      BY Constants, Bits, SMT
    <2> QED BY <1>4, <2>1, <2>2
  <1>8. b \in Int /\ b <= b
    <2>1. bit(30) \in Nat
      BY Twice
    <2> QED BY <1>7, <2>1
  <1>9. Least(b) /\ b <= Size(Realm(b))
    BY <1>7, <1>8, BudgetRight
  <1>10. Realm(s) - Realm(bit(Cram(s))) \in 0 .. cnFrac
    BY <1>2 DEF c, cnFrac
  <1>11. Kind(s) # "pool"
    OBVIOUS
  <1>12. s <= ClassSize(s) /\ ClassSize(s) <= Room(s) /\ Room(s) \in Int /\ ClassSize(s) \in Nat
    BY <1>3, <1>6
  <1>13. Extent(s) = b
    BY <1>3, <1>4
  <1> QED BY <1>3, <1>6, <1>9, <1>10, <1>11, <1>12, <1>13 DEF Right

LEMMA AnyRight ==
  ASSUME NEW s \in 0 .. Limit, Kind(s) = "any"
  PROVE  Right(s) /\ Room(s) \in Int /\ ClassSize(s) \in Nat
  <1> DEFINE b == AnyBudget(s)
             x == AnyExtent(s)
             f == FirstData(sAny)
  <1>1. s \in Nat /\ sAny \in Nat
    BY Constants
  <1>2. /\ Budget(s) = b /\ Extent(s) = x
        /\ ClassSize(s) = s /\ Room(s) = Size(Realm(b)) - f
    BY DEF Budget, Extent, ClassSize, Room, ByKind
  <1>3. b = sAny + 16 + SizeofS(s) /\ x = f + s
    BY DEF AnyBudget, AnyExtent, csAlign
  <1>4. SizeofS(s) \in s + 8 .. s + 23 /\ f \in sAny + 8 .. sAny + 23
    BY <1>1, ParcelSize
  <1> HIDE DEF b, x, f
  <1>5. b \in 0 .. bit(30)
    <2>1. sAny <= bit(27) /\ s <= Limit /\ Limit <= 3 * bit(27) + 12288 /\ 4 * bit(27) + 13000 < bit(30)
          /\ bit(27) \in Nat /\ bit(30) \in Nat /\ Limit \in Nat
      BY Constants, Bits, SMT
    <2> QED BY <1>1, <1>3, <1>4, <2>1
  <1>6. x \in Int /\ x <= b
    BY <1>1, <1>3, <1>4
  <1>7. Least(b) /\ x <= Size(Realm(b)) /\ Size(Realm(b)) \in Nat
    BY <1>5, <1>6, BudgetRight
  <1>8. Kind(s) # "pool" /\ Kind(s) # "cram"
    OBVIOUS
  <1>9. s <= Size(Realm(b)) - f /\ Size(Realm(b)) - f \in Int
    BY <1>1, <1>3, <1>4, <1>7
  <1> QED BY <1>1, <1>2, <1>7, <1>8, <1>9 DEF Right

(* Every request up to the limit is served as RightClass says.             *)
LEMMA SizeRight ==
  ASSUME NEW s \in 0 .. Limit
  PROVE  Right(s) /\ Room(s) \in Int /\ ClassSize(s) \in Nat
  <1>1. Kind(s) = "pool" \/ Kind(s) = "cram" \/ Kind(s) = "any"
    BY DEF Kind
  <1> QED BY <1>1, PoolRight, CramRight, AnyRight

-----------------------------------------------------------------------------
(* The inductive invariant.  It is about a state given by its parts, so    *)
(* that ReAlloc can be seen as a block taken, then one given back.         *)

Rel(p, r) == IF p \in DOMAIN r THEN r[p].mp ELSE p

(* The application's memory starts at the block's.                         *)
Plain(h, s) == h.s \in 0 .. s /\ h.by # "Align"

(* It lies behind the headers inside the block, ms bytes of it at least.   *)
Inside(p, h, r, s) ==
  /\ r.mp \in Nat /\ r.ms \in Nat
  /\ r.mp + sHeader <= p /\ p + r.ms <= r.mp + s
  /\ h.s \in 0 .. r.ms
  /\ h.by = "Align" /\ IsPowerOf2(h.a) => p % h.a = 0

Good(p, b, r, h) ==
  /\ p \in Nat /\ Rel(p, r) \div Page = p \div Page
  /\ p \notin DOMAIN r => Plain(h[p], b[p])
  /\ p \in DOMAIN r => Inside(p, h[p], r[p], b[r[p].mp])

(* Every block is held at one address, in a page of its own.               *)
Consistent(b, r, h) ==
  /\ DOMAIN r \subseteq DOMAIN h
  /\ DOMAIN b = {Rel(p, r) : p \in DOMAIN h}
  /\ \A m \in DOMAIN b : m \in Nat /\ b[m] \in 0 .. Limit
  /\ \A p \in DOMAIN h : Good(p, b, r, h)
  /\ \A p, q \in DOMAIN h : p \div Page = q \div Page => p = q

Counted(h) == IsFiniteSet(DOMAIN h) /\ Cardinality(DOMAIN h) <= MaxHeld

InterfaceInv == Consistent(block, relay, held) /\ Counted(held) /\ ReAllocKeeps

(* Blocks of different addresses are different blocks.                     *)
LEMMA RelOnce ==
  ASSUME NEW b, NEW r, NEW h, Consistent(b, r, h),
         NEW p \in DOMAIN h, NEW q \in DOMAIN h, Rel(p, r) = Rel(q, r)
  PROVE  p = q
  <1>1. Rel(p, r) \div Page = p \div Page /\ Rel(q, r) \div Page = q \div Page
    BY DEF Consistent, Good
  <1> QED BY <1>1 DEF Consistent

(* A block taken in a page of its own, held at y in the same page.         *)
LEMMA Taken ==
  ASSUME NEW b, NEW r, NEW h, Consistent(b, r, h),
         NEW m \in Nat, NEW y \in Nat, NEW s \in 0 .. Limit, NEW ask, NEW r2,
         m \div Page = y \div Page,
         \A q \in DOMAIN h : q \div Page # y \div Page,
         DOMAIN r \subseteq DOMAIN r2, DOMAIN r2 \subseteq DOMAIN r \cup {y},
         \A q \in DOMAIN r : r2[q] = r[q],
         Rel(y, r2) = m,
         y \notin DOMAIN r2 => Plain(ask, s),
         y \in DOMAIN r2 => Inside(y, ask, r2[y], s)
  PROVE  Consistent(With(b, m, s), r2, With(h, y, ask))
  <1> DEFINE b2 == With(b, m, s)
             h2 == With(h, y, ask)
  <1>1. /\ DOMAIN b2 = DOMAIN b \cup {m} /\ b2[m] = s
        /\ \A z \in DOMAIN b : z # m => b2[z] = b[z]
    BY DEF With
  <1>2. /\ DOMAIN h2 = DOMAIN h \cup {y} /\ h2[y] = ask
        /\ \A z \in DOMAIN h : z # y => h2[z] = h[z]
    BY DEF With
  <1> HIDE DEF b2, h2
  <1>3. y \notin DOMAIN h /\ DOMAIN r \subseteq DOMAIN h
    BY DEF Consistent
  <1>4. \A q \in DOMAIN h : Rel(q, r2) = Rel(q, r)
    BY <1>3 DEF Rel
  <1>5. \A q \in DOMAIN h : Rel(q, r) # m
    <2> TAKE q \in DOMAIN h
    <2>1. Rel(q, r) \div Page = q \div Page
      BY DEF Consistent, Good
    <2> QED BY <2>1
  <1>6. DOMAIN r2 \subseteq DOMAIN h2
    BY <1>2, <1>3
  <1>7. DOMAIN b2 = {Rel(p, r2) : p \in DOMAIN h2}
    <2>1. DOMAIN b = {Rel(p, r) : p \in DOMAIN h}
      BY DEF Consistent
    <2>2. {Rel(p, r2) : p \in DOMAIN h2} = {Rel(p, r2) : p \in DOMAIN h} \cup {m}
      BY <1>2
    <2>3. {Rel(p, r2) : p \in DOMAIN h} = {Rel(p, r) : p \in DOMAIN h}
      BY <1>4
    <2> QED BY <1>1, <2>1, <2>2, <2>3
  <1>8. \A z \in DOMAIN b2 : z \in Nat /\ b2[z] \in 0 .. Limit
    BY <1>1 DEF Consistent
  <1>9. ASSUME NEW p \in DOMAIN h2 PROVE Good(p, b2, r2, h2)
    <2>1. CASE p = y
      <3>1. y \in DOMAIN r2 => r2[y].mp = m
        BY DEF Rel
      <3>2. y \notin DOMAIN r2 => y = m
        BY DEF Rel
      <3> QED BY <1>1, <1>2, <2>1, <3>1, <3>2 DEF Good
    <2>2. CASE p # y
      <3>1. p \in DOMAIN h /\ h2[p] = h[p] /\ (p \in DOMAIN r2 <=> p \in DOMAIN r)
        BY <1>2, <2>2
      <3>2. Good(p, b, r, h) /\ Rel(p, r2) = Rel(p, r) /\ Rel(p, r) # m /\ Rel(p, r) \in DOMAIN b
        BY <1>4, <1>5, <3>1 DEF Consistent
      <3>3. b2[Rel(p, r)] = b[Rel(p, r)]
        BY <1>1, <3>2
      <3>4. CASE p \in DOMAIN r
        <4>1. Rel(p, r) = r[p].mp /\ r2[p] = r[p]
          BY <3>4 DEF Rel
        <4> QED BY <3>1, <3>2, <3>3, <3>4, <4>1 DEF Good
      <3>5. CASE p \notin DOMAIN r
        <4>1. Rel(p, r) = p
          BY <3>5 DEF Rel
        <4> QED BY <3>1, <3>2, <3>3, <3>5, <4>1 DEF Good
      <3> QED BY <3>4, <3>5
    <2> QED BY <2>1, <2>2
  <1>10. ASSUME NEW p \in DOMAIN h2, NEW q \in DOMAIN h2, p \div Page = q \div Page PROVE p = q
    <2>1. CASE p = y
      BY <1>2, <1>10, <2>1
    <2>2. CASE q = y
      BY <1>2, <1>10, <2>2
    <2>3. CASE p # y /\ q # y
      BY <1>2, <1>10, <2>3 DEF Consistent
    <2> QED BY <2>1, <2>2, <2>3
  <1>11. Consistent(b2, r2, h2)
    BY <1>6, <1>7, <1>8, <1>9, <1>10 DEF Consistent
  <1> QED BY <1>11 DEF b2, h2

(* The block of p given back.                                              *)
LEMMA Given ==
  ASSUME NEW b, NEW r, NEW h, Consistent(b, r, h), NEW p \in DOMAIN h
  PROVE  Consistent(Without(b, Rel(p, r)), Without(r, p), Without(h, p))
  <1> DEFINE m == Rel(p, r)
             b2 == Without(b, m)
             r2 == Without(r, p)
             h2 == Without(h, p)
  <1>1. DOMAIN b2 = DOMAIN b \ {m} /\ \A z \in DOMAIN b : z # m => b2[z] = b[z]
    BY DEF Without
  <1>2. DOMAIN h2 = DOMAIN h \ {p} /\ \A z \in DOMAIN h : z # p => h2[z] = h[z]
    BY DEF Without
  <1>3. DOMAIN r2 = DOMAIN r \ {p} /\ \A z \in DOMAIN r : z # p => r2[z] = r[z]
    BY DEF Without
  <1> HIDE DEF b2, r2, h2
  <1>4. \A q \in DOMAIN h2 : Rel(q, r2) = Rel(q, r) /\ Rel(q, r) # m
    <2> TAKE q \in DOMAIN h2
    <2>1. q \in DOMAIN h /\ q # p
      BY <1>2
    <2>2. Rel(q, r2) = Rel(q, r)
      BY <1>3, <2>1 DEF Rel
    <2>3. Rel(q, r) # m
      BY <2>1, RelOnce
    <2> QED BY <2>2, <2>3
  <1> HIDE DEF m
  <1>5. DOMAIN r2 \subseteq DOMAIN h2
    BY <1>2, <1>3 DEF Consistent
  <1>6. DOMAIN b2 = {Rel(q, r2) : q \in DOMAIN h2}
    <2>1. DOMAIN b = {Rel(q, r) : q \in DOMAIN h}
      BY DEF Consistent
    <2>2. {Rel(q, r2) : q \in DOMAIN h2} = {Rel(q, r) : q \in DOMAIN h2}
      BY <1>4
    <2>3. {Rel(q, r) : q \in DOMAIN h2} = {Rel(q, r) : q \in DOMAIN h} \ {m}
      BY <1>2, <1>4 DEF m
    <2> QED BY <1>1, <2>1, <2>2, <2>3
  <1>7. \A z \in DOMAIN b2 : z \in Nat /\ b2[z] \in 0 .. Limit
    BY <1>1 DEF Consistent
  <1>8. ASSUME NEW q \in DOMAIN h2 PROVE Good(q, b2, r2, h2)
    <2>1. q \in DOMAIN h /\ h2[q] = h[q] /\ (q \in DOMAIN r2 <=> q \in DOMAIN r)
      BY <1>2, <1>3
    <2>2. Good(q, b, r, h) /\ Rel(q, r2) = Rel(q, r) /\ Rel(q, r) # m /\ Rel(q, r) \in DOMAIN b
      BY <1>4, <2>1 DEF Consistent
    <2>3. b2[Rel(q, r)] = b[Rel(q, r)]
      BY <1>1, <2>2
    <2>4. CASE q \in DOMAIN r
      <3>1. Rel(q, r) = r[q].mp /\ r2[q] = r[q]
        BY <1>2, <1>3, <2>4 DEF Rel
      <3> QED BY <2>1, <2>2, <2>3, <2>4, <3>1 DEF Good
    <2>5. CASE q \notin DOMAIN r
      <3>1. Rel(q, r) = q
        BY <2>5 DEF Rel
      <3> QED BY <2>1, <2>2, <2>3, <2>5, <3>1 DEF Good
    <2> QED BY <2>4, <2>5
  <1>9. \A q, z \in DOMAIN h2 : q \div Page = z \div Page => q = z
    BY <1>2 DEF Consistent
  <1>10. Consistent(b2, r2, h2)
    BY <1>5, <1>6, <1>7, <1>8, <1>9 DEF Consistent
  <1> QED BY <1>10 DEF b2, r2, h2, m

-----------------------------------------------------------------------------
(* What LocalCntx::Alloc returns: memory in a page nobody has.             *)

(* Page k is the page of p, and of Limit bytes from there on.              *)
InPage(p, k) == p \in Nat /\ k \in Nat /\ \A y \in p .. p + Limit - 1 : y \div Page = k

(* With no more blocks than MaxHeld one of the pages is free.              *)
LEMMA FreePage ==
  ASSUME Consistent(block, relay, held), Counted(held)
  PROVE  \E k \in 1 .. MaxHeld + 1 : \A m \in DOMAIN block : m \div Page # k
  <1> DEFINE S == 1 .. MaxHeld + 1
             T == DOMAIN held
  <1> SUFFICES ASSUME \A k \in S : \E m \in DOMAIN block : m \div Page = k
               PROVE  FALSE
    OBVIOUS
  <1>1. \A k \in S : \E q \in T : q \div Page = k
    <2> TAKE k \in S
    <2>1. PICK m \in DOMAIN block : m \div Page = k
      OBVIOUS
    <2>2. PICK q \in T : m = Rel(q, relay)
      BY DEF Consistent
    <2>3. Rel(q, relay) \div Page = q \div Page
      BY <2>2 DEF Consistent, Good
    <2> QED BY <2>1, <2>2, <2>3
  <1> DEFINE f == [k \in S |-> CHOOSE q \in T : q \div Page = k]
  <1>2. \A k \in S : f[k] \in T /\ f[k] \div Page = k
    BY <1>1
  <1>3. f \in [S -> T]
    BY <1>2
  <1> HIDE DEF f
  <1>4. IsFiniteSet(T) /\ Cardinality(T) <= MaxHeld /\ MaxHeld \in Nat
    BY Constants DEF Counted
  <1>5. IsFiniteSet(S) /\ Cardinality(S) = MaxHeld + 1
    <2> DEFINE n == MaxHeld + 1
    <2>1. n \in Int /\ 1 \in Int /\ ~ (1 > n)
      BY <1>4
    <2> HIDE DEF n
    <2>2. IsFiniteSet(1 .. n) /\ Cardinality(1 .. n) = n - 1 + 1
      BY <2>1, FS_Interval
    <2>3. n - 1 + 1 = n
      BY <2>1
    <2> QED BY <2>2, <2>3 DEF n
  <1>6. Cardinality(T) < Cardinality(S)
    <2>1. Cardinality(T) \in Nat
      BY <1>4, FS_CardinalityType
    <2> QED BY <1>4, <1>5, <2>1
  <1> HIDE DEF S, T
  <1>7. \E x, y \in S : x # y /\ f[x] = f[y]
    BY <1>3, <1>4, <1>5, <1>6, FS_PigeonHole
  <1> QED BY <1>2, <1>7

(* An address of Fresh has its page to itself.                             *)
LEMMA FreshPage ==
  ASSUME Consistent(block, relay, held), Counted(held), NEW p \in Fresh
  PROVE  \E k : InPage(p, k) /\ \A q \in DOMAIN held : q \div Page # k
  <1> DEFINE K == {k \in 1 .. MaxHeld + 1 : \A m \in DOMAIN block : m \div Page # k}
             k == Min(K)
  <1>1. k \in K
    <2>1. K \subseteq Nat /\ K # {}
      <3>1. MaxHeld \in Nat
        BY Constants
      <3>2. K \subseteq Nat
        BY <3>1
      <3>3. PICK j \in 1 .. MaxHeld + 1 : \A m \in DOMAIN block : m \div Page # j
        BY FreePage
      <3>4. j \in K
        BY <3>3
      <3> QED BY <3>2, <3>4
    <2> HIDE DEF K
    <2> QED BY <2>1, MinIsIn
  <1>2. PICK x \in Residue : p = k * Page + x
    BY DEF Fresh
  <1>3. k \in Nat /\ \A m \in DOMAIN block : m \div Page # k
    <2>1. MaxHeld \in Nat
      BY Constants
    <2> QED BY <1>1, <2>1
  <1> HIDE DEF K, k
  <1>4. x \in Nat /\ x + Limit <= Page /\ Page \in Nat /\ Limit \in Nat \ {0}
    <2>1. x \in Nat /\ x + 3 * Largest + 3 * SystemPageSize <= Page
      BY InterfaceAssumption
    <2>2. 3 * SystemPageSize = 12288
      BY DEF SystemPageSize
    <2> QED BY <2>1, <2>2, Constants
  <1>5. p \in Nat
    BY <1>2, <1>3, <1>4
  <1>6. ASSUME NEW y \in p .. p + Limit - 1 PROVE y \div Page = k
    <2> DEFINE z == y - k * Page
    <2>1. y \in Int /\ k * Page \in Nat
      BY <1>3, <1>4, <1>5
    <2>2. z \in 0 .. Page - 1 /\ y = Page * k + z /\ Page \in Nat \ {0}
      BY <1>2, <1>3, <1>4, <1>5, <2>1
    <2> HIDE DEF z
    <2>3. (Page * k + z) \div Page = k
      BY <1>3, <2>2, Divided
    <2> QED BY <2>2, <2>3
  <1>7. ASSUME NEW q \in DOMAIN held PROVE q \div Page # k
    <2>1. Rel(q, relay) \in DOMAIN block /\ Rel(q, relay) \div Page = q \div Page
      BY DEF Consistent, Good
    <2> QED BY <1>3, <2>1
  <1> QED BY <1>3, <1>5, <1>6, <1>7 DEF InPage

-----------------------------------------------------------------------------
(* What the application has of a block: no more than it asked for, no more *)
(* than Size says, and that is inside.                                     *)
LEMMA RelIsReleased ==
  ASSUME NEW p
  PROVE  Released(p) = Rel(p, relay)
  BY DEF Released, Rel

LEMMA Usable ==
  ASSUME Consistent(block, relay, held), NEW p \in DOMAIN held
  PROVE  /\ held[p].s \in Nat /\ UsableSize(p) \in Nat /\ Reach(p) \in Int
         /\ held[p].s <= UsableSize(p) /\ UsableSize(p) <= Reach(p)
  <1>1. Good(p, block, relay, held)
    BY DEF Consistent
  <1>2. Rel(p, relay) \in DOMAIN block
    BY DEF Consistent
  <1>3. \A m \in DOMAIN block : m \in Nat /\ block[m] \in 0 .. Limit
    BY DEF Consistent
  <1>4. Limit \in Nat
    BY Constants
  <1>5. CASE p \in DOMAIN relay
    <2> DEFINE m == relay[p].mp
               s == block[m]
               u == relay[p].ms
               l == held[p].s
    <2>1. Inside(p, held[p], relay[p], block[m]) /\ m \in DOMAIN block
      BY <1>1, <1>2, <1>5 DEF Good, Rel
    <2>2. s \in 0 .. Limit
      BY <1>3, <2>1
    <2>3. m \in Nat /\ u \in Nat /\ p + u <= m + s /\ l \in 0 .. u /\ p \in Nat
      BY <1>1, <2>1 DEF Inside, Good
    <2>4. UsableSize(p) = u /\ Reach(p) = m + Room(s) - p
      BY <1>5 DEF UsableSize, Reach
    <2> HIDE DEF m, s, u
    <2>5. s <= Room(s) /\ Room(s) \in Int
      <3>1. Right(s) /\ Room(s) \in Int /\ ClassSize(s) \in Nat
        BY <2>2, SizeRight
      <3>2. s <= ClassSize(s) /\ ClassSize(s) <= Room(s)
        BY <3>1 DEF Right
      <3> QED BY <1>4, <2>2, <3>1, <3>2
    <2> HIDE DEF l
    <2>6. l \in Nat /\ u \in Nat /\ m + Room(s) - p \in Int /\ l <= u /\ u <= m + Room(s) - p
      BY <1>4, <2>2, <2>3, <2>5
    <2> QED BY <2>4, <2>6 DEF l
  <1>6. CASE p \notin DOMAIN relay
    <2> DEFINE s == block[p]
               l == held[p].s
    <2>1. Plain(held[p], s) /\ p \in DOMAIN block
      BY <1>1, <1>2, <1>6 DEF Good, Rel
    <2>2. s \in 0 .. Limit /\ l \in 0 .. s
      BY <1>3, <2>1 DEF Plain
    <2>3. UsableSize(p) = ClassSize(s) /\ Reach(p) = Room(s)
      BY <1>6 DEF UsableSize, Reach
    <2> HIDE DEF s, l
    <2>4. Right(s) /\ Room(s) \in Int /\ ClassSize(s) \in Nat
      BY <2>2, SizeRight
    <2>5. s <= ClassSize(s) /\ ClassSize(s) <= Room(s)
      BY <2>4 DEF Right
    <2>6. l \in Nat /\ l <= ClassSize(s)
      BY <1>4, <2>2, <2>4, <2>5
    <2> QED BY <2>3, <2>4, <2>5, <2>6 DEF l
  <1> QED BY <1>5, <1>6

-----------------------------------------------------------------------------
(* The invariant holds at first.                                           *)
LEMMA InitInv == Init => InterfaceInv
  <1> SUFFICES ASSUME Init PROVE InterfaceInv
    OBVIOUS
  <1>1. DOMAIN held = {} /\ DOMAIN relay = {} /\ DOMAIN block = {}
    BY DEF Init
  <1>2. Consistent(block, relay, held)
    BY <1>1 DEF Consistent
  <1>3. Counted(held)
    <2>1. IsFiniteSet({}) /\ Cardinality({}) = 0
      BY FS_EmptySet
    <2> QED BY <1>1, <2>1, Constants DEF Counted
  <1>4. ReAllocKeeps
    BY DEF Init, Nothing, ReAllocKeeps
  <1> QED BY <1>2, <1>3, <1>4 DEF InterfaceInv

(* One more address, while CanHold.                                        *)
LEMMA CountMore ==
  ASSUME NEW h, NEW y, NEW ask, IsFiniteSet(DOMAIN h), Cardinality(DOMAIN h) < MaxHeld
  PROVE  Counted(With(h, y, ask))
  <1>1. DOMAIN With(h, y, ask) = DOMAIN h \cup {y}
    BY DEF With
  <1>2. /\ IsFiniteSet(DOMAIN h \cup {y})
        /\ Cardinality(DOMAIN h \cup {y}) =
             IF y \in DOMAIN h THEN Cardinality(DOMAIN h) ELSE Cardinality(DOMAIN h) + 1
    BY FS_AddElement
  <1>3. Cardinality(DOMAIN h) \in Nat /\ MaxHeld \in Nat
    BY Constants, FS_CardinalityType
  <1> QED BY <1>1, <1>2, <1>3 DEF Counted

(* Nothing copied, nothing to keep.                                        *)
LEMMA NothingKept == ASSUME copied' = Nothing PROVE ReAllocKeeps'
  BY DEF Nothing, ReAllocKeeps

-----------------------------------------------------------------------------
(* Each operation keeps the invariant.                                     *)

(* A block that is held at its own address.                                *)
LEMMA TakePlain ==
  ASSUME Consistent(block, relay, held), Counted(held), NEW p \in Fresh,
         NEW s \in 0 .. Limit, NEW a
  PROVE  /\ Consistent(With(block, p, s), relay, With(held, p, [s |-> s, a |-> a, by |-> "Alloc"]))
         /\ p \notin DOMAIN held
  <1> DEFINE ask == [s |-> s, a |-> a, by |-> "Alloc"]
  <1>1. PICK k : InPage(p, k) /\ \A q \in DOMAIN held : q \div Page # k
    BY FreshPage
  <1>2. p \in Nat /\ p \div Page = k
    <2>1. Limit \in Nat \ {0}
      BY Constants
    <2>2. p \in Nat
      BY <1>1 DEF InPage
    <2>3. p \in p .. p + Limit - 1
      BY <2>1, <2>2
    <2> QED BY <1>1, <2>2, <2>3 DEF InPage
  <1>3. p \notin DOMAIN held
    BY <1>1, <1>2
  <1>4. p \notin DOMAIN relay
    BY <1>3 DEF Consistent
  <1>5. Plain(ask, s)
    <2>1. s \in 0 .. s
      BY Constants
    <2> QED BY <2>1 DEF Plain
  <1> HIDE DEF ask
  <1>6. Rel(p, relay) = p
    BY <1>4 DEF Rel
  <1>7. \A q \in DOMAIN held : q \div Page # p \div Page
    BY <1>1, <1>2
  <1>8. Consistent(With(block, p, s), relay, With(held, p, ask))
    BY <1>2, <1>4, <1>5, <1>6, <1>7, Taken
  <1> QED BY <1>3, <1>8 DEF ask

(* A block that is held behind a Relay.                                    *)
LEMMA TakeAligned ==
  ASSUME Consistent(block, relay, held), Counted(held), NEW p \in Fresh,
         NEW a \in Nat \ {0}, NEW s \in Nat, sHeader + a + s \in 0 .. Limit,
         NEW ask, ask.s \in 0 .. s, ask.by = "Align" => ask.a = a
  PROVE  Consistent(With(block, p, sHeader + a + s),
                    With(relay, Aligned(p, a), [mp |-> p, ms |-> s]),
                    With(held, Aligned(p, a), ask))
  <1> DEFINE y == Aligned(p, a)
             n == sHeader + a + s
             new == [mp |-> p, ms |-> s]
             r2 == With(relay, y, new)
  <1>1. PICK k : InPage(p, k) /\ \A q \in DOMAIN held : q \div Page # k
    BY FreshPage
  <1>2. p \in Nat
    BY <1>1 DEF InPage
  <1>3. sHeader = 32
    BY DEF sHeader, sRelay, sParcel
  <1>4. y \in p + 32 .. p + 32 + a - 1
    <2>1. p + 32 \in Nat
      BY <1>2
    <2>2. align_t(p + 32, a) \in p + 32 .. p + 32 + a - 1
      BY <2>1, AlignBounds
    <2> QED BY <1>3, <2>2 DEF Aligned
  <1>5. IsPowerOf2(a) => y % a = 0
    <2> SUFFICES ASSUME IsPowerOf2(a) PROVE y % a = 0
      OBVIOUS
    <2>1. a \in 1 .. bit(31)
      <3>1. 3 * bit(27) + 12288 <= bit(31) /\ bit(27) \in Nat /\ bit(31) \in Nat
        BY Bits, SMT
      <3> QED BY <1>3, <3>1, Constants
    <2>2. PICK e \in 0 .. 31 : a = bit(e)
      BY <2>1, PowersOf2
    <2>3. p + sHeader \in Nat
      BY <1>2, <1>3
    <2> QED BY <2>2, <2>3, AlignMultiple DEF Aligned
  <1> HIDE DEF y
  <1>6. y \in Nat /\ y \div Page = k /\ p \div Page = k
    <2>1. y \in p .. p + Limit - 1 /\ p \in p .. p + Limit - 1 /\ y \in Nat
      BY <1>2, <1>3, <1>4, Constants
    <2> QED BY <1>1, <2>1 DEF InPage
  <1>7. /\ DOMAIN r2 = DOMAIN relay \cup {y} /\ r2[y] = new
        /\ \A q \in DOMAIN relay : q # y => r2[q] = relay[q]
    BY DEF With
  <1>8. y \notin DOMAIN held /\ DOMAIN relay \subseteq DOMAIN held
    BY <1>1, <1>6 DEF Consistent
  <1>9. \A q \in DOMAIN relay : r2[q] = relay[q]
    BY <1>7, <1>8
  <1>10. Inside(y, ask, new, n)
    <2>1. p + 32 <= y /\ y + s <= p + n
      BY <1>2, <1>3, <1>4
    <2> QED BY <1>2, <1>3, <1>5, <2>1 DEF Inside
  <1>11. new.mp = p
    OBVIOUS
  <1> HIDE DEF r2, n, new
  <1>12. Rel(y, r2) = p /\ y \in DOMAIN r2
    BY <1>7, <1>11 DEF Rel
  <1>13. Inside(y, ask, r2[y], n)
    BY <1>7, <1>10
  <1>14. p \div Page = y \div Page /\ \A q \in DOMAIN held : q \div Page # y \div Page
    BY <1>1, <1>6
  <1>15. n \in 0 .. Limit
    BY DEF n
  <1>16. DOMAIN relay \subseteq DOMAIN r2 /\ DOMAIN r2 \subseteq DOMAIN relay \cup {y}
    BY <1>7
  <1>17. Consistent(With(block, p, n), r2, With(held, y, ask))
    BY <1>2, <1>6, <1>9, <1>12, <1>13, <1>14, <1>15, <1>16, Taken
  <1> QED BY <1>17 DEF n, r2, y, new

LEMMA AllocInv ==
  ASSUME InterfaceInv, NEW s \in 0 .. Limit, Alloc(s)
  PROVE  InterfaceInv'
  <1>1. Consistent(block, relay, held) /\ Counted(held)
    BY DEF InterfaceInv
  <1>2. PICK p \in Fresh : block' = With(block, p, s) /\ Hold(p, s, 1, "Alloc")
    BY DEF Alloc
  <1>3. held' = With(held, p, [s |-> s, a |-> 1, by |-> "Alloc"]) /\ relay' = relay
    BY <1>2 DEF Alloc, Hold
  <1>4. Consistent(block', relay', held')
    BY <1>1, <1>2, <1>3, TakePlain
  <1>5. Counted(held')
    BY <1>1, <1>3, CountMore DEF Alloc, CanHold, Counted
  <1>6. ReAllocKeeps'
    BY NothingKept DEF Alloc
  <1> QED BY <1>4, <1>5, <1>6 DEF InterfaceInv

LEMMA AlignInv ==
  ASSUME InterfaceInv, NEW a \in Nat \ {0}, NEW s \in Nat, sHeader + a + s \in 0 .. Limit,
         NEW ask \in [s : 0 .. s, a : Nat, by : {"Align", "memalign"}], ask.by = "Align" => ask.a = a,
         Align(a, s, ask)
  PROVE  InterfaceInv'
  <1>1. Consistent(block, relay, held) /\ Counted(held)
    BY DEF InterfaceInv
  <1>2. PICK p \in Fresh :
          /\ block' = With(block, p, sHeader + a + s)
          /\ relay' = With(relay, Aligned(p, a), [mp |-> p, ms |-> s])
          /\ Hold(Aligned(p, a), ask.s, ask.a, ask.by)
    BY DEF Align
  <1>3. held' = With(held, Aligned(p, a), ask)
    <2>1. ask = [s |-> ask.s, a |-> ask.a, by |-> ask.by]
      OBVIOUS
    <2> QED BY <1>2, <2>1 DEF Hold
  <1>4. ask.s \in 0 .. s
    OBVIOUS
  <1>5. Consistent(block', relay', held')
    BY <1>1, <1>2, <1>3, <1>4, TakeAligned
  <1>6. Counted(held')
    BY <1>1, <1>3, CountMore DEF Align, CanHold, Counted
  <1>7. ReAllocKeeps'
    BY NothingKept DEF Align
  <1> QED BY <1>5, <1>6, <1>7 DEF InterfaceInv

LEMMA FreeInv ==
  ASSUME InterfaceInv, NEW p \in DOMAIN held, Free(p)
  PROVE  InterfaceInv'
  <1>1. Consistent(block, relay, held) /\ Counted(held)
    BY DEF InterfaceInv
  <1>2. /\ block' = Without(block, Rel(p, relay)) /\ relay' = Without(relay, p)
        /\ held' = Without(held, p)
    BY RelIsReleased DEF Free
  <1>3. Consistent(block', relay', held')
    BY <1>1, <1>2, Given
  <1>4. Counted(held')
    <2>1. DOMAIN held' = DOMAIN held \ {p}
      BY <1>2 DEF Without
    <2>2. /\ IsFiniteSet(DOMAIN held \ {p})
          /\ Cardinality(DOMAIN held \ {p}) = Cardinality(DOMAIN held) - 1
      BY <1>1, FS_RemoveElement DEF Counted
    <2>3. Cardinality(DOMAIN held) \in Nat /\ MaxHeld \in Nat /\ Cardinality(DOMAIN held) <= MaxHeld
      BY <1>1, FS_CardinalityType, Constants DEF Counted
    <2> QED BY <2>1, <2>2, <2>3 DEF Counted
  <1>5. ReAllocKeeps'
    BY NothingKept DEF Free
  <1> QED BY <1>3, <1>4, <1>5 DEF InterfaceInv

(* ReAlloc: taken, copied, and the old one given back.                     *)
LEMMA ReAllocInv ==
  ASSUME InterfaceInv, NEW p \in DOMAIN held, NEW s \in 0 .. Limit, ReAlloc(p, s)
  PROVE  InterfaceInv'
  <1>1. Consistent(block, relay, held) /\ Counted(held)
    BY DEF InterfaceInv
  <1>2. CASE s = 0 /\ Free(p)
    BY <1>2, FreeInv
  <1>3. CASE ~ (s = 0 /\ Free(p))
    <2> DEFINE u == UsableSize(p)
               x == Reach(p)
               l == held[p].s
               z == Room(s)
    <2>1. PICK q \in Fresh :
            /\ block' = Without(With(block, q, s), Released(p))
            /\ relay' = Without(relay, p)
            /\ held' = Without(With(held, q, [s |-> s, a |-> 1, by |-> "Alloc"]), p)
      BY <1>3 DEF ReAlloc
    <2>2. copied' = [n |-> CopyLength(s, u), least |-> Smaller(s, l), most |-> Smaller(z, x)]
      BY <1>3 DEF ReAlloc
    <2> DEFINE h == With(held, q, [s |-> s, a |-> 1, by |-> "Alloc"])
               b == With(block, q, s)
    <2>3. Consistent(b, relay, h) /\ q \notin DOMAIN held
      BY <1>1, TakePlain
    <2>4. DOMAIN h = DOMAIN held \cup {q}
      BY DEF With
    <2>5. block' = Without(b, Rel(p, relay)) /\ relay' = Without(relay, p) /\ held' = Without(h, p)
      BY <2>1, RelIsReleased
    <2> HIDE DEF h, b
    <2>6. Consistent(block', relay', held')
      BY <2>3, <2>4, <2>5, Given
    <2>7. Counted(held')
      <3>1. /\ IsFiniteSet(DOMAIN held \cup {q})
            /\ Cardinality(DOMAIN held \cup {q}) = Cardinality(DOMAIN held) + 1
        BY <1>1, <2>3, FS_AddElement DEF Counted
      <3>2. /\ IsFiniteSet(DOMAIN h \ {p})
            /\ Cardinality(DOMAIN h \ {p}) = Cardinality(DOMAIN h) - 1
        BY <2>4, <3>1, FS_RemoveElement
      <3>3. DOMAIN held' = DOMAIN h \ {p}
        BY <2>5 DEF Without
      <3>4. Cardinality(DOMAIN held) \in Nat /\ Cardinality(DOMAIN held) <= MaxHeld
        BY <1>1, FS_CardinalityType DEF Counted
      <3> QED BY <2>4, <3>1, <3>2, <3>3, <3>4 DEF Counted
    <2>8. l \in Nat /\ u \in Nat /\ x \in Int /\ l <= u /\ u <= x
      BY <1>1, Usable
    <2>9. s \in Nat /\ z \in Int /\ s <= z
      <3>1. Right(s) /\ Room(s) \in Int /\ ClassSize(s) \in Nat
        BY SizeRight
      <3>2. s <= ClassSize(s) /\ ClassSize(s) <= Room(s)
        BY <3>1 DEF Right
      <3>3. s \in Nat
        BY Constants
      <3> QED BY <3>1, <3>2, <3>3
    <2> HIDE DEF u, x, l, z
    <2>10. Smaller(s, l) <= CopyLength(s, u) /\ CopyLength(s, u) <= Smaller(z, x)
      BY <2>8, <2>9 DEF Smaller, CopyLength
    <2>11. ReAllocKeeps'
      BY <2>2, <2>10 DEF ReAllocKeeps
    <2> QED BY <2>6, <2>7, <2>11 DEF InterfaceInv
  <1> QED BY <1>2, <1>3

(* memalign, the two arguments of aligned_alloc the wrong way round: what  *)
(* was asked for is still there, since it divides what is taken.           *)
LEMMA MemalignInv ==
  ASSUME InterfaceInv, NEW alignment \in Nat, NEW size \in Nat,
         sHeader + size + alignment \in 0 .. Limit, memalign(alignment, size)
  PROVE  InterfaceInv'
  <1> DEFINE ask == [s |-> size, a |-> size, by |-> "memalign"]
             want == [s |-> size, a |-> alignment, by |-> "memalign"]
  <1>1. LowestBit(alignment) >= size /\ Align(size, alignment, want)
    BY DEF memalign, AlignedFor
  <1>2. LowestBit(alignment) \in 0 .. alignment
    BY LowestBound
  <1>3. size \in 0 .. alignment
    BY <1>1, <1>2
  <1>4. size > 0
    BY <1>1 DEF Align
  <1>5. want \in [s : 0 .. alignment, a : Nat, by : {"Align", "memalign"}] /\ want.by # "Align"
    BY <1>3
  <1> HIDE DEF want
  <1> QED BY <1>1, <1>4, <1>5, AlignInv

LEMMA AlignedInv ==
  ASSUME InterfaceInv, NEW a \in Alignment, NEW s \in Request,
         Align(a, s, [s |-> s, a |-> a, by |-> "Align"])
  PROVE  InterfaceInv'
  <1> DEFINE ask == [s |-> s, a |-> a, by |-> "Align"]
  <1>1. a \in Nat \ {0} /\ s \in Nat /\ sHeader + a + s \in 0 .. Limit
    <2>1. sHeader = 32
      BY DEF sHeader, sRelay, sParcel
    <2> QED BY <2>1, Constants
  <1>2. ask \in [s : 0 .. s, a : Nat, by : {"Align", "memalign"}] /\ ask.a = a
    BY <1>1
  <1>3. Align(a, s, ask)
    OBVIOUS
  <1> HIDE DEF ask
  <1> QED BY <1>1, <1>2, <1>3, AlignInv

(* Each step keeps the invariant.                                          *)
LEMMA NextInv == InterfaceInv /\ [Next]_vars => InterfaceInv'
  <1> SUFFICES ASSUME InterfaceInv, [Next]_vars PROVE InterfaceInv'
    OBVIOUS
  <1>1. sHeader = 32 /\ SystemPageSize = 4096
    BY DEF sHeader, sRelay, sParcel, SystemPageSize
  <1>2. CASE \E s \in Request : Alloc(s)
    <2>1. PICK s \in Request : Alloc(s)
      BY <1>2
    <2>2. s \in 0 .. Limit
      BY Constants
    <2> QED BY <2>1, <2>2, AllocInv
  <1>3. CASE \E s \in Request : calloc(3, s)
    <2>1. PICK s \in Request : Alloc(3 * s)
      BY <1>3 DEF calloc
    <2>2. 3 * s \in 0 .. Limit
      BY Constants
    <2> QED BY <2>1, <2>2, AllocInv
  <1>4. CASE \E a \in Alignment, s \in Request : Align(a, s, [s |-> s, a |-> a, by |-> "Align"])
    BY <1>4, AlignedInv
  <1>5. CASE \E a \in Alignment, s \in Request : aligned_alloc(a, s)
    BY <1>5, AlignedInv DEF aligned_alloc, AlignedFor
  <1>6. CASE \E a \in Alignment, s \in Request : posix_memalign(a, s)
    <2>1. PICK a \in Alignment, s \in Request : memalign(a, s)
      BY <1>6 DEF posix_memalign
    <2>2. a \in Nat /\ s \in Nat /\ sHeader + s + a \in 0 .. Limit
      BY <1>1, Constants
    <2> QED BY <2>1, <2>2, MemalignInv
  <1>7. ASSUME NEW s \in Request, valloc(s) PROVE InterfaceInv'
    <2>1. memalign(4096, s)
      BY <1>1, <1>7 DEF valloc
    <2>2. 4096 \in Nat /\ s \in Nat /\ sHeader + s + 4096 \in 0 .. Limit
      BY <1>1, Constants
    <2> QED BY <2>1, <2>2, MemalignInv
  <1>8. ASSUME NEW s \in Request, pvalloc(s) PROVE InterfaceInv'
    <2> DEFINE t == align_t(s, 4096)
    <2>1. memalign(4096, t)
      BY <1>1, <1>8 DEF valloc, pvalloc
    <2>2. s \in Nat /\ 4096 \in Nat \ {0}
      BY Constants
    <2>3. t \in s .. s + 4096 - 1
      BY <2>2, AlignBounds
    <2> HIDE DEF t
    <2>4. 4096 \in Nat /\ t \in Nat /\ sHeader + t + 4096 \in 0 .. Limit
      BY <1>1, <2>2, <2>3, Constants
    <2> QED BY <2>1, <2>4, MemalignInv
  <1>9. CASE \E p \in DOMAIN held : Free(p)
    BY <1>9, FreeInv
  <1>10. CASE \E p \in DOMAIN held, s \in Request : ReAlloc(p, s)
    <2>1. PICK p \in DOMAIN held, s \in Request : ReAlloc(p, s)
      BY <1>10
    <2>2. s \in 0 .. Limit
      BY Constants
    <2> QED BY <2>1, <2>2, ReAllocInv
  <1>11. CASE UNCHANGED vars
    BY <1>11 DEF vars, InterfaceInv, Consistent, Good, Plain, Inside, Rel, Counted, ReAllocKeeps
  <1> QED BY <1>2, <1>3, <1>4, <1>5, <1>6, <1>7, <1>8, <1>9, <1>10, <1>11 DEF Next

(* Every block that LocalCntx::Alloc has given is held at one address, in  *)
(* a page of its own; behind a Relay the address lies in the block.        *)
THEOREM InterfaceInductive == Spec => []InterfaceInv
  <1> QED BY InitInv, NextInv, PTL DEF Spec

-----------------------------------------------------------------------------
(* What the application holds lies inside its block, behind the headers,   *)
(* and on the alignment that was asked of Align.                           *)
THEOREM HeldContained == Spec => []Contained
  <1>1. InterfaceInv => Contained
    <2> SUFFICES ASSUME InterfaceInv, NEW p \in DOMAIN held
                 PROVE  /\ held[p].s <= Reach(p)
                        /\ p \in DOMAIN relay => p - sHeader >= relay[p].mp
                        /\ held[p].by = "Align" /\ IsPowerOf2(held[p].a) => p % held[p].a = 0
      BY DEF Contained
    <2>1. Consistent(block, relay, held)
      BY DEF InterfaceInv
    <2>2. held[p].s <= Reach(p)
      BY <2>1, Usable
    <2>3. Good(p, block, relay, held)
      BY <2>1 DEF Consistent
    <2>4. p \in Nat /\ sHeader = 32
      BY <2>3 DEF Good, sHeader, sRelay, sParcel
    <2>5. CASE p \in DOMAIN relay
      <3>1. /\ relay[p].mp \in Nat /\ relay[p].mp + sHeader <= p
            /\ held[p].by = "Align" /\ IsPowerOf2(held[p].a) => p % held[p].a = 0
        BY <2>3, <2>5 DEF Good, Inside
      <3> QED BY <2>2, <2>4, <3>1
    <2>6. CASE p \notin DOMAIN relay
      BY <2>2, <2>3, <2>6 DEF Good, Plain
    <2> QED BY <2>5, <2>6
  <1> QED BY <1>1, InterfaceInductive, PTL

(* Free and ReAlloc lose no block and give none back twice.                *)
THEOREM BlocksHeldOnce == Spec => []OneBlockEach
  <1>1. InterfaceInv => OneBlockEach
    <2> SUFFICES ASSUME InterfaceInv PROVE OneBlockEach
      OBVIOUS
    <2>1. Consistent(block, relay, held) /\ IsFiniteSet(DOMAIN held)
      BY DEF InterfaceInv, Counted
    <2>2. DOMAIN block = {Released(p) : p \in DOMAIN held}
      BY <2>1, RelIsReleased DEF Consistent
    <2> DEFINE f == [p \in DOMAIN held |-> Released(p)]
    <2>3. f \in [DOMAIN held -> DOMAIN block] /\ \A p \in DOMAIN held : f[p] = Released(p)
      BY <2>2
    <2> HIDE DEF f
    <2>4. \A p, q \in DOMAIN held : f[p] = f[q] => p = q
      BY <2>1, <2>3, RelOnce, RelIsReleased
    <2>5. f \in Bijection(DOMAIN held, DOMAIN block)
      <3>1. \A m \in DOMAIN block : \E p \in DOMAIN held : f[p] = m
        BY <2>2, <2>3
      <3> QED BY <2>3, <2>4, <3>1 DEF Bijection, Injection, Surjection, IsInjective
    <2>6. ExistsBijection(DOMAIN held, DOMAIN block)
      BY <2>5 DEF ExistsBijection
    <2>7. Cardinality(DOMAIN block) = Cardinality(DOMAIN held)
      BY <2>1, <2>6, FS_Bijection
    <2> QED BY <2>1, <2>2, <2>7 DEF OneBlockEach, Consistent
  <1> QED BY <1>1, InterfaceInductive, PTL

(* ReAlloc copies what the application may want to keep, inside both       *)
(* blocks.                                                                 *)
THEOREM ReAllocCopies == Spec => []ReAllocKeeps
  <1>1. InterfaceInv => ReAllocKeeps
    BY DEF InterfaceInv
  <1> QED BY <1>1, InterfaceInductive, PTL

(* Every block has the smallest realm that is large enough, a budget its   *)
(* parcels fit in, and room for what was asked for.                        *)
THEOREM ClassesRight == Spec => []RightClass
  <1>1. InterfaceInv => RightClass
    <2> SUFFICES ASSUME InterfaceInv, NEW p \in DOMAIN block
                 PROVE  Right(block[p])
      BY DEF RightClass, Right
    <2>1. block[p] \in 0 .. Limit
      BY DEF InterfaceInv, Consistent
    <2> QED BY <2>1, SizeRight
  <1> QED BY <1>1, InterfaceInductive, PTL
=============================================================================
