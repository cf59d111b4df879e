----------------------------- MODULE ModLemmas -----------------------------
(***************************************************************************)
(* Facts about the remainder for every divisor, for the rings, bursts and  *)
(* counters of the other modules.                                          *)
(***************************************************************************)
EXTENDS Integers, TLAPS

\* A natural number is the divisor times the quotient plus the remainder.
LEMMA DivMod ==
  ASSUME NEW x \in Nat, NEW b \in Nat \ {0}
  PROVE  /\ x = b * (x \div b) + (x % b)
         /\ x \div b \in Nat
         /\ x % b \in 0 .. b - 1
OBVIOUS

\* The remainder is the only r below the divisor with x = b * q + r.
LEMMA ModUnique ==
  ASSUME NEW b \in Nat \ {0}, NEW q \in Int, NEW r \in 0 .. b - 1
  PROVE  (b * q + r) % b = r
OBVIOUS

\* ... and q the only quotient.
LEMMA DivUnique ==
  ASSUME NEW b \in Nat \ {0}, NEW q \in Int, NEW r \in 0 .. b - 1
  PROVE  (b * q + r) \div b = q
OBVIOUS

\* A number below the divisor is its own remainder.
LEMMA ModSmall ==
  ASSUME NEW b \in Nat \ {0}, NEW x \in 0 .. b - 1
  PROVE  x % b = x
<1>1. (b * 0 + x) % b = x
  BY ModUnique
<1> QED
  BY <1>1

\* The remainder of a successor steps by one, or wraps to zero.
LEMMA ModSucc ==
  ASSUME NEW x \in Nat, NEW b \in Nat \ {0}
  PROVE  (x + 1) % b = IF x % b = b - 1 THEN 0 ELSE (x % b) + 1
<1> DEFINE q == x \div b
           r == x % b
<1>1. x = b * q + r /\ r \in 0 .. b - 1 /\ q \in Nat
  BY DivMod
<1> HIDE DEF q, r
<1>2. CASE r = b - 1
  <2>1. x + 1 = b * (q + 1) + 0
    BY <1>1, <1>2
  <2>2. (b * (q + 1) + 0) % b = 0
    BY <1>1, ModUnique
  <2> QED
    BY <2>1, <2>2, <1>2 DEF r
<1>3. CASE r # b - 1
  <2>1. x + 1 = b * q + (r + 1) /\ r + 1 \in 0 .. b - 1
    BY <1>1, <1>3
  <2>2. (b * q + (r + 1)) % b = r + 1
    BY <1>1, <2>1, ModUnique
  <2> QED
    BY <2>1, <2>2, <1>3 DEF r
<1> QED
  BY <1>2, <1>3

\* A remainder by n, then by a divisor of n, is the remainder by the divisor.
LEMMA ModOfMod ==
  ASSUME NEW x \in Nat, NEW b \in Nat \ {0}, NEW n \in Nat \ {0}, n % b = 0
  PROVE  (x % n) % b = x % b
<1>1. PICK k \in Nat : n = b * k
  <2>1. n = b * (n \div b) + 0 /\ n \div b \in Nat
    BY DivMod
  <2> QED
    BY <2>1
<1>2. PICK q \in Nat, r \in Nat : x = (b * k) * q + r /\ x % n = r
  <2>1. x = n * (x \div n) + (x % n) /\ x \div n \in Nat /\ x % n \in Nat
    BY DivMod
  <2> QED
    BY <2>1, <1>1
<1>3. PICK p \in Nat, s \in 0 .. b - 1 : r = b * p + s /\ r % b = s
  BY DivMod
<1>4. x = b * (k * q + p) + s
  BY <1>1, <1>2, <1>3
<1>5. (b * (k * q + p) + s) % b = s
  <2>1. k * q + p \in Int
    BY <1>1, <1>2, <1>3
  <2> QED
    BY <2>1, ModUnique
<1> QED
  BY <1>2, <1>3, <1>4, <1>5

\* Two numbers less than the divisor apart have different remainders.
LEMMA ModApart ==
  ASSUME NEW b \in Nat \ {0}, NEW x \in Nat, NEW y \in Nat, x < y, y - x < b
  PROVE  x % b # y % b
<1>1. PICK q \in Nat, r \in 0 .. b - 1 : x = b * q + r /\ x % b = r
  BY DivMod
<1>2. PICK p \in Nat, s \in 0 .. b - 1 : y = b * p + s /\ y % b = s
  BY DivMod
<1>3. SUFFICES ASSUME r = s PROVE FALSE
  BY <1>1, <1>2
<1>4. y - x = b * (p - q)
  BY <1>1, <1>2, <1>3
<1>5. CASE p <= q
  <2>1. b * (p - q) <= 0
    BY <1>5, <1>1, <1>2
  <2> QED
    BY <2>1, <1>4
<1>6. CASE p > q
  <2>1. b * (p - q) >= b
    BY <1>6, <1>1, <1>2
  <2> QED
    BY <2>1, <1>4
<1> QED
  BY <1>5, <1>6

\* A ring that holds the last b numbers of a stream, each at its remainder,
\* holds them still when the next number takes its place: the place is the
\* only one written, and no number that still belongs to the last b lives there.
LEMMA RingAppend ==
  ASSUME NEW b \in Nat \ {0}, NEW n \in Nat, NEW r \in [0 .. b - 1 -> Int],
         \A k \in 0 .. n - 1 : k >= n - b => r[k % b] = k
  PROVE  \A k \in 0 .. n : k >= n + 1 - b => [r EXCEPT ![n % b] = n][k % b] = k
<1> SUFFICES ASSUME NEW k \in 0 .. n, k >= n + 1 - b
             PROVE  [r EXCEPT ![n % b] = n][k % b] = k
  OBVIOUS
<1>1. k % b \in 0 .. b - 1
  BY DivMod
<1>2. CASE k = n
  BY <1>1, <1>2
<1>3. CASE k # n
  <2>1. k % b # n % b
    <3>1. k \in Nat /\ k < n /\ n - k < b
      BY <1>3
    <3> QED
      BY <3>1, ModApart
  <2>2. r[k % b] = k
    BY <1>3
  <2> QED
    BY <1>1, <2>1, <2>2
<1> QED
  BY <1>2, <1>3

\* The place after a number's place in the ring is the next number's place.
LEMMA RingNext ==
  ASSUME NEW b \in Nat \ {0}, NEW n \in Nat
  PROVE  ((n % b) + 1) % b = (n + 1) % b
<1>1. n % b \in 0 .. b - 1 /\ n % b \in Nat
  BY DivMod
<1>2. (n % b) % b = n % b
  BY <1>1, ModSmall
<1>3. ((n % b) + 1) % b = IF (n % b) % b = b - 1 THEN 0 ELSE ((n % b) % b) + 1
  BY <1>1, ModSucc
<1> QED
  BY <1>2, <1>3, ModSucc
============================================================================
