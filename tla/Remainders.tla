----------------------------- MODULE Remainders -----------------------------
(***************************************************************************)
(* Facts about quotients and remainders by a number that is a parameter:   *)
(* the ring indices and the batch counters of the driver are kept modulo   *)
(* constants of the models.                                                *)
(***************************************************************************)
EXTENDS Integers, TLAPS

\* Quotient and remainder by a positive number.
LEMMA DivMod ==
    ASSUME NEW n \in Int, NEW k \in Nat \ {0}
    PROVE  /\ n % k \in 0 .. k - 1
           /\ n \div k \in Int
           /\ n \in Nat => n \div k \in Nat
           /\ n = k * (n \div k) + (n % k)
OBVIOUS

\* The remainder is the only one of its range.
LEMMA ModUnique ==
    ASSUME NEW n \in Int, NEW k \in Nat \ {0}, NEW d \in Int, NEW r \in 0 .. k - 1,
           n = k * d + r
    PROVE  n % k = r
OBVIOUS

\* Multiples of the divisor do not matter.
LEMMA ModMultiple ==
    ASSUME NEW n \in Int, NEW k \in Nat \ {0}, NEW c \in Int
    PROVE  (n + k * c) % k = n % k
<1> DEFINE d == n \div k
           r == n % k
<1>1. d \in Int /\ r \in 0 .. k - 1 /\ n = k * d + r
  BY DivMod
<1> HIDE DEF d, r
<1>2. n + k * c = k * (d + c) + r /\ n + k * c \in Int /\ d + c \in Int
  BY <1>1
<1> QED
  BY <1>1, <1>2, ModUnique DEF r

\* How a counter moves: to the next number, or back to zero.
LEMMA ModSucc ==
    ASSUME NEW n \in Int, NEW k \in Nat \ {0}
    PROVE  (n + 1) % k = IF (n % k) + 1 = k THEN 0 ELSE (n % k) + 1
<1> DEFINE d == n \div k
           r == n % k
<1>1. d \in Int /\ r \in 0 .. k - 1 /\ n = k * d + r
  BY DivMod
<1> HIDE DEF d, r
<1>2. CASE r + 1 = k
  <2>1. n + 1 = k * (d + 1) + 0 /\ n + 1 \in Int /\ d + 1 \in Int /\ 0 \in 0 .. k - 1
    BY <1>1, <1>2
  <2>2. (n + 1) % k = 0
    BY <2>1, ModUnique
  <2> QED
    BY <1>2, <2>2 DEF r
<1>3. CASE r + 1 # k
  <2>1. n + 1 = k * d + (r + 1) /\ n + 1 \in Int /\ r + 1 \in 0 .. k - 1
    BY <1>1, <1>3
  <2>2. (n + 1) % k = r + 1
    BY <1>1, <2>1, ModUnique
  <2> QED
    BY <1>3, <2>2 DEF r
<1> QED
  BY <1>2, <1>3

\* The quotient is the only one, too.
LEMMA DivUnique ==
    ASSUME NEW n \in Int, NEW k \in Nat \ {0}, NEW d \in Int, NEW r \in 0 .. k - 1,
           n = k * d + r
    PROVE  n \div k = d
OBVIOUS

\* How it moves: when the counter begins anew.
LEMMA DivSucc ==
    ASSUME NEW n \in Int, NEW k \in Nat \ {0}
    PROVE  (n + 1) \div k = IF (n % k) + 1 = k THEN (n \div k) + 1 ELSE n \div k
<1> DEFINE d == n \div k
           r == n % k
<1>1. d \in Int /\ r \in 0 .. k - 1 /\ n = k * d + r
  BY DivMod
<1> HIDE DEF d, r
<1>2. CASE r + 1 = k
  <2>1. n + 1 = k * (d + 1) + 0 /\ n + 1 \in Int /\ d + 1 \in Int /\ 0 \in 0 .. k - 1
    BY <1>1, <1>2
  <2>2. (n + 1) \div k = d + 1
    BY <2>1, DivUnique
  <2> QED
    BY <1>2, <2>2 DEF d, r
<1>3. CASE r + 1 # k
  <2>1. n + 1 = k * d + (r + 1) /\ n + 1 \in Int /\ r + 1 \in 0 .. k - 1
    BY <1>1, <1>3
  <2>2. (n + 1) \div k = d
    BY <1>1, <2>1, DivUnique
  <2> QED
    BY <1>3, <2>2 DEF d, r
<1> QED
  BY <1>2, <1>3

\* Taking the divisor away makes it one less.
LEMMA DivMinus ==
    ASSUME NEW n \in Int, NEW k \in Nat \ {0}
    PROVE  (n - k) \div k = (n \div k) - 1
<1> DEFINE d == n \div k
           r == n % k
<1>1. d \in Int /\ r \in 0 .. k - 1 /\ n = k * d + r
  BY DivMod
<1> HIDE DEF d, r
<1>2. n - k = k * (d - 1) + r /\ n - k \in Int /\ d - 1 \in Int
  BY <1>1
<1>3. (n - k) \div k = d - 1
  BY <1>1, <1>2, DivUnique
<1> QED
  BY <1>3 DEF d

\* A number that is at least the divisor has a positive quotient, another one none.
LEMMA DivPositive ==
    ASSUME NEW n \in Nat, NEW k \in Nat \ {0}
    PROVE  (n \div k >= 1) <=> (n >= k)
<1> DEFINE d == n \div k
           r == n % k
<1>1. d \in Nat /\ r \in 0 .. k - 1 /\ n = k * d + r
  <2>1. n \in Int
    OBVIOUS
  <2> QED
    BY <2>1, DivMod
<1> HIDE DEF d, r
<1>2. d = 0 => n < k
  BY <1>1
<1>3. d >= 1 => k * d >= k
  BY <1>1
<1> QED
  BY <1>1, <1>2, <1>3 DEF d

\* Taking the divisor away.
LEMMA ModMinus ==
    ASSUME NEW n \in Int, NEW k \in Nat \ {0}
    PROVE  (n - k) % k = n % k
<1> DEFINE c == 0 - 1
<1>1. c \in Int /\ n - k = n + k * c
  OBVIOUS
<1> HIDE DEF c
<1>2. (n + k * c) % k = n % k
  BY <1>1, ModMultiple
<1> QED
  BY <1>1, <1>2

\* A summand may be reduced first.
LEMMA ModAdd ==
    ASSUME NEW a \in Int, NEW b \in Int, NEW k \in Nat \ {0}
    PROVE  ((a % k) + b) % k = (a + b) % k
<1> DEFINE d == a \div k
           r == a % k
<1>1. d \in Int /\ r \in 0 .. k - 1 /\ a = k * d + r
  BY DivMod
<1> HIDE DEF d, r
<1>2. r + b \in Int /\ a + b = (r + b) + k * d
  BY <1>1
<1>3. ((r + b) + k * d) % k = (r + b) % k
  BY <1>1, <1>2, ModMultiple
<1> QED
  BY <1>2, <1>3 DEF r

\* Reducing by a multiple of the divisor first.
LEMMA ModMod ==
    ASSUME NEW n \in Int, NEW k \in Nat \ {0}, NEW m \in Nat \ {0}, m % k = 0
    PROVE  (n % m) % k = n % k
<1> DEFINE c == m \div k
           d == n \div m
           r == n % m
<1>1. c \in Int /\ m = k * c + 0
  <2>1. c \in Int /\ m = k * c + (m % k)
    BY DivMod
  <2> QED
    BY <2>1
<1>2. d \in Int /\ r \in 0 .. m - 1 /\ n = m * d + r
  BY DivMod
<1> HIDE DEF c, d, r
<1>3. r \in Int /\ c * d \in Int /\ n = r + k * (c * d)
  BY <1>1, <1>2
<1>4. (r + k * (c * d)) % k = r % k
  BY <1>3, ModMultiple
<1> QED
  BY <1>3, <1>4 DEF r

\* Fewer than k steps lead away.
LEMMA ModApart ==
    ASSUME NEW n \in Int, NEW k \in Nat \ {0}, NEW j \in 1 .. k - 1
    PROVE  (n + j) % k # n % k
<1> DEFINE d == n \div k
           r == n % k
           e == (n + j) \div k
<1>1. d \in Int /\ r \in 0 .. k - 1 /\ n = k * d + r
  BY DivMod
<1>2. e \in Int /\ n + j = k * e + ((n + j) % k)
  BY DivMod
<1> HIDE DEF d, e, r
<1>3. SUFFICES ASSUME (n + j) % k = r PROVE FALSE
  BY DEF r
<1>4. j = k * (e - d) /\ e - d \in Int
  BY <1>1, <1>2, <1>3
<1> DEFINE f == e - d
<1> HIDE DEF f
<1>5. j = k * f /\ f \in Int
  BY <1>4 DEF f
<1>6. CASE f <= 0
  BY <1>5, <1>6
<1>7. CASE f >= 1
  BY <1>5, <1>7
<1> QED
  BY <1>5, <1>6, <1>7

\* A number below the divisor is its own remainder.
LEMMA ModSmall ==
    ASSUME NEW k \in Nat \ {0}, NEW n \in 0 .. k - 1
    PROVE  n % k = n
<1>1. n = k * 0 + n /\ n \in Int
  OBVIOUS
<1> QED
  BY <1>1, ModUnique

\* The distance from r to what is n steps further.
LEMMA ModBack ==
    ASSUME NEW k \in Nat \ {0}, NEW r \in Int, NEW n \in 0 .. k - 1
    PROVE  (((r + n) % k) - r) % k = n
<1> DEFINE a == r + n
           b == 0 - r
<1>1. a \in Int /\ b \in Int /\ a + b = n /\ a % k \in Int
  BY DivMod
<1> HIDE DEF a, b
<1>2. ((a % k) + b) % k = n % k
  BY <1>1, ModAdd
<1>3. n % k = n
  BY ModSmall
<1>4. (a % k) + b = (a % k) - r
  BY <1>1 DEF b
<1> QED
  BY <1>2, <1>3, <1>4 DEF a
=============================================================================
