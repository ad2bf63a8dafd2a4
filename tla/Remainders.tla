------------------------------ MODULE Remainders ------------------------------
(***************************************************************************)
(* Facts about the remainders that numbers of limited width are: words     *)
(* that wrap may be added and subtracted as if they did not, and wrapped   *)
(* in the end.                                                             *)
(***************************************************************************)
EXTENDS Integers, TLAPS

\* A number has one quotient and one remainder.
LEMMA DivisionIsUnique ==
  ASSUME NEW m \in Nat \ {0}, NEW k \in Int, NEW r \in 0..(m - 1)
  PROVE  (k * m + r) % m = r
<1> DEFINE x == k * m + r
           q == x \div m
           s == x % m
<1>1. x \in Int /\ q \in Int /\ s \in 0..(m - 1) /\ x = q * m + s
  OBVIOUS
<1>2. (k - q) * m = s - r
  BY <1>1
<1>3. ~(k - q >= 1)
  <2>1. ASSUME k - q >= 1  PROVE (k - q) * m >= m
    BY <2>1, <1>1
  <2>. QED  BY <1>1, <1>2, <2>1
<1>4. ~(k - q <= -1)
  <2>1. ASSUME k - q <= -1  PROVE (k - q) * m <= -m
    BY <2>1, <1>1
  <2>. QED  BY <1>1, <1>2, <2>1
<1>5. k = q
  BY <1>1, <1>3, <1>4
<1>. QED  BY <1>1, <1>2, <1>5

\* A small number is its own remainder.
LEMMA SmallRemainder ==
  ASSUME NEW m \in Nat \ {0}, NEW n \in 0..(m - 1)
  PROVE  n % m = n
<1>1. (0 * m + n) % m = n
  BY DivisionIsUnique
<1>. QED  BY <1>1

\* What is wrapped is small, and stays what it is when it is wrapped again.
LEMMA WrappedTwice ==
  ASSUME NEW m \in Nat \ {0}, NEW n \in Int
  PROVE  n % m \in 0..(m - 1) /\ (n % m) % m = n % m
<1>1. n % m \in 0..(m - 1)
  OBVIOUS
<1>. QED  BY <1>1, SmallRemainder

\* Numbers that are multiples of the modulus apart have the same remainder.
LEMMA SameRemainder ==
  ASSUME NEW m \in Nat \ {0}, NEW a \in Int, NEW b \in Int, NEW k \in Int,
         a = k * m + b
  PROVE  a % m = b % m
<1> DEFINE q == b \div m
           r == b % m
<1>1. q \in Int /\ r \in 0..(m - 1) /\ b = q * m + r
  OBVIOUS
<1> HIDE DEF q, r
<1>2. a = (k + q) * m + r /\ k + q \in Int
  <2>1. (k + q) * m = k * m + q * m
    BY <1>1
  <2>. QED  BY <1>1, <2>1
<1>3. a % m = r
  BY <1>1, <1>2, DivisionIsUnique
<1>. QED  BY <1>3 DEF r

\* What is wrapped before an addition or a subtraction need not be.
LEMMA WrappedSum ==
  ASSUME NEW m \in Nat \ {0}, NEW a \in Int, NEW b \in Int
  PROVE  /\ ((a % m) + b) % m = (a + b) % m
         /\ ((a % m) - b) % m = (a - b) % m
         /\ (b - (a % m)) % m = (b - a) % m
<1> DEFINE q == a \div m
           r == a % m
<1>1. q \in Int /\ r \in 0..(m - 1) /\ a = q * m + r
  OBVIOUS
<1> HIDE DEF q, r
<1>2. (a + b) % m = (r + b) % m
  <2>1. a + b \in Int /\ r + b \in Int /\ a + b = q * m + (r + b)
    BY <1>1
  <2>. QED  BY <1>1, <2>1, SameRemainder
<1>3. (a - b) % m = (r - b) % m
  <2>1. a - b \in Int /\ r - b \in Int /\ a - b = q * m + (r - b)
    BY <1>1
  <2>. QED  BY <1>1, <2>1, SameRemainder
<1>4. (b - a) % m = (b - r) % m
  <2>1. b - a \in Int /\ b - r \in Int /\ -q \in Int
    BY <1>1
  <2>2. (-q) * m = -(q * m)
    BY <1>1
  <2>3. b - a = (-q) * m + (b - r)
    BY <1>1, <2>2
  <2>. QED  BY <2>1, <2>3, SameRemainder
<1>. QED  BY <1>2, <1>3, <1>4 DEF r

\* A number leaves no remainder exactly when it is a multiple.
LEMMA MultiplesLeaveNothing ==
  ASSUME NEW m \in Nat \ {0}, NEW k \in Int
  PROVE  (k * m) % m = 0 /\ (k * m) \div m = k
<1> DEFINE q == (k * m) \div m
<1>1. (k * m) % m = 0
  <2>1. 0 \in 0..(m - 1) /\ k * m + 0 = k * m
    OBVIOUS
  <2>. QED  BY <2>1, DivisionIsUnique
<1>2. q \in Int /\ k * m = q * m + ((k * m) % m)
  OBVIOUS
<1> HIDE DEF q
<1>3. (k - q) * m = 0
  BY <1>1, <1>2
<1>4. k = q
  BY <1>2, <1>3
<1>. QED  BY <1>1, <1>4 DEF q
=============================================================================
