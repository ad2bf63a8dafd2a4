--------------------------- MODULE DiskSpeedProofs ---------------------------
(***************************************************************************)
(* Facts about the arithmetic of DiskSpeed, for every width of the float   *)
(* and of the counters.                                                    *)
(***************************************************************************)
EXTENDS DiskSpeed, Remainders, WellFoundedInduction, TLAPS

(***************************************************************************)
(* A nonempty set of naturals below a bound has a maximum, which Max       *)
(* returns.                                                                *)
(***************************************************************************)
LEMMA MaxOfBounded ==
  ASSUME NEW b \in Nat, NEW S \in SUBSET (0..b), S # {}
  PROVE  Max(S) \in S /\ \A x \in S : x <= Max(S)
<1> DEFINE Gap == {g \in Nat : b - g \in S}
<1>1. Gap \subseteq Nat /\ Gap # {}
  <2>1. PICK x \in S : TRUE
    OBVIOUS
  <2>2. b - x \in Gap
    BY <2>1
  <2>. QED  BY <2>2
<1>2. PICK g \in Gap : \A h \in Gap : ~(<<h, g>> \in OpToRel(<, Nat))
  BY <1>1, WFMin, NatLessThanWellFounded
<1>3. \A x \in S : b - x \in Gap /\ ~(b - x < g)
  <2>1. ASSUME NEW x \in S  PROVE b - x \in Gap
    BY DEF Gap
  <2>. QED  BY <2>1, <1>2 DEF OpToRel
<1>4. b - g \in S /\ \A x \in S : b - g >= x
  BY <1>3
<1>. QED  BY <1>4 DEF Max

(***************************************************************************)
(* The unit in the last place is a positive natural number, at most twice  *)
(* the number over FloatExact, or 1.                                       *)
(***************************************************************************)
LEMMA UlpIsPositive ==
  ASSUME NEW n \in Nat
  PROVE  Ulp(n) \in Units(n) /\ Ulp(n) \in Nat \ {0}
<1> DEFINE b == ((2 * n) \div FloatExact) + 1
<1>1. FloatExact \in Nat \ {0}
  BY WidthsAssumption
<1>2. (2 * n) \div FloatExact \in Nat
  BY <1>1
<1>3. b \in Nat /\ Units(n) \subseteq 1..b /\ Units(n) # {}
  BY <1>2 DEF Units
<1>4. Units(n) \in SUBSET (0..b)
  BY <1>3
<1>. QED  BY <1>3, <1>4, MaxOfBounded DEF Ulp

\* The nearest multiple is a natural number.
LEMMA MultipleIsNatural ==
  ASSUME NEW n \in Nat, NEW u \in Nat \ {0}
  PROVE  NearestMultiple(n, u) \in Nat
<1>1. n \div u \in Nat
  OBVIOUS
<1>2. \A q \in Nat : q * u \in Nat
  OBVIOUS
<1>. QED  BY <1>1, <1>2 DEF NearestMultiple

(***************************************************************************)
(* The nearest multiple is one, and within half a unit of the number.      *)
(***************************************************************************)
LEMMA MultipleIsNear ==
  ASSUME NEW n \in Nat, NEW u \in Nat \ {0}
  PROVE  \E k \in Nat : /\ NearestMultiple(n, u) = k * u
                        /\ 2 * (n - k * u) <= u
                        /\ 2 * (k * u - n) <= u
<1> DEFINE q == n \div u
           r == n % u
<1>1. q \in Nat /\ r \in 0..(u - 1) /\ n = q * u + r
  OBVIOUS
<1>2. NearestMultiple(n, u) =
        IF 2 * r < u \/ (2 * r = u /\ q % 2 = 0) THEN q * u ELSE (q + 1) * u
  BY DEF NearestMultiple
<1> HIDE DEF q, r
<1>3. (q + 1) * u = q * u + u /\ q * u \in Nat
  BY <1>1
<1>4. CASE 2 * r < u \/ (2 * r = u /\ q % 2 = 0)
  <2>1. NearestMultiple(n, u) = q * u
    BY <1>2, <1>4
  <2>2. 2 * (n - q * u) <= u /\ 2 * (q * u - n) <= u
    BY <1>1, <1>3, <1>4
  <2>. QED  BY <1>1, <2>1, <2>2
<1>5. CASE ~(2 * r < u \/ (2 * r = u /\ q % 2 = 0))
  <2>1. NearestMultiple(n, u) = (q + 1) * u
    BY <1>2, <1>5
  <2>2. 2 * (n - (q + 1) * u) <= u /\ 2 * ((q + 1) * u - n) <= u
    BY <1>1, <1>3, <1>5
  <2>3. q + 1 \in Nat
    BY <1>1
  <2>. QED  BY <2>1, <2>2, <2>3
<1>. QED  BY <1>4, <1>5

\* So is a float.
LEMMA FloatIsNatural ==
  ASSUME NEW n \in Nat
  PROVE  Float(n) \in Nat
BY UlpIsPositive, MultipleIsNatural DEF Float

(***************************************************************************)
(* The samples and the speeds of a cycle have the types of their fields.   *)
(***************************************************************************)
Counters == [blocks : Nat, time : Nat]

Samples == [bytes : Nat, time : Nat]

Quotients == [bytes : Nat, ms : Nat]

\* Bytes and time of a sample are natural numbers,
LEMMA SampleType ==
  ASSUME NEW c \in Counters, NEW b \in Nat
  PROVE  Sample(c, b) \in Samples
<1>1. Float(c.blocks) \in Nat
  BY FloatIsNatural DEF Counters
<1>2. Float(c.blocks) * b \in Nat
  BY <1>1
<1>3. Bytes(c.blocks, b) \in Nat
  BY <1>2, FloatIsNatural DEF Bytes
<1>. QED  BY <1>3 DEF Sample, Samples, Counters

\* and so are those of a speed.
LEMMA CycleSpeedType ==
  ASSUME NEW now \in Samples, NEW saved \in Samples
  PROVE  CycleSpeed(now, saved) \in Quotients
<1>1. Gain(now.bytes, saved.bytes) \in Nat
  BY FloatIsNatural DEF Gain, Samples
<1>2. TimeModulus \in Nat \ {0}
  BY WidthsAssumption
<1>3. (now.time - saved.time) \in Int
  BY DEF Samples
<1>4. (now.time - saved.time) % TimeModulus \in Nat
  BY <1>2, <1>3
<1>5. Elapsed(now.time, saved.time) \in Nat
  BY <1>4, FloatIsNatural DEF Elapsed
<1>. QED  BY <1>1, <1>5 DEF CycleSpeed, Quotient, NoSpeed, Quotients

-----------------------------------------------------------------------------
(***************************************************************************)
(* Powers of two, which the units in the last place are: they are closed   *)
(* under halves and products, and the smaller of two divides the larger.   *)
(***************************************************************************)
Powers == {u \in Nat \ {0} : IsPowerOfTwo(u)}

\* A nonempty set of naturals has a smallest element.
LEMMA SmallestOf ==
  ASSUME NEW S \in SUBSET Nat, S # {}
  PROVE  \E n \in S : \A m \in S : n <= m
<1>1. PICK n \in S : \A m \in S : ~(<<m, n>> \in OpToRel(<, Nat))
  BY WFMin, NatLessThanWellFounded
<1>2. \A m \in S : ~(m < n)
  BY <1>1 DEF OpToRel
<1>3. \A m \in S : n <= m
  BY <1>2
<1>. QED  BY <1>3

\* Every divisor of a power of two but 1 is even,
LEMMA DivisorIsEven ==
  ASSUME NEW u \in Powers, NEW d \in Nat \ {0}, NEW q \in Nat, u = q * d, d # 1
  PROVE  d % 2 = 0
<1>1. u \in Nat \ {0} /\ IsPowerOfTwo(u)
  BY DEF Powers
<1>2. q # 0
  <2>1. q = 0 => u = 0
    OBVIOUS
  <2>. QED  BY <1>1, <2>1
<1>3. q * d >= d
  BY <1>2
<1>4. d \in 2..u
  BY <1>1, <1>3
<1>5. u % d = 0
  BY MultiplesLeaveNothing
<1>. QED  BY <1>1, <1>4, <1>5 DEF IsPowerOfTwo

\* and that makes a number one.
LEMMA PowerByDivisors ==
  ASSUME NEW u \in Nat \ {0},
         \A d \in Nat \ {0}, q \in Nat : u = q * d /\ d # 1 => d % 2 = 0
  PROVE  u \in Powers
<1>1. ASSUME NEW d \in 2..u, u % d = 0  PROVE d % 2 = 0
  <2> DEFINE q == u \div d
  <2>1. q \in Nat /\ u = q * d + (u % d)
    OBVIOUS
  <2>2. u = q * d /\ d # 1 /\ d \in Nat \ {0}
    BY <1>1, <2>1
  <2>. QED  BY <2>1, <2>2
<1>. QED  BY <1>1 DEF Powers, IsPowerOfTwo

\* A power of two but 1 is twice another,
LEMMA PowerHalf ==
  ASSUME NEW u \in Powers, u # 1
  PROVE  \E h \in Powers : u = 2 * h /\ h < u
<1>1. u \in Nat \ {0}
  BY DEF Powers
<1>2. u % 2 = 0
  <2>1. u = 1 * u /\ 1 \in Nat
    BY <1>1
  <2>. QED  BY <1>1, <2>1, DivisorIsEven
<1>3. PICK h \in Nat \ {0} : u = 2 * h
  BY <1>1, <1>2
<1>4. ASSUME NEW d \in Nat \ {0}, NEW q \in Nat, h = q * d, d # 1
      PROVE  d % 2 = 0
  <2>1. u = (2 * q) * d /\ 2 * q \in Nat
    BY <1>3, <1>4
  <2>. QED  BY <1>4, <2>1, DivisorIsEven
<1>5. h \in Powers
  BY <1>4, PowerByDivisors
<1>. QED  BY <1>3, <1>5

\* and so is every double.
LEMMA PowerDouble ==
  ASSUME NEW u \in Powers
  PROVE  2 * u \in Powers
<1>1. u \in Nat \ {0}
  BY DEF Powers
<1>2. ASSUME NEW d \in Nat \ {0}, NEW q \in Nat, 2 * u = q * d, d # 1
      PROVE  d % 2 = 0
  <2> SUFFICES ASSUME d % 2 # 0  PROVE FALSE
    OBVIOUS
  <2>1. PICK e \in Nat : d = 2 * e + 1
    OBVIOUS
  <2>2. q = 2 * (u - q * e)
    <3>1. q * d = 2 * (q * e) + q
      BY <2>1
    <3>. QED  BY <1>1, <1>2, <2>1, <3>1
  <2>3. u = (u - q * e) * d /\ u - q * e \in Int
    <3>1. u - q * e \in Int
      BY <1>1, <2>1
    <3>2. 2 * u = 2 * ((u - q * e) * d)
      <4>1. q * d = (2 * (u - q * e)) * d
        BY <2>2
      <4>2. (2 * (u - q * e)) * d = 2 * ((u - q * e) * d)
        BY <3>1
      <4>. QED  BY <1>2, <4>1, <4>2
    <3>3. (u - q * e) * d \in Int
      BY <3>1
    <3>. QED  BY <1>1, <3>1, <3>2, <3>3
  <2>4. u - q * e \in Nat
    BY <2>2, <2>3
  <2>. QED  BY <1>2, <2>3, <2>4, DivisorIsEven
<1>. QED  BY <1>1, <1>2, PowerByDivisors

\* The smaller of two powers divides the larger,
LEMMA PowerDivides ==
  ASSUME NEW a \in Powers, NEW b \in Powers, a <= b
  PROVE  \E q \in Nat \ {0} : b = q * a
<1> DEFINE Divides(c, e) == \E q \in Nat \ {0} : e = q * c
           S == {e \in Powers : \E c \in Powers : c <= e /\ ~Divides(c, e)}
<1>1. Powers \subseteq Nat \ {0}
  BY DEF Powers
<1>2. S = {}
  <2> SUFFICES ASSUME S # {}  PROVE FALSE
    OBVIOUS
  <2>1. S \in SUBSET Nat
    BY <1>1
  <2> HIDE DEF S
  <2>2. PICK e \in S : \A f \in S : e <= f
    BY <2>1, SmallestOf
  <2>3. PICK c \in Powers : c <= e /\ ~Divides(c, e)
    BY <2>2 DEF S
  <2>4. c # 1 /\ e # 1
    <3>1. e \in Nat \ {0} /\ c \in Nat \ {0} /\ e = e * 1
      BY <1>1, <2>2 DEF S
    <3>2. c # 1
      BY <2>3, <3>1
    <3>. QED  BY <2>3, <3>1, <3>2
  <2>5. PICK g \in Powers : c = 2 * g /\ g < c
    BY <2>4, PowerHalf
  <2>6. PICK h \in Powers : e = 2 * h /\ h < e
    BY <2>2, <2>4, PowerHalf DEF S
  <2>7. g <= h
    BY <1>1, <2>3, <2>5, <2>6
  <2>8. h \notin S
    BY <1>1, <2>1, <2>2, <2>6
  <2>9. PICK q \in Nat \ {0} : h = q * g
    BY <2>7, <2>8 DEF S
  <2>10. e = q * c
    BY <1>1, <2>5, <2>6, <2>9
  <2>. QED  BY <2>3, <2>9, <2>10
<1>. QED  BY <1>2

\* so that no power lies between another and its double,
LEMMA PowerBelow ==
  ASSUME NEW a \in Powers, NEW b \in Powers, a < 2 * b
  PROVE  a <= b
<1>1. a \in Nat \ {0} /\ b \in Nat \ {0}
  BY DEF Powers
<1> SUFFICES ASSUME b < a  PROVE FALSE
  BY <1>1
<1>2. PICK q \in Nat \ {0} : a = q * b
  BY <1>1, PowerDivides
<1>3. q # 1
  BY <1>1, <1>2
<1>4. q * b >= 2 * b
  BY <1>1, <1>3
<1>. QED  BY <1>1, <1>2, <1>4

\* and the product of two is one.
LEMMA PowerProduct ==
  ASSUME NEW a \in Powers, NEW b \in Powers
  PROVE  a * b \in Powers
<1> DEFINE S == {e \in Powers : e * b \notin Powers}
<1>1. Powers \subseteq Nat \ {0}
  BY DEF Powers
<1>2. S = {}
  <2> SUFFICES ASSUME S # {}  PROVE FALSE
    OBVIOUS
  <2>1. S \in SUBSET Nat
    BY <1>1
  <2> HIDE DEF S
  <2>2. PICK e \in S : \A f \in S : e <= f
    BY <2>1, SmallestOf
  <2>3. e # 1
    <3>1. 1 * b = b
      BY <1>1
    <3>. QED  BY <2>2, <3>1 DEF S
  <2>4. PICK h \in Powers : e = 2 * h /\ h < e
    BY <2>2, <2>3, PowerHalf DEF S
  <2>5. h \notin S
    BY <1>1, <2>1, <2>2, <2>4
  <2>6. h * b \in Powers
    BY <2>5 DEF S
  <2>7. e * b = 2 * (h * b)
    BY <1>1, <2>4
  <2>. QED  BY <2>2, <2>6, <2>7, PowerDouble DEF S
<1>. QED  BY <1>2

-----------------------------------------------------------------------------
(***************************************************************************)
(* The unit in the last place is the largest power of two with             *)
(* FloatExact * u <= 2 * n, or 1: every other is smaller, and n is a       *)
(* number of them below FloatExact.                                        *)
(***************************************************************************)
LEMMA UlpBounds ==
  ASSUME NEW n \in Nat
  PROVE  /\ Ulp(n) \in Powers
         /\ Ulp(n) = 1 \/ FloatExact * Ulp(n) <= 2 * n
         /\ \A v \in Powers : FloatExact * v <= 2 * n => v <= Ulp(n)
         /\ n < FloatExact * Ulp(n)
<1> DEFINE u == Ulp(n)
           b == ((2 * n) \div FloatExact) + 1
<1>1. FloatExact \in Nat \ {0} /\ u \in Units(n) /\ u \in Nat \ {0}
  BY WidthsAssumption, UlpIsPositive
<1>2. \A v \in Nat \ {0} : v <= (2 * n) \div FloatExact <=> FloatExact * v <= 2 * n
  <2> DEFINE m == 2 * n
             q == m \div FloatExact
             r == m % FloatExact
  <2>1. /\ q \in Nat /\ r \in 0..(FloatExact - 1)
        /\ m = q * FloatExact + r /\ m = 2 * n
    BY <1>1
  <2> HIDE DEF m, q, r
  <2> SUFFICES ASSUME NEW v \in Nat \ {0}
               PROVE  v <= q <=> FloatExact * v <= 2 * n
    BY DEF q, m
  <2>2. v <= q => FloatExact * v <= q * FloatExact
    BY <1>1, <2>1
  <2>3. v >= q + 1 => FloatExact * v >= (q + 1) * FloatExact
    BY <1>1, <2>1
  <2>4. (q + 1) * FloatExact = q * FloatExact + FloatExact
    BY <1>1, <2>1
  <2>. QED  BY <1>1, <2>1, <2>2, <2>3, <2>4
<1>3. 1 \in Powers
  BY DEF Powers, IsPowerOfTwo
<1>4. /\ u \in Powers
      /\ u = 1 \/ FloatExact * u <= 2 * n
  BY <1>1, <1>2, <1>3 DEF Units, Powers
<1>5. \A v \in Units(n) : v <= u
  <2>1. (2 * n) \div FloatExact \in Nat
    BY <1>1
  <2>2. b \in Nat /\ Units(n) \in SUBSET (0..b) /\ Units(n) # {}
    BY <2>1 DEF Units
  <2>. QED  BY <2>2, MaxOfBounded DEF Ulp
<1>6. ASSUME NEW v \in Powers, FloatExact * v <= 2 * n
      PROVE  v <= u
  <2>1. v \in Nat \ {0} /\ IsPowerOfTwo(v)
    BY DEF Powers
  <2>2. v \in Units(n)
    BY <1>1, <1>2, <1>6, <2>1 DEF Units
  <2>. QED  BY <1>5, <2>2
<1>7. n < FloatExact * u
  <2> SUFFICES ASSUME FloatExact * u <= n  PROVE FALSE
    BY <1>1
  <2>1. FloatExact * (2 * u) <= 2 * n
    BY <1>1
  <2>2. 2 * u <= u
    BY <1>4, <1>6, <2>1, PowerDouble
  <2>. QED  BY <1>1, <2>2
<1>. QED  BY <1>4, <1>6, <1>7

\* It grows with the number.
LEMMA UlpGrows ==
  ASSUME NEW n \in Nat, NEW m \in Nat, m <= n
  PROVE  Ulp(m) <= Ulp(n)
<1>1. /\ Ulp(m) \in Powers
      /\ Ulp(m) = 1 \/ FloatExact * Ulp(m) <= 2 * m
  BY UlpBounds
<1>2. CASE Ulp(m) = 1
  BY <1>2, UlpIsPositive
<1>3. CASE FloatExact * Ulp(m) <= 2 * m
  <2>1. Ulp(m) \in Nat /\ FloatExact \in Nat
    BY UlpIsPositive, WidthsAssumption
  <2>2. FloatExact * Ulp(m) <= 2 * n
    BY <1>3, <2>1
  <2>. QED  BY <1>1, <2>2, UlpBounds
<1>. QED  BY <1>1, <1>2, <1>3

(***************************************************************************)
(* A float is a number of units below or at FloatExact, half a unit at     *)
(* most from the number it stands for.                                     *)
(***************************************************************************)
LEMMA FloatIsNear ==
  ASSUME NEW n \in Nat
  PROVE  \E k \in 0..FloatExact : /\ Float(n) = k * Ulp(n)
                                  /\ 2 * (n - k * Ulp(n)) <= Ulp(n)
                                  /\ 2 * (k * Ulp(n) - n) <= Ulp(n)
<1> DEFINE u == Ulp(n)
<1>1. FloatExact \in Nat \ {0} /\ u \in Nat \ {0}
  BY WidthsAssumption, UlpIsPositive
<1>2. /\ u = 1 \/ FloatExact * u <= 2 * n
      /\ n < FloatExact * u
  BY UlpBounds
<1>3. Float(n) = IF n < FloatExact THEN n ELSE NearestMultiple(n, u)
  BY DEF Float
<1> HIDE DEF u
<1>4. CASE n < FloatExact
  <2>1. u = 1
    <3>1. u >= 2 => FloatExact * u >= FloatExact * 2
      BY <1>1
    <3>. QED  BY <1>1, <1>2, <1>4, <3>1
  <2>2. n \in 0..FloatExact /\ n * u = n
    BY <1>1, <1>4, <2>1
  <2>. QED  BY <1>3, <1>4, <2>1, <2>2 DEF u
<1>5. CASE ~(n < FloatExact)
  <2>1. PICK k \in Nat : /\ NearestMultiple(n, u) = k * u
                         /\ 2 * (n - k * u) <= u
                         /\ 2 * (k * u - n) <= u
    BY <1>1, MultipleIsNear
  <2>2. k <= FloatExact
    <3>1. k >= FloatExact + 1 => k * u >= (FloatExact + 1) * u
      BY <1>1
    <3>2. (FloatExact + 1) * u = FloatExact * u + u
      BY <1>1
    <3>3. k * u \in Nat /\ FloatExact * u \in Nat
      BY <1>1
    <3>. QED  BY <1>1, <1>2, <2>1, <3>1, <3>2, <3>3
  <2>3. k \in 0..FloatExact /\ Float(n) = k * u
    BY <1>1, <1>3, <1>5, <2>1, <2>2
  <2>. QED  BY <2>1, <2>3 DEF u
<1>. QED  BY <1>4, <1>5

(***************************************************************************)
(* A number of at most FloatExact powers of two is a float, when           *)
(* FloatExact is even, as the powers of two that it is for are.            *)
(***************************************************************************)
LEMMA FloatOfMultiple ==
  ASSUME FloatExact % 2 = 0, NEW w \in Powers, NEW k \in 0..FloatExact
  PROVE  Float(k * w) = k * w
<1> DEFINE x == k * w
           u == Ulp(x)
<1>1. FloatExact \in Nat \ {0} /\ w \in Nat \ {0} /\ k \in Nat /\ k <= FloatExact /\ x \in Nat
  BY WidthsAssumption DEF Powers
<1>2. u \in Nat \ {0} /\ u \in Powers /\ (u = 1 \/ FloatExact * u <= 2 * x)
  BY <1>1, UlpIsPositive, UlpBounds
<1>3. Float(x) = IF x < FloatExact THEN x ELSE NearestMultiple(x, u)
  BY DEF Float
<1> HIDE DEF u
<1>4. \E q \in Nat : x = q * u
  <2>1. CASE u <= w
    <3>1. PICK p \in Nat : w = p * u
      BY <1>2, <2>1, PowerDivides
    <3>2. x = (k * p) * u /\ k * p \in Nat
      BY <1>1, <1>2, <3>1
    <3>. QED  BY <3>2
  <2>2. CASE w < u
    <3>1. FloatExact * u <= 2 * x
      BY <1>1, <1>2, <2>2
    <3>2. PICK p \in Nat \ {0} : u = p * w
      BY <1>1, <1>2, <2>2, PowerDivides
    <3>3. p >= 2
      BY <1>1, <2>2, <3>2
    <3>4. FloatExact * p <= 2 * k
      <4>1. (FloatExact * p) * w <= (2 * k) * w
        BY <1>1, <3>1, <3>2
      <4>2. FloatExact * p \in Nat /\ 2 * k \in Nat
        BY <1>1
      <4>3. \A a, b \in Nat : a * w <= b * w => a <= b
        BY <1>1
      <4>. QED  BY <4>1, <4>2, <4>3
    <3>5. FloatExact * p >= FloatExact * 2
      BY <1>1, <3>3
    <3>6. k = FloatExact /\ p = 2
      <4>1. k = FloatExact
        BY <1>1, <3>4, <3>5
      <4>2. p >= 3 => FloatExact * p >= FloatExact * 3
        BY <1>1
      <4>. QED  BY <1>1, <3>3, <3>4, <4>1, <4>2
    <3>7. PICK h \in Nat : FloatExact = 2 * h
      BY <1>1
    <3>8. x = h * u
      BY <1>1, <3>2, <3>6, <3>7
    <3>. QED  BY <3>8
  <2>. QED  BY <1>1, <1>2, <2>1, <2>2
<1>5. PICK q \in Nat : x = q * u
  BY <1>4
<1> HIDE DEF x
<1>6. x % u = 0 /\ x \div u = q
  BY <1>2, <1>5, MultiplesLeaveNothing
<1>7. NearestMultiple(x, u) = q * u
  BY <1>2, <1>6 DEF NearestMultiple
<1>. QED  BY <1>3, <1>5, <1>7 DEF x

=============================================================================
