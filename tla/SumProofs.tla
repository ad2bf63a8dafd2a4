------------------------------- MODULE SumProofs -------------------------------
(***************************************************************************)
(* Facts about sums over finite sets: that the recursion they are defined  *)
(* by has a solution, that the order of the summands does not matter, and  *)
(* how sums compare.  Induction is by the smallest set for which a claim   *)
(* would fail.                                                             *)
(***************************************************************************)
EXTENDS Sums, Remainders, FiniteSetTheorems, WellFoundedInduction, TLAPS

(***************************************************************************)
(* Among the subsets of a finite set, a nonempty collection has one of     *)
(* which no other is a part.                                               *)
(***************************************************************************)
LEMMA SmallestSubset ==
  ASSUME NEW S, IsFiniteSet(S), NEW C \in SUBSET (SUBSET S), C # {}
  PROVE  \E T \in C : \A U \in C : U \subseteq T => U = T
<1>1. IsWellFoundedOn(StrictSubsetOrdering(S), SUBSET S)
  BY FS_StrictSubsetOrderingWellFounded, FS_FiniteSubsetsOfFinite
<1>2. PICK T \in C : \A U \in C : ~(<<U, T>> \in StrictSubsetOrdering(S))
  BY <1>1, WFMin
<1>3. ASSUME NEW U \in C, U \subseteq T  PROVE U = T
  BY <1>2, <1>3 DEF StrictSubsetOrdering
<1>. QED  BY <1>3

-----------------------------------------------------------------------------
(***************************************************************************)
(* The element a sum takes next, and the recursion, as a property of a     *)
(* function on the subsets of S.                                           *)
(***************************************************************************)
Pick(T) == CHOOSE x \in T : TRUE

Remaining(T) == T \ { Pick(T) }

IsSum(f, S, h) ==
  h = [T \in SUBSET S |-> IF T = {} THEN 0 ELSE f[Pick(T)] + h[Remaining(T)]]

Solution(f, S) == CHOOSE h : IsSum(f, S, h)

\* The library's sum is the value of the solution.
LEMMA SumIsSolution ==
  ASSUME NEW f, NEW S
  PROVE  Sum(f, S) = Solution(f, S)[S]
BY DEF Sum, MapThenSumSet, MapThenFoldSet, Solution, IsSum, Pick, Remaining

\* What remains of a set is a smaller one.
LEMMA RemainingIsLess ==
  ASSUME NEW T, T # {}
  PROVE  Pick(T) \in T /\ Remaining(T) \subseteq T /\ Remaining(T) # T
BY DEF Pick, Remaining

\* There is at most one solution on a finite set,
LEMMA SolutionIsUnique ==
  ASSUME NEW f, NEW S, IsFiniteSet(S), NEW g, NEW h, IsSum(f, S, g), IsSum(f, S, h)
  PROVE  g = h
<1> DEFINE C == { T \in SUBSET S : g[T] # h[T] }
<1>1. C = {}
  <2> SUFFICES ASSUME C # {}  PROVE FALSE
    OBVIOUS
  <2>0. C \in SUBSET (SUBSET S)
    OBVIOUS
  <2> HIDE DEF C
  <2>1. PICK T \in C : \A U \in C : U \subseteq T => U = T
    BY <2>0, SmallestSubset
  <2> USE DEF C
  <2>2. T # {}
    BY <2>1 DEF IsSum
  <2>3. Remaining(T) \in SUBSET S /\ Remaining(T) \notin C
    BY <2>1, <2>2, RemainingIsLess
  <2>4. g[T] = f[Pick(T)] + g[Remaining(T)] /\ h[T] = f[Pick(T)] + h[Remaining(T)]
    BY <2>2 DEF IsSum
  <2>. QED  BY <2>1, <2>3, <2>4
<1>2. \A T \in SUBSET S : g[T] = h[T]
  BY <1>1
<1>. QED  BY <1>2 DEF IsSum

\* A solution on the subsets of S is one on those of each of them.
LEMMA SolutionRestricts ==
  ASSUME NEW f, NEW S, NEW h, IsSum(f, S, h), NEW R \in SUBSET S
  PROVE  IsSum(f, R, [T \in SUBSET R |-> h[T]])
<1> DEFINE r == [T \in SUBSET R |-> h[T]]
<1>1. ASSUME NEW T \in SUBSET R
      PROVE  h[T] = IF T = {} THEN 0 ELSE f[Pick(T)] + r[Remaining(T)]
  <2>1. h[T] = IF T = {} THEN 0 ELSE f[Pick(T)] + h[Remaining(T)]
    BY DEF IsSum
  <2>2. T # {} => Remaining(T) \in SUBSET R
    BY RemainingIsLess
  <2>. QED  BY <2>1, <2>2
<1>2. r = [T \in SUBSET R |-> IF T = {} THEN 0 ELSE f[Pick(T)] + r[Remaining(T)]]
  BY <1>1
<1>. QED  BY <1>2 DEF IsSum

\* and there is one.
LEMMA SolutionExists ==
  ASSUME NEW f, NEW S, IsFiniteSet(S)
  PROVE  IsSum(f, S, Solution(f, S))
<1> DEFINE C == { T \in SUBSET S : ~ \E h : IsSum(f, T, h) }
<1>1. ASSUME C # {}  PROVE FALSE
  <2>0. C \in SUBSET (SUBSET S)
    OBVIOUS
  <2> HIDE DEF C
  <2>1. PICK T \in C : \A U \in C : U \subseteq T => U = T
    BY <1>1, <2>0, SmallestSubset
  <2> USE DEF C
  <2>2. ASSUME NEW U \in SUBSET T, U # T
        PROVE  IsSum(f, U, Solution(f, U)) /\ IsFiniteSet(U)
    <3>1. \E h : IsSum(f, U, h)
      BY <2>1, <2>2
    <3>. QED  BY <3>1, FS_Subset DEF Solution
  <2> DEFINE value(U) == Solution(f, U)[U]
             h == [U \in SUBSET T |->
                     IF U = {} THEN 0 ELSE f[Pick(U)] + value(Remaining(U))]
  <2>3. ASSUME NEW U \in SUBSET T, U # T  PROVE h[U] = value(U)
    <3>1. IsSum(f, U, Solution(f, U)) /\ IsFiniteSet(U)
      BY <2>2, <2>3
    <3>2. value(U) = IF U = {} THEN 0 ELSE f[Pick(U)] + Solution(f, U)[Remaining(U)]
      BY <3>1 DEF IsSum
    <3>3. CASE U = {}
      BY <3>2, <3>3
    <3>4. CASE U # {}
      <4>1. Remaining(U) \in SUBSET U /\ Remaining(U) \in SUBSET T /\ Remaining(U) # T
        BY <3>4, RemainingIsLess
      <4>2. IsSum(f, Remaining(U), Solution(f, Remaining(U))) /\ IsFiniteSet(Remaining(U))
        BY <2>2, <4>1
      <4>3. IsSum(f, Remaining(U), [V \in SUBSET Remaining(U) |-> Solution(f, U)[V]])
        BY <3>1, <4>1, SolutionRestricts
      <4>4. Solution(f, Remaining(U)) = [V \in SUBSET Remaining(U) |-> Solution(f, U)[V]]
        BY <4>2, <4>3, SolutionIsUnique
      <4>5. value(Remaining(U)) = Solution(f, U)[Remaining(U)]
        BY <4>4
      <4>. QED  BY <3>2, <3>4, <4>5
    <3>. QED  BY <3>3, <3>4
  <2>4. ASSUME NEW U \in SUBSET T
        PROVE  h[U] = IF U = {} THEN 0 ELSE f[Pick(U)] + h[Remaining(U)]
    <3>1. U # {} => Remaining(U) \in SUBSET T /\ Remaining(U) # T
      BY RemainingIsLess
    <3>2. U # {} => h[Remaining(U)] = value(Remaining(U))
      BY <2>3, <3>1
    <3>. QED  BY <3>2
  <2>5. h = [U \in SUBSET T |-> IF U = {} THEN 0 ELSE f[Pick(U)] + h[Remaining(U)]]
    BY <2>4
  <2>6. IsSum(f, T, h)
    BY <2>5 DEF IsSum
  <2>. QED  BY <2>1, <2>6
<1>2. \E h : IsSum(f, S, h)
  BY <1>1
<1>. QED  BY <1>2 DEF Solution

-----------------------------------------------------------------------------
(***************************************************************************)
(* What a sum is, one summand at a time, taken in the order of Pick.       *)
(***************************************************************************)
LEMMA SumEmpty == ASSUME NEW f PROVE Sum(f, {}) = 0
<1>1. IsSum(f, {}, Solution(f, {}))
  BY SolutionExists, FS_EmptySet
<1>. QED  BY <1>1, SumIsSolution DEF IsSum

\* So the sum on a set is that on what remains, and the value of the one picked.
LEMMA SumPicks ==
  ASSUME NEW f, NEW S, IsFiniteSet(S), S # {}
  PROVE  Sum(f, S) = f[Pick(S)] + Sum(f, Remaining(S))
<1> DEFINE h == Solution(f, S)
           r == [T \in SUBSET Remaining(S) |-> h[T]]
<1>1. IsSum(f, S, h)
  BY SolutionExists
<1>2. Remaining(S) \in SUBSET S /\ IsFiniteSet(Remaining(S))
  BY RemainingIsLess, FS_Subset
<1>3. IsSum(f, Remaining(S), r)
  BY <1>1, <1>2, SolutionRestricts
<1>4. IsSum(f, Remaining(S), Solution(f, Remaining(S)))
  BY <1>2, SolutionExists
<1>5. Solution(f, Remaining(S)) = r
  BY <1>2, <1>3, <1>4, SolutionIsUnique
<1>6. Sum(f, Remaining(S)) = h[Remaining(S)]
  BY <1>5, SumIsSolution
<1>7. h[S] = f[Pick(S)] + h[Remaining(S)]
  BY <1>1 DEF IsSum
<1>. QED  BY <1>6, <1>7, SumIsSolution

\* A sum of integers is an integer.
LEMMA SumType ==
  ASSUME NEW f, NEW S, IsFiniteSet(S), \A x \in S : f[x] \in Int
  PROVE  Sum(f, S) \in Int
<1> DEFINE C == { T \in SUBSET S : Sum(f, T) \notin Int }
<1>1. ASSUME C # {}  PROVE FALSE
  <2>0. C \in SUBSET (SUBSET S)
    OBVIOUS
  <2> HIDE DEF C
  <2>1. PICK T \in C : \A U \in C : U \subseteq T => U = T
    BY <1>1, <2>0, SmallestSubset
  <2> USE DEF C
  <2>2. T # {}
    BY SumEmpty
  <2>3. Remaining(T) \in SUBSET S /\ Remaining(T) \notin C /\ Pick(T) \in S
    BY <2>1, <2>2, RemainingIsLess
  <2>4. Sum(f, T) = f[Pick(T)] + Sum(f, Remaining(T))
    BY <2>2, SumPicks, FS_Subset
  <2>. QED  BY <2>3, <2>4
<1>. QED  BY <1>1

(***************************************************************************)
(* The order does not matter: any summand can be taken out.                *)
(***************************************************************************)
LEMMA SumRemove ==
  ASSUME NEW f, NEW S, IsFiniteSet(S), \A x \in S : f[x] \in Int, NEW y \in S
  PROVE  Sum(f, S) = f[y] + Sum(f, S \ {y})
<1> DEFINE C == { T \in SUBSET S :
                    \E x \in T : Sum(f, T) # f[x] + Sum(f, T \ {x}) }
<1>1. ASSUME C # {}  PROVE FALSE
  <2>0. C \in SUBSET (SUBSET S)
    OBVIOUS
  <2> HIDE DEF C
  <2>1. PICK T \in C : \A U \in C : U \subseteq T => U = T
    BY <1>1, <2>0, SmallestSubset
  <2> USE DEF C
  <2>2. PICK x \in T : Sum(f, T) # f[x] + Sum(f, T \ {x})
    BY <2>1
  <2>3. /\ T \in SUBSET S /\ IsFiniteSet(T) /\ T # {}
        /\ Pick(T) \in T /\ Remaining(T) \subseteq T /\ Remaining(T) # T
        /\ Remaining(T) \notin C
    BY <2>1, <2>2, RemainingIsLess, FS_Subset
  <2>4. Sum(f, T) = f[Pick(T)] + Sum(f, Remaining(T))
    BY <2>3, SumPicks
  <2>5. x # Pick(T)
    BY <2>2, <2>4 DEF Remaining
  <2> DEFINE W == T \ {x}
             V == Remaining(T) \ {x}
  <2>6. /\ x \in Remaining(T) /\ Pick(T) \in W /\ W \ {Pick(T)} = V
        /\ W \in SUBSET S /\ W \subseteq T /\ W # T /\ W \notin C
    BY <2>1, <2>2, <2>3, <2>5 DEF Remaining
  <2>7. Sum(f, Remaining(T)) = f[x] + Sum(f, V)
    BY <2>3, <2>6
  <2>8. Sum(f, W) = f[Pick(T)] + Sum(f, V)
    BY <2>6
  <2>9. Sum(f, V) \in Int
    <3>1. V \subseteq S /\ IsFiniteSet(V)
      BY <2>3, FS_Subset
    <3>. QED  BY <3>1, SumType
  <2>10. f[x] \in Int /\ f[Pick(T)] \in Int
    BY <2>3
  <2>. QED  BY <2>2, <2>4, <2>7, <2>8, <2>9, <2>10
<1>. QED  BY <1>1

(***************************************************************************)
(* Comparisons of sums, each by taking the same summand from both.         *)
(***************************************************************************)
\* Functions that agree on a set have the same sum.
LEMMA SumCongruent ==
  ASSUME NEW f, NEW g, NEW S, IsFiniteSet(S), \A x \in S : f[x] = g[x]
  PROVE  Sum(f, S) = Sum(g, S)
<1> DEFINE C == { T \in SUBSET S : Sum(f, T) # Sum(g, T) }
<1>1. ASSUME C # {}  PROVE FALSE
  <2>0. C \in SUBSET (SUBSET S)
    OBVIOUS
  <2> HIDE DEF C
  <2>1. PICK T \in C : \A U \in C : U \subseteq T => U = T
    BY <1>1, <2>0, SmallestSubset
  <2> USE DEF C
  <2>2. T # {}
    BY <2>1, SumEmpty
  <2>3. /\ Remaining(T) \in SUBSET S /\ Remaining(T) \notin C /\ Pick(T) \in S
        /\ T \in SUBSET S /\ IsFiniteSet(T)
    BY <2>1, <2>2, RemainingIsLess, FS_Subset
  <2>4. Sum(f, T) = f[Pick(T)] + Sum(f, Remaining(T)) /\ Sum(g, T) = g[Pick(T)] + Sum(g, Remaining(T))
    BY <2>2, <2>3, SumPicks
  <2>. QED  BY <2>1, <2>3, <2>4
<1>. QED  BY <1>1

\* A smaller function has a smaller sum.
LEMMA SumMonotone ==
  ASSUME NEW f, NEW g, NEW S, IsFiniteSet(S),
         \A x \in S : f[x] \in Int /\ g[x] \in Int /\ f[x] <= g[x]
  PROVE  Sum(f, S) <= Sum(g, S)
<1> DEFINE C == { T \in SUBSET S : ~(Sum(f, T) <= Sum(g, T)) }
<1>1. ASSUME C # {}  PROVE FALSE
  <2>0. C \in SUBSET (SUBSET S)
    OBVIOUS
  <2> HIDE DEF C
  <2>1. PICK T \in C : \A U \in C : U \subseteq T => U = T
    BY <1>1, <2>0, SmallestSubset
  <2> USE DEF C
  <2>2. T # {}
    <3>1. T = {} => Sum(f, T) = 0 /\ Sum(g, T) = 0
      BY SumEmpty
    <3>. QED  BY <2>1, <3>1
  <2>3. /\ Remaining(T) \in SUBSET S /\ Remaining(T) \notin C /\ Pick(T) \in S
        /\ T \in SUBSET S /\ IsFiniteSet(T)
    BY <2>1, <2>2, RemainingIsLess, FS_Subset
  <2>4. Sum(f, T) = f[Pick(T)] + Sum(f, Remaining(T)) /\ Sum(g, T) = g[Pick(T)] + Sum(g, Remaining(T))
    BY <2>2, <2>3, SumPicks
  <2>5. Sum(f, Remaining(T)) \in Int /\ Sum(g, Remaining(T)) \in Int
    <3>1. IsFiniteSet(Remaining(T))
      BY <2>3, FS_Subset
    <3>. QED  BY <2>3, <3>1, SumType
  <2>. QED  BY <2>1, <2>3, <2>4, <2>5
<1>. QED  BY <1>1

\* What is wrapped before it is added up gives the wrapped sum.
LEMMA SumWraps ==
  ASSUME NEW f, NEW g, NEW S, IsFiniteSet(S), NEW m \in Nat \ {0},
         \A x \in S : f[x] \in Int /\ g[x] \in Int /\ f[x] % m = g[x] % m
  PROVE  Sum(f, S) % m = Sum(g, S) % m
<1> DEFINE C == { T \in SUBSET S : Sum(f, T) % m # Sum(g, T) % m }
<1>1. ASSUME C # {}  PROVE FALSE
  <2>0. C \in SUBSET (SUBSET S)
    OBVIOUS
  <2> HIDE DEF C
  <2>1. PICK T \in C : \A U \in C : U \subseteq T => U = T
    BY <1>1, <2>0, SmallestSubset
  <2> USE DEF C
  <2>2. T # {}
    BY <2>1, SumEmpty
  <2>3. /\ Remaining(T) \in SUBSET S /\ Remaining(T) \notin C /\ Pick(T) \in S
        /\ T \in SUBSET S /\ IsFiniteSet(T)
    BY <2>1, <2>2, RemainingIsLess, FS_Subset
  <2> DEFINE a == f[Pick(T)]
             b == g[Pick(T)]
             s == Sum(f, Remaining(T))
             t == Sum(g, Remaining(T))
  <2>4. Sum(f, T) = a + s /\ Sum(g, T) = b + t
    BY <2>2, <2>3, SumPicks
  <2>5. s \in Int /\ t \in Int /\ a \in Int /\ b \in Int
    <3>1. IsFiniteSet(Remaining(T))
      BY <2>3, FS_Subset
    <3>. QED  BY <2>3, <3>1, SumType
  <2>6. a % m = b % m /\ s % m = t % m
    BY <2>3
  <2> HIDE DEF a, b, s, t
  <2>7. ((a % m) + s) % m = (a + s) % m /\ ((b % m) + s) % m = (b + s) % m
    BY <2>5, WrappedSum
  <2>8. ((s % m) + b) % m = (s + b) % m /\ ((t % m) + b) % m = (t + b) % m
    BY <2>5, WrappedSum
  <2>9. s + b = b + s /\ t + b = b + t
    BY <2>5
  <2>. QED  BY <2>1, <2>4, <2>6, <2>7, <2>8, <2>9
<1>. QED  BY <1>1

\* Zeros add up to zero.
LEMMA SumOfZeros ==
  ASSUME NEW f, NEW S, IsFiniteSet(S), \A x \in S : f[x] = 0
  PROVE  Sum(f, S) = 0
<1> DEFINE C == { T \in SUBSET S : Sum(f, T) # 0 }
<1>1. ASSUME C # {}  PROVE FALSE
  <2>0. C \in SUBSET (SUBSET S)
    OBVIOUS
  <2> HIDE DEF C
  <2>1. PICK T \in C : \A U \in C : U \subseteq T => U = T
    BY <1>1, <2>0, SmallestSubset
  <2> USE DEF C
  <2>2. T # {}
    BY <2>1, SumEmpty
  <2>3. /\ Remaining(T) \in SUBSET S /\ Remaining(T) \notin C /\ Pick(T) \in S
        /\ T \in SUBSET S /\ IsFiniteSet(T)
    BY <2>1, <2>2, RemainingIsLess, FS_Subset
  <2>4. Sum(f, T) = f[Pick(T)] + Sum(f, Remaining(T))
    BY <2>2, <2>3, SumPicks
  <2>. QED  BY <2>1, <2>3, <2>4
<1>. QED  BY <1>1

\* A sum of natural numbers is one, and no less than any of them.
LEMMA SumOfNaturals ==
  ASSUME NEW f, NEW S, IsFiniteSet(S), \A x \in S : f[x] \in Nat
  PROVE  Sum(f, S) \in Nat /\ \A x \in S : f[x] <= Sum(f, S)
<1> DEFINE zero == [x \in S |-> 0]
<1>1. ASSUME NEW T \in SUBSET S  PROVE Sum(f, T) \in Nat
  <2>1. IsFiniteSet(T)
    BY FS_Subset
  <2>2. Sum(f, T) \in Int /\ Sum(zero, T) <= Sum(f, T)
    BY <2>1, SumType, SumMonotone
  <2>3. Sum(zero, T) = 0
    BY <2>1, SumOfZeros
  <2>. QED  BY <2>2, <2>3
<1>2. ASSUME NEW x \in S  PROVE f[x] <= Sum(f, S)
  <2>1. Sum(f, S) = f[x] + Sum(f, S \ {x})
    BY SumRemove
  <2>. QED  BY <1>1, <2>1
<1>. QED  BY <1>1, <1>2

\* A summand that was not there is added.
LEMMA SumAdd ==
  ASSUME NEW f, NEW S, IsFiniteSet(S), NEW y, y \notin S,
         \A x \in S \cup {y} : f[x] \in Int
  PROVE  Sum(f, S \cup {y}) = f[y] + Sum(f, S)
<1>1. IsFiniteSet(S \cup {y}) /\ (S \cup {y}) \ {y} = S
  BY FS_AddElement
<1>. QED  BY <1>1, SumRemove
=============================================================================
