-------------------------- MODULE SystemSamplerProofs --------------------------
(***************************************************************************)
(* What SystemSampler guarantees for every width of the words, every       *)
(* number of ticks, every line a kernel prints and every struct sysinfo.   *)
(***************************************************************************)
EXTENDS SystemSampler, SumProofs

(***************************************************************************)
(* The inductive invariant: what the kernel keeps; that a sample is what   *)
(* Stat() makes of the line it was taken from, which is as long as the     *)
(* kernel's lines are; and that the sizes of an Info are the bytes that    *)
(* the kernel means.                                                       *)
(***************************************************************************)
KernelType ==
  /\ ticks \in [Member -> Nat]
  /\ spent \in 0..MaxTicks
  /\ printed \in Printings
  /\ readable \in BOOLEAN
  /\ sys \in Sysinfos

IsSample(sample) ==
  /\ sample = [stat |-> Stat(sample.line), line |-> sample.line]
  /\ sample.line \in Seq(Nat)
  /\ Len(sample.line) \in { 0, printed }

SizesAreBytes ==
  info.what = "info" =>
    /\ info.given \in Sysinfos
    /\ \A f \in Sizes : info.got.sizes[f] = info.given.sizes[f] * info.given.mem_unit

IInv == KernelType /\ IsSample(now) /\ IsSample(last) /\ SizesAreBytes

-----------------------------------------------------------------------------
(***************************************************************************)
(* The operators: where a member is read, what is read, and words.         *)
(***************************************************************************)
\* Every member has one position, which the kernel knows too.
LEMMA Positions ==
  /\ DOMAIN Members = 1..10 /\ Len(Members) = 10
  /\ \A i \in 1..10 : Members[i] \in Member /\ Position(Members[i]) = i
  /\ \A f \in Member : Position(f) \in 1..10 /\ Members[Position(f)] = f
  /\ \A f \in Member : Column(f) = Position(f)
<1>1. DOMAIN Members = 1..10 /\ Len(Members) = 10
  BY DEF Members
<1>2. ASSUME NEW i \in 1..10, NEW j \in 1..10, Members[i] = Members[j]  PROVE i = j
  <2>1. i \in { 1, 2, 3, 4, 5, 6, 7, 8, 9, 10 }
    OBVIOUS
  <2>2. j \in { 1, 2, 3, 4, 5, 6, 7, 8, 9, 10 }
    OBVIOUS
  <2>. QED  BY <1>2, <2>1, <2>2 DEF Members
<1>3. \A f \in Member : Position(f) \in 1..10 /\ Members[Position(f)] = f
  BY <1>1 DEF Member, Position
<1>4. ASSUME NEW i \in 1..10  PROVE Members[i] \in Member /\ Position(Members[i]) = i
  <2>1. Members[i] \in Member
    BY <1>1 DEF Member
  <2>. QED  BY <1>2, <1>3, <2>1
<1>5. Columns = Members
  BY DEF Columns, Members
<1>. QED  BY <1>1, <1>3, <1>4, <1>5 DEF Column, Position

\* The sums are over a finite set.
LEMMA MembersAreFew == IsFiniteSet(Member)
<1> DEFINE n == Len(Members)
<1>1. n \in Int /\ Members \in [1..n -> Member]
  BY Positions DEF Members
<1>2. Members \in Surjection(1..n, Member)
  BY <1>1, Positions DEF Surjection
<1> HIDE DEF n
<1>. QED  BY <1>1, <1>2, FS_Interval, FS_Surjection

\* Whatever the file shows, a member that is read from it fits its width.
LEMMA StatType ==
  ASSUME NEW text \in Seq(Nat)
  PROVE  Stat(text) \in [Member -> 0..(ULongModulus - 1)]
<1>1. ASSUME NEW i \in 1..10  PROVE Extracted(text, i) \in 0..(ULongModulus - 1)
  BY SystemStatAssumption DEF Extracted, Fits
<1>. QED  BY <1>1, Positions DEF Stat

\* So does a member of a difference.
LEMMA MinusType ==
  ASSUME NEW s \in [Member -> Int], NEW t \in [Member -> Int]
  PROVE  Minus(s, t) \in [Member -> 0..(ULongModulus - 1)]
<1>1. ASSUME NEW f \in Member  PROVE Word(s[f] - t[f]) \in 0..(ULongModulus - 1)
  <2>1. s[f] - t[f] \in Int
    OBVIOUS
  <2>. QED  BY <2>1, SystemStatAssumption, WrappedTwice DEF Word
<1>. QED  BY <1>1 DEF Minus

-----------------------------------------------------------------------------
\* The invariant holds at first,
LEMMA InitIInv == Init => IInv
<1> SUFFICES ASSUME Init  PROVE IInv
  OBVIOUS
<1>1. KernelType
  BY SamplerAssumption DEF Init, KernelType
<1>2. IsSample(Empty)
  BY DEF IsSample, Empty
<1>3. now = Empty /\ last = Empty
  BY DEF Init
<1>4. SizesAreBytes
  BY DEF Init, SizesAreBytes
<1>. QED  BY <1>1, <1>2, <1>3, <1>4 DEF IInv

\* The line is empty or has as many numbers as the kernel prints.
LEMMA LineType ==
  ASSUME KernelType
  PROVE  Line \in Seq(Nat) /\ Len(Line) \in { 0, printed }
<1>1. printed \in 8..10
  BY SamplerAssumption DEF KernelType
<1>2. \A i \in 1..printed : ticks[Columns[i]] \in Nat
  <2>1. Columns = Members
    BY DEF Columns, Members
  <2>. QED  BY <1>1, <2>1, Positions DEF KernelType
<1>3. [i \in 1..printed |-> ticks[Columns[i]]] \in Seq(Nat)
  BY <1>1, <1>2
<1>. QED  BY <1>1, <1>3 DEF Line

\* The sizes of an Info are exact: its type holds every product the kernel means.
LEMMA InfoIsExact ==
  ASSUME KernelType, NEW before
  PROVE  \A f \in Sizes : Info(sys, before).sizes[f] = sys.sizes[f] * sys.mem_unit
<1>1. ASSUME NEW f \in Sizes
      PROVE  InBytes(sys.sizes[f], sys.mem_unit) = sys.sizes[f] * sys.mem_unit
  <2> DEFINE product == sys.sizes[f] * sys.mem_unit
  <2>1. /\ sys.sizes[f] \in 0..(ULongModulus - 1) /\ sys.mem_unit \in Nat
        /\ product < ULongLongModulus /\ ULongLongModulus \in Nat \ {0}
    BY SamplerAssumption DEF KernelType
  <2>2. sys.sizes[f] \in Nat
    BY <2>1, SystemStatAssumption
  <2>3. product \in Nat
    BY <2>1, <2>2
  <2> HIDE DEF product
  <2>4. product % ULongLongModulus = product
    BY <2>1, <2>3, SmallRemainder
  <2>. QED  BY <2>4 DEF InBytes, product
<1>. QED  BY <1>1 DEF Info

\* every step keeps it,
LEMMA NextIInv == IInv /\ [Next]_vars => IInv'
<1> SUFFICES ASSUME IInv, [Next]_vars  PROVE IInv'
  OBVIOUS
<1> USE DEF IInv
<1>1. ASSUME NEW f \in Active, Tick(f)  PROVE IInv'
  <2>1. KernelType'
    <3>1. spent + 1 \in 0..MaxTicks
      BY <1>1, SamplerAssumption DEF Tick, KernelType
    <3>. QED  BY <1>1, <3>1 DEF Tick, KernelType
  <2>. QED  BY <1>1, <2>1 DEF Tick, IsSample, SizesAreBytes
<1>2. CASE IowaitFalls
  <2>1. "iowait" \in Member
    <3>1. Members[5] = "iowait"
      BY DEF Members
    <3>. QED  BY <3>1, Positions
  <2>2. KernelType'
    BY <1>2, <2>1 DEF IowaitFalls, KernelType
  <2>. QED  BY <1>2, <2>2 DEF IowaitFalls, IsSample, SizesAreBytes
<1>3. CASE ReadableChanges
  BY <1>3 DEF ReadableChanges, KernelType, IsSample, SizesAreBytes
<1>4. CASE SysinfoChanges
  BY <1>4 DEF SysinfoChanges, KernelType, IsSample, SizesAreBytes
<1>5. CASE Sample
  <2>1. KernelType' /\ IsSample(last)' /\ SizesAreBytes'
    BY <1>5 DEF Sample, kernel, KernelType, IsSample, SizesAreBytes
  <2>2. IsSample(now)'
    BY <1>5, LineType DEF Sample, kernel, IsSample
  <2>. QED  BY <2>1, <2>2
<1>6. CASE GetInfo
  <2>1. KernelType' /\ IsSample(now)' /\ IsSample(last)'
    BY <1>6 DEF GetInfo, kernel, KernelType, IsSample
  <2>2. PICK before \in Garbage :
          info' = [what |-> "info", got |-> Info(sys, before), given |-> sys]
    BY <1>6 DEF GetInfo
  <2>3. SizesAreBytes'
    BY <2>2, InfoIsExact DEF SizesAreBytes, KernelType
  <2>. QED  BY <2>1, <2>3
<1>7. CASE GetUpTime
  <2>1. KernelType' /\ IsSample(now)' /\ IsSample(last)'
    BY <1>7 DEF GetUpTime, kernel, KernelType, IsSample
  <2>2. SizesAreBytes'
    BY <1>7 DEF GetUpTime, SizesAreBytes
  <2>. QED  BY <2>1, <2>2
<1>8. CASE UNCHANGED vars
  BY <1>8 DEF vars, kernel, KernelType, IsSample, SizesAreBytes
<1>. QED  BY <1>1, <1>2, <1>3, <1>4, <1>5, <1>6, <1>7, <1>8 DEF Next

\* and so it holds in every reachable state.
LEMMA InvariantHolds == Spec => []IInv
BY InitIInv, NextIInv, PTL DEF Spec

\* The samples of the invariant are of the types of their members.
LEMMA SampleType ==
  ASSUME IInv
  PROVE  /\ now.stat \in [Member -> 0..(ULongModulus - 1)]
         /\ last.stat \in [Member -> 0..(ULongModulus - 1)]
         /\ Diff \in [Member -> 0..(ULongModulus - 1)]
<1>1. /\ now.stat \in [Member -> 0..(ULongModulus - 1)]
      /\ last.stat \in [Member -> 0..(ULongModulus - 1)]
  BY StatType DEF IInv, IsSample
<1>2. 0..(ULongModulus - 1) \subseteq Int
  OBVIOUS
<1>. QED  BY <1>1, <1>2, MinusType DEF Diff

(***************************************************************************)
(* Every member of a sample and of a difference fits its width (TypeOK).   *)
(***************************************************************************)
THEOREM TypeCorrect == Spec => []TypeOK
<1>1. IInv => TypeOK
  BY SampleType DEF IInv, KernelType, TypeOK, Diff
<1>. QED  BY <1>1, InvariantHolds, PTL

(***************************************************************************)
(* Sizes of an Info are in the proportion that the kernel's are            *)
(* (InfoKeepsShares).                                                      *)
(***************************************************************************)
THEOREM InfosKeepShares == Spec => []InfoKeepsShares
<1>1. IInv => InfoKeepsShares
  <2> SUFFICES ASSUME IInv, info.what = "info", NEW f \in Sizes, NEW g \in Sizes
               PROVE  info.got.sizes[f] * info.given.sizes[g]
                        = info.given.sizes[f] * info.got.sizes[g]
    BY DEF InfoKeepsShares
  <2> DEFINE a == info.given.sizes[f]
             b == info.given.sizes[g]
             u == info.given.mem_unit
  <2>1. info.got.sizes[f] = a * u /\ info.got.sizes[g] = b * u
    BY DEF IInv, SizesAreBytes
  <2>2. a \in Int /\ b \in Int /\ u \in Int
    BY SamplerAssumption DEF IInv, SizesAreBytes
  <2> HIDE DEF a, b, u
  <2>3. (a * u) * b = a * (b * u)
    BY <2>2
  <2>. QED  BY <2>1, <2>3 DEF a, b
<1>. QED  BY <1>1, InvariantHolds, PTL

-----------------------------------------------------------------------------
(***************************************************************************)
(* Differences of whole samples.                                           *)
(***************************************************************************)
\* A whole sample has the kernel's numbers, and zeros for those not printed.
LEMMA WholeStat ==
  ASSUME KernelType, NEW sample, IsSample(sample), IsWhole(sample), NEW f \in Member
  PROVE  sample.stat[f] = IF Position(f) <= printed THEN sample.line[Position(f)] ELSE 0
<1>1. printed \in 8..10 /\ Position(f) \in 1..10
  BY SamplerAssumption, Positions DEF KernelType
<1>2. DOMAIN sample.line = 1..printed
  BY <1>1 DEF IsSample, IsWhole
<1>3. \A i \in 1..printed : Fits(sample.line, i)
  BY <1>2 DEF IsWhole, Fits
<1>4. sample.stat[f] = Extracted(sample.line, Position(f))
  BY DEF IsSample, Stat
<1>5. CASE Position(f) <= printed
  BY <1>1, <1>2, <1>3, <1>4, <1>5 DEF Extracted
<1>6. CASE ~(Position(f) <= printed)
  <2>1. ~Fits(sample.line, Position(f)) /\ Position(f) \notin DOMAIN sample.line
    BY <1>1, <1>2, <1>6 DEF Fits
  <2>. QED  BY <1>4, <1>6, <2>1 DEF Extracted
<1>. QED  BY <1>5, <1>6

\* The members of their difference are the ticks elapsed, wrapped.
LEMMA DiffIsElapsed ==
  ASSUME IInv, IsWhole(now), IsWhole(last), NEW f \in Member
  PROVE  Elapsed[f] \in Int /\ Diff[f] = Word(Elapsed[f])
<1>1. /\ now.stat[f] = IF Position(f) <= printed THEN now.line[Position(f)] ELSE 0
      /\ last.stat[f] = IF Position(f) <= printed THEN last.line[Position(f)] ELSE 0
  BY WholeStat DEF IInv
<1>2. Elapsed[f] = now.stat[f] - last.stat[f]
  BY <1>1, Positions DEF Elapsed
<1>3. now.stat[f] \in Int /\ last.stat[f] \in Int
  BY SampleType
<1>. QED  BY <1>2, <1>3 DEF Diff, Minus

\* The members that wrapped add up to what the columns went on by, wrapped.
LEMMA TotalOfDiff ==
  ASSUME IInv, IsWhole(now), IsWhole(last)
  PROVE  Total(Diff) = Word(AllElapsed)
<1>1. ASSUME NEW f \in Member
      PROVE  /\ Diff[f] \in Int /\ Elapsed[f] \in Int
             /\ Diff[f] % ULongModulus = Elapsed[f] % ULongModulus
  <2>1. Elapsed[f] \in Int /\ Diff[f] = Elapsed[f] % ULongModulus
    BY DiffIsElapsed DEF Word
  <2>2. ULongModulus \in Nat \ {0}
    BY SystemStatAssumption
  <2>3. Elapsed[f] % ULongModulus \in Int
    BY <2>1, <2>2
  <2>4. (Elapsed[f] % ULongModulus) % ULongModulus = Elapsed[f] % ULongModulus
    BY <2>1, <2>2, WrappedTwice
  <2>. QED  BY <2>1, <2>3, <2>4
<1>2. ULongModulus \in Nat \ {0}
  BY SystemStatAssumption
<1>3. Sum(Diff, Member) % ULongModulus = Sum(Elapsed, Member) % ULongModulus
  BY <1>1, <1>2, MembersAreFew, SumWraps
<1>. QED  BY <1>3 DEF Total, AllElapsed, Word

(***************************************************************************)
(* Between two whole samples the total of the difference is what all the   *)
(* columns went on by, wrapped (TotalIsOfColumns).                         *)
(***************************************************************************)
THEOREM TotalsAreOfColumns == Spec => []TotalIsOfColumns
<1>1. IInv => TotalIsOfColumns
  BY TotalOfDiff DEF TotalIsOfColumns
<1>. QED  BY <1>1, InvariantHolds, PTL

(***************************************************************************)
(* While no counter goes back and fewer ticks go by than a word holds, the *)
(* members of the difference are the ticks of their counters, and shares   *)
(* of the total (SharesAreTrue).                                           *)
(***************************************************************************)
THEOREM SharesAreOfTotal == Spec => []SharesAreTrue
<1>1. IInv => SharesAreTrue
  <2> SUFFICES ASSUME IInv, IsWhole(now), IsWhole(last), Forward,
                      AllElapsed < ULongModulus, NEW f \in Member
               PROVE  Diff[f] = Elapsed[f] /\ Diff[f] <= Total(Diff)
    BY DEF SharesAreTrue
  <2>1. ULongModulus \in Nat \ {0}
    BY SystemStatAssumption
  <2>2. \A g \in Member : Elapsed[g] \in Nat
    BY DiffIsElapsed DEF Forward
  <2>3. AllElapsed \in Nat /\ Elapsed[f] <= AllElapsed
    BY <2>2, MembersAreFew, SumOfNaturals DEF AllElapsed
  <2>4. Elapsed[f] \in 0..(ULongModulus - 1) /\ AllElapsed \in 0..(ULongModulus - 1)
    BY <2>1, <2>2, <2>3
  <2>5. Word(Elapsed[f]) = Elapsed[f] /\ Word(AllElapsed) = AllElapsed
    BY <2>1, <2>4, SmallRemainder DEF Word
  <2>. QED  BY <2>3, <2>5, DiffIsElapsed, TotalOfDiff
<1>. QED  BY <1>1, InvariantHolds, PTL

(***************************************************************************)
(* Running and idle make up the usage of a sample and of a difference, and *)
(* the usage is the total (RunningIsUsageLessIdle).                        *)
(***************************************************************************)
THEOREM RunningAndIdleAreUsage == Spec => []RunningIsUsageLessIdle
<1>1. ASSUME NEW s \in [Member -> 0..(ULongModulus - 1)]
      PROVE  /\ GetRunning(s) = Word(GetUsage(s) - GetIdle(s))
             /\ GetUsage(s) = Total(s)
  <2> DEFINE idle == s["idle"]
             rest == Sum(s, Member \ { "idle" })
             all == Sum(s, Member)
  <2>1. "idle" \in Member
    <3>1. Members[4] = "idle"
      BY DEF Members
    <3>. QED  BY <3>1, Positions
  <2>2. ULongModulus \in Nat \ {0} /\ \A f \in Member : s[f] \in Int
    BY SystemStatAssumption
  <2>3. all = idle + rest
    BY <2>1, <2>2, MembersAreFew, SumRemove
  <2>4. idle \in Int /\ rest \in Int /\ all \in Int
    <3>1. IsFiniteSet(Member \ { "idle" })
      BY MembersAreFew, FS_Subset
    <3>. QED  BY <2>1, <2>2, <3>1, MembersAreFew, SumType
  <2> HIDE DEF idle, rest, all
  <2>5. ((all % ULongModulus) - idle) % ULongModulus = (all - idle) % ULongModulus
    BY <2>2, <2>4, WrappedSum
  <2>6. all - idle = rest
    BY <2>3, <2>4
  <2>7. GetRunning(s) = Word(rest) /\ GetUsage(s) = Word(all) /\ GetIdle(s) = idle
    BY DEF GetRunning, GetUsage, GetIdle, rest, all, idle
  <2>8. GetUsage(s) = Total(s)
    BY DEF GetUsage, Total
  <2>. QED  BY <2>5, <2>6, <2>7, <2>8 DEF Word
<1>2. IInv => RunningIsUsageLessIdle
  BY <1>1, SampleType DEF RunningIsUsageLessIdle
<1>. QED  BY <1>2, InvariantHolds, PTL

-----------------------------------------------------------------------------
(***************************************************************************)
(* A sample that failed.                                                   *)
(***************************************************************************)
\* Among the positions that hold nothing that fits there is a first.
LEMMA FirstFailure ==
  ASSUME NEW text, \E i \in 1..10 : ~Fits(text, i)
  PROVE  \E n \in 1..10 : ~Fits(text, n) /\ \A j \in 1..(n - 1) : Fits(text, j)
<1> DEFINE S == { i \in 1..10 : ~Fits(text, i) }
<1>1. S \in SUBSET Nat /\ S # {}
  OBVIOUS
<1> HIDE DEF S
<1>2. PICK n \in S : \A j \in S : ~(<<j, n>> \in OpToRel(<, Nat))
  BY <1>1, WFMin, NatLessThanWellFounded
<1>3. \A j \in S : ~(j < n)
  BY <1>1, <1>2 DEF OpToRel
<1>4. n \in 1..10 /\ ~Fits(text, n)
  BY <1>2 DEF S
<1>5. ASSUME NEW j \in 1..(n - 1)  PROVE Fits(text, j)
  <2>1. j \in 1..10 /\ j < n
    BY <1>4
  <2>. QED  BY <1>3, <2>1 DEF S
<1>. QED  BY <1>4, <1>5

(***************************************************************************)
(* What is read before the first failure is the kernel's, the failure      *)
(* leaves nought or the largest number, and after it is nought             *)
(* (FailureLeavesZeros).                                                   *)
(***************************************************************************)
THEOREM FailuresLeaveZeros == Spec => []FailureLeavesZeros
<1>1. IInv => FailureLeavesZeros
  <2> SUFFICES ASSUME IInv  PROVE FailureLeavesZeros
    OBVIOUS
  <2>1. ASSUME NEW i \in 1..10
        PROVE  now.stat[Members[i]] = Extracted(now.line, i)
    BY Positions DEF IInv, IsSample, Stat
  <2>2. CASE \A i \in 1..10 : Fits(now.line, i)
    <3>1. \A i \in 1..10 : i <= 10 /\ now.stat[Members[i]] = now.line[i]
      BY <2>1, <2>2 DEF Extracted
    <3>. QED  BY <3>1, Positions DEF FailureLeavesZeros
  <2>3. CASE \E i \in 1..10 : ~Fits(now.line, i)
    <3>1. PICK n \in 1..10 : ~Fits(now.line, n) /\ \A j \in 1..(n - 1) : Fits(now.line, j)
      BY <2>3, FirstFailure
    <3>2. n - 1 \in 0..10
      OBVIOUS
    <3>3. ASSUME NEW i \in 1..10
          PROVE  LET value == now.stat[Members[i]]
                 IN  \/ i <= n - 1 /\ value = now.line[i]
                     \/ /\ i = (n - 1) + 1
                        /\ value = IF i \in DOMAIN now.line THEN ULongModulus - 1 ELSE 0
                     \/ i > (n - 1) + 1 /\ value = 0
      <4>1. CASE i < n
        BY <2>1, <3>1, <4>1 DEF Extracted
      <4>2. CASE i = n
        BY <2>1, <3>1, <4>2 DEF Extracted
      <4>3. CASE i > n
        BY <2>1, <3>1, <4>3 DEF Extracted
      <4>. QED  BY <4>1, <4>2, <4>3
    <3>. QED  BY <3>2, <3>3, Positions DEF FailureLeavesZeros
  <2>. QED  BY <2>2, <2>3
<1>. QED  BY <1>1, InvariantHolds, PTL

-----------------------------------------------------------------------------
(***************************************************************************)
(* The lists that go by the same positions.                                *)
(***************************************************************************)
\* The index of a name is the one it has in the list.
LEMMA TypesOfNames ==
  ASSUME NEW ix \in TypeSet
  PROVE  TypeFactory(TypeNames[ix + 1]) = ix
<1>1. DOMAIN TypeNames = 1..11 /\ ix \in 0..10
  BY DEF TypeNames, TypeSet, Enum
<1>2. ASSUME NEW i \in 1..11, NEW j \in 1..11, TypeNames[i] = TypeNames[j]  PROVE i = j
  <2>1. i \in { 1, 2, 3, 4, 5, 6, 7, 8, 9, 10, 11 }
    OBVIOUS
  <2>2. j \in { 1, 2, 3, 4, 5, 6, 7, 8, 9, 10, 11 }
    OBVIOUS
  <2>. QED  BY <1>2, <2>1, <2>2 DEF TypeNames
<1> DEFINE text == TypeNames[ix + 1]
           i == CHOOSE i \in DOMAIN TypeNames : TypeNames[i] = text
<1>3. ix + 1 \in DOMAIN TypeNames
  BY <1>1
<1>4. i \in DOMAIN TypeNames /\ TypeNames[i] = text
  BY <1>3
<1>5. TypeFactory(text) = i - 1
  BY <1>3 DEF TypeFactory
<1> HIDE DEF i
<1>6. i = ix + 1
  BY <1>1, <1>2, <1>3, <1>4
<1>. QED  BY <1>1, <1>5, <1>6

\* What the switch gives for an index is the member of the same name.
LEMMA ValuesOfTypes ==
  ASSUME NEW stat, NEW ix \in TypeSet
  PROVE  ValueOf(stat, ix) =
           IF TypeNames[ix + 1] = "total" THEN Total(stat) ELSE stat[TypeNames[ix + 1]]
<1>1. ix \in { 0, 1, 2, 3, 4, 5, 6, 7, 8, 9, 10 }
  BY DEF TypeSet, Enum
<1>2. CASE ix = 10
  <2>1. Enum[ix + 1] = "TOTAL" /\ TypeNames[ix + 1] = "total"
    BY <1>2 DEF Enum, TypeNames
  <2>. QED  BY <2>1 DEF ValueOf
<1>3. CASE ix # 10
  <2>1. Enum[ix + 1] # "TOTAL" /\ TypeNames[ix + 1] # "total"
    BY <1>1, <1>3 DEF Enum, TypeNames
  <2>2. MemberOf[Enum[ix + 1]] = TypeNames[ix + 1]
    BY <1>1, <1>3 DEF MemberOf, Enum, TypeNames
  <2>. QED  BY <2>1, <2>2 DEF ValueOf
<1>. QED  BY <1>2, <1>3

(***************************************************************************)
(* Whatever member is asked for by its name, the type, the name, the label *)
(* and the value found are those of that member (FieldsAgree).             *)
(***************************************************************************)
THEOREM ListsAgree == Spec => []FieldsAgree
<1>1. DOMAIN TypeNames = 1..11 /\ DOMAIN Labels = 1..12 /\ TypeSet = 0..10
      /\ Len(TypeNames) = 11 /\ Len(Labels) = 12
  BY DEF TypeNames, Labels, TypeSet, Enum
<1>2. ASSUME NEW text \in Member \cup { "total" }
      PROVE  \E ix \in TypeSet : TypeNames[ix + 1] = text
  <2>1. CASE text = "total"
    <3>1. TypeNames[10 + 1] = "total"
      BY DEF TypeNames
    <3>. QED  BY <1>1, <2>1, <3>1
  <2>2. CASE text \in Member
    <3>1. Position(text) \in 1..10 /\ Members[Position(text)] = text
      BY <2>2, Positions
    <3>2. \A i \in 1..10 : TypeNames[i] = Members[i]
      <4>1. \A i \in { 1, 2, 3, 4, 5, 6, 7, 8, 9, 10 } : TypeNames[i] = Members[i]
        BY DEF TypeNames, Members
      <4>. QED  BY <4>1
    <3>3. Position(text) - 1 \in TypeSet /\ (Position(text) - 1) + 1 = Position(text)
      BY <1>1, <3>1
    <3>. QED  BY <3>1, <3>2, <3>3
  <2>. QED  BY <2>1, <2>2
<1>3. ASSUME NEW ix \in TypeSet
      PROVE  /\ TypeFactory(ToString(ix)) = ix
             /\ ToString(ix) = TypeNames[ix + 1]
             /\ GetLabel(ix) = LabelOf[TypeNames[ix + 1]]
  <2>1. ix \in 0..10 /\ ~(ix > 11) /\ ix # 11 /\ ix < 12
    BY <1>1
  <2>2. ToString(ix) = TypeNames[ix + 1]
    BY <1>1, <2>1 DEF ToString
  <2>3. GetLabel(ix) = Labels[ix + 1]
    BY <1>1, <2>1 DEF GetLabel
  <2>4. Labels[ix + 1] = LabelOf[TypeNames[ix + 1]]
    <3>1. ix + 1 \in { 1, 2, 3, 4, 5, 6, 7, 8, 9, 10, 11 }
      BY <2>1
    <3>2. /\ TypeNames[1] = "user" /\ Labels[1] = "Normal processes"
          /\ TypeNames[2] = "nice" /\ Labels[2] = "Niced processes"
          /\ TypeNames[3] = "system" /\ Labels[3] = "Kernel mode"
          /\ TypeNames[4] = "idle" /\ Labels[4] = "IDLE"
          /\ TypeNames[5] = "iowait" /\ Labels[5] = "Waiting for I/O"
          /\ TypeNames[6] = "irq" /\ Labels[6] = "Interrupts"
          /\ TypeNames[7] = "softirq" /\ Labels[7] = "Soft IRQS"
          /\ TypeNames[8] = "steal" /\ Labels[8] = "Involuntary wait"
          /\ TypeNames[9] = "guest" /\ Labels[9] = "Running a normal guest"
          /\ TypeNames[10] = "guest_nice" /\ Labels[10] = "Running a niced guest"
          /\ TypeNames[11] = "total" /\ Labels[11] = "Total use of CPU"
      BY DEF TypeNames, Labels
    <3>3. /\ LabelOf["user"] = "Normal processes"
          /\ LabelOf["nice"] = "Niced processes"
          /\ LabelOf["system"] = "Kernel mode"
          /\ LabelOf["idle"] = "IDLE"
          /\ LabelOf["iowait"] = "Waiting for I/O"
          /\ LabelOf["irq"] = "Interrupts"
          /\ LabelOf["softirq"] = "Soft IRQS"
          /\ LabelOf["steal"] = "Involuntary wait"
          /\ LabelOf["guest"] = "Running a normal guest"
          /\ LabelOf["guest_nice"] = "Running a niced guest"
          /\ LabelOf["total"] = "Total use of CPU"
      BY DEF LabelOf
    <3>4. \A i \in { 1, 2, 3, 4, 5, 6, 7, 8, 9, 10, 11 } : Labels[i] = LabelOf[TypeNames[i]]
      BY <3>2, <3>3, Zenon
    <3>. QED  BY <3>1, <3>4
  <2>. QED  BY <2>2, <2>3, <2>4, TypesOfNames
<1>4. ASSUME NEW text \in Member \cup { "total" }
      PROVE  LET ix == TypeOfNode(text)
             IN  /\ ix \in TypeSet
                 /\ ToString(ix) = text
                 /\ GetLabel(ix) = LabelOf[text]
                 /\ ValueOfName(now.stat, text)
                      = IF text = "total" THEN Total(now.stat) ELSE now.stat[text]
  <2>1. PICK ix \in TypeSet : TypeNames[ix + 1] = text
    BY <1>2
  <2>2. ix + 1 \in DOMAIN TypeNames
    BY <1>1
  <2>3. TypeFactory(text) = ix
    BY <2>1, TypesOfNames
  <2>4. text # Absent
    BY <2>1, <2>2, SystemStatAssumption
  <2>5. TypeOfNode(text) = ix
    BY <2>3, <2>4 DEF TypeOfNode
  <2>6. ValueOfName(now.stat, text) = ValueOf(now.stat, ix)
    BY <2>3, SystemStatAssumption DEF ValueOfName
  <2>. QED  BY <1>3, <2>1, <2>5, <2>6, ValuesOfTypes
<1>5. TypeOfNode(Absent) = TypeFactory("total")
  BY DEF TypeOfNode
<1>6. TypeOfNode(Unknown) = Refused
  <2>1. \A i \in 1..11 : TypeNames[i] # Unknown
    <3>1. \A i \in { 1, 2, 3, 4, 5, 6, 7, 8, 9, 10, 11 } : TypeNames[i] # Unknown
      BY DEF TypeNames, Unknown
    <3>. QED  BY <3>1
  <2>. QED  BY <1>1, <2>1, SystemStatAssumption DEF TypeOfNode, TypeFactory
<1>7. FieldsAgree
  BY <1>3, <1>4, <1>5, <1>6 DEF FieldsAgree
<1>. QED  BY <1>7, PTL
=============================================================================
