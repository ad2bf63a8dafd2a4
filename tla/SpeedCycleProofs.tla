--------------------------- MODULE SpeedCycleProofs ---------------------------
(***************************************************************************)
(* What SpeedCycle guarantees for every width of the float and of the      *)
(* counters, every block size and every history of the disks.              *)
(***************************************************************************)
EXTENDS SpeedCycle, DiskSpeedProofs

-----------------------------------------------------------------------------
(***************************************************************************)
(* The inductive invariant: the types, that of the Data object as a whole; *)
(* that what is saved is a sample of the disk that is there; that a disk   *)
(* only moves on from its last refresh, by less than its counter of        *)
(* milliseconds holds; and that a speed has bytes exactly when it has time *)
(* to divide them by.                                                      *)
(***************************************************************************)
DataType ==
  data \in [name      : { "disk" },
            blocksize : { BlockSize },
            speed     : [Directions -> Speeds],
            saved     : [Directions -> [bytes : Nat, time : 0..(TimeModulus - 1)]],
            error     : BOOLEAN]

SavedIsLastSample ==
  mark # Unknown =>
    \A d \in Directions :
      data.saved[d] = [bytes |-> Bytes(mark[d].blocks, BlockSize),
                       time  |-> mark[d].ms % TimeModulus]

MarkIsBehind ==
  mark # Unknown =>
    \A d \in Directions :
      /\ mark[d].blocks <= total[d].blocks
      /\ mark[d].ms <= total[d].ms
      /\ total[d].ms - mark[d].ms < MaxCycle

NothingInNoTime ==
  \A d \in Directions : data.speed[d].ms = 0 <=> data.speed[d].bytes = 0

IInv == TypeOK /\ DataType /\ SavedIsLastSample /\ MarkIsBehind /\ NothingInNoTime

-----------------------------------------------------------------------------
(* What a load reads has the widths of its members. *)
LEMMA LoadedType ==
  ASSUME TypeOK
  PROVE  Loaded \in [Directions -> [blocks : Nat, time : 0..(TimeModulus - 1)]]
<1>1. TimeModulus \in Nat \ {0}
  BY WidthsAssumption
<1>2. \A n \in Nat : n % TimeModulus \in 0..(TimeModulus - 1)
  BY <1>1
<1>3. \A d \in Directions : total[d].blocks \in Nat /\ total[d].ms \in Nat
  BY CycleAssumption DEF TypeOK, Counter
<1>. QED  BY <1>2, <1>3 DEF Loaded

(* A refreshed object has the type of a Data, and its members. *)
LEMMA RefreshedTypes ==
  ASSUME TypeOK, DataType
  PROVE  LET next == Refreshed(data, Loaded)
         IN  /\ next \in [name      : { "disk" },
                          blocksize : { BlockSize },
                          speed     : [Directions -> Speeds],
                          saved     : [Directions -> [bytes : Nat, time : 0..(TimeModulus - 1)]],
                          error     : BOOLEAN]
             /\ next.speed = [d \in Directions |->
                  CycleSpeed(Sample(Loaded[d], BlockSize), data.saved[d])]
             /\ next.saved = [d \in Directions |-> Sample(Loaded[d], BlockSize)]
<1> DEFINE Times == 0..(TimeModulus - 1)
           speed == [d \in Directions |->
                       CycleSpeed(Sample(Loaded[d], BlockSize), data.saved[d])]
           saved == [d \in Directions |-> Sample(Loaded[d], BlockSize)]
<1>1. Times \subseteq Nat /\ BlockSize \in Nat /\ data.blocksize = BlockSize
  BY WidthsAssumption, CycleAssumption DEF DataType
<1>2. ASSUME NEW d \in Directions
      PROVE  /\ Sample(Loaded[d], BlockSize) \in [bytes : Nat, time : Times]
             /\ CycleSpeed(Sample(Loaded[d], BlockSize), data.saved[d]) \in Speeds
  <2>1. Loaded[d] \in [blocks : Nat, time : Times]
    BY LoadedType
  <2>2. Loaded[d] \in Counters
    BY <1>1, <2>1 DEF Counters
  <2>3. Sample(Loaded[d], BlockSize) \in Samples
    BY <1>1, <2>2, SampleType
  <2>4. Sample(Loaded[d], BlockSize).time = Loaded[d].time
    BY DEF Sample
  <2>5. data.saved[d] \in Samples
    BY <1>1 DEF DataType, Samples
  <2>6. CycleSpeed(Sample(Loaded[d], BlockSize), data.saved[d]) \in Quotients
    BY <2>3, <2>5, CycleSpeedType
  <2>. QED  BY <2>1, <2>3, <2>4, <2>6 DEF Samples, Quotients, Speeds
<1>3. /\ speed \in [Directions -> Speeds]
      /\ saved \in [Directions -> [bytes : Nat, time : Times]]
  BY <1>2
<1>4. Refreshed(data, Loaded) = [data EXCEPT !.speed = speed, !.saved = saved]
  BY <1>1 DEF Refreshed
<1> HIDE DEF speed, saved, Times
<1>5. /\ Refreshed(data, Loaded)
           \in [name : { "disk" }, blocksize : { BlockSize },
                speed : [Directions -> Speeds],
                saved : [Directions -> [bytes : Nat, time : Times]], error : BOOLEAN]
      /\ Refreshed(data, Loaded).speed = speed
      /\ Refreshed(data, Loaded).saved = saved
  BY <1>3, <1>4 DEF DataType, Times
<1>. QED  BY <1>5 DEF speed, saved, Times

-----------------------------------------------------------------------------
(***************************************************************************)
(* The invariant holds.                                                    *)
(***************************************************************************)
LEMMA InitIInv == Init => IInv
<1> SUFFICES ASSUME Init  PROVE IInv
  OBVIOUS
<1>1. 0 \in 0..(TimeModulus - 1)
  BY WidthsAssumption
<1>2. DataType
  BY <1>1 DEF Init, DataType, NewData, NoSpeed, NoSample, Speeds
<1>3. TypeOK
  BY <1>2 DEF Init, TypeOK, DataType
<1>4. NothingInNoTime
  BY DEF Init, NothingInNoTime, NewData, NoSpeed
<1>. QED  BY <1>2, <1>3, <1>4 DEF IInv, Init, SavedIsLastSample, MarkIsBehind

\* A refresh saves a sample of the disk as it is now.
LEMMA RefreshIInv == IInv /\ Refresh => IInv'
<1> SUFFICES ASSUME IInv, Refresh  PROVE IInv'
  OBVIOUS
<1>1. /\ DataType'
      /\ data'.saved = [d \in Directions |-> Sample(Loaded[d], BlockSize)]
      /\ data'.speed = [d \in Directions |->
           CycleSpeed(Sample(Loaded[d], BlockSize), data.saved[d])]
  BY RefreshedTypes DEF IInv, Refresh, DataType
<1>2. TypeOK'
  BY <1>1 DEF IInv, TypeOK, Refresh, DataType
<1>3. SavedIsLastSample'
  BY <1>1 DEF Refresh, SavedIsLastSample, Sample, Loaded
<1>4. MarkIsBehind'
  <2>1. \A d \in Directions : total[d].blocks \in Nat /\ total[d].ms \in Nat
    BY CycleAssumption DEF IInv, TypeOK, Counter
  <2>2. 0 < MaxCycle
    BY CycleAssumption
  <2>. QED  BY <2>1, <2>2 DEF Refresh, MarkIsBehind
<1>5. NothingInNoTime'
  <2>1. \A now, saved : CycleSpeed(now, saved).ms = 0 <=> CycleSpeed(now, saved).bytes = 0
    BY DEF CycleSpeed, Quotient, NoSpeed
  <2>. QED  BY <1>1, <2>1 DEF NothingInNoTime
<1>. QED  BY <1>1, <1>2, <1>3, <1>4, <1>5 DEF IInv

\* A request moves the disk on, no further than a cycle may.
LEMMA TransferIInv ==
  ASSUME NEW d \in Directions, IInv, Transfer(d)
  PROVE  IInv'
<1>1. PICK b \in (total[d].blocks + 1)..MaxBlocks, t \in total[d].ms..MaxMs :
        /\ mark # Unknown => t - mark[d].ms < MaxCycle
        /\ total' = [total EXCEPT ![d] = [blocks |-> b, ms |-> t]]
  BY DEF Transfer
<1>2. total[d].blocks \in 0..MaxBlocks /\ total[d].ms \in 0..MaxMs
  BY DEF IInv, TypeOK, Counter
<1>3. b \in 0..MaxBlocks /\ t \in 0..MaxMs /\ b > total[d].blocks /\ t >= total[d].ms
  BY <1>2, CycleAssumption
<1>4. total' \in [Directions -> Counter]
  BY <1>1, <1>3 DEF IInv, TypeOK, Counter
<1>5. UNCHANGED << plugged, data, mark >>
  BY DEF Transfer
<1>6. MarkIsBehind'
  <2> SUFFICES ASSUME mark # Unknown, NEW e \in Directions
               PROVE  /\ mark[e].blocks <= total'[e].blocks
                      /\ mark[e].ms <= total'[e].ms
                      /\ total'[e].ms - mark[e].ms < MaxCycle
    BY <1>5 DEF MarkIsBehind
  <2>1. /\ mark[e].blocks <= total[e].blocks
        /\ mark[e].ms <= total[e].ms
        /\ total[e].ms - mark[e].ms < MaxCycle
    BY DEF IInv, MarkIsBehind
  <2>2. CASE e # d
    BY <1>1, <2>1, <2>2 DEF IInv, TypeOK
  <2>3. CASE e = d
    <3>1. total'[d] = [blocks |-> b, ms |-> t]
      BY <1>1 DEF IInv, TypeOK
    <3>2. mark[d].blocks \in Nat /\ mark[d].ms \in Nat
      BY CycleAssumption DEF IInv, TypeOK, Counter
    <3>. QED  BY <1>1, <1>2, <1>3, <2>1, <2>3, <3>1, <3>2
  <2>. QED  BY <2>2, <2>3
<1>. QED  BY <1>4, <1>5, <1>6 DEF IInv, TypeOK, DataType, SavedIsLastSample, NothingInNoTime

\* Every step keeps the invariant.
LEMMA NextIInv == IInv /\ [Next]_vars => IInv'
<1> SUFFICES ASSUME IInv, [Next]_vars  PROVE IInv'
  OBVIOUS
<1>1. ASSUME NEW d \in Directions, Transfer(d)  PROVE IInv'
  BY <1>1, TransferIInv
<1>2. CASE Unplug
  BY <1>2
  DEF Unplug, IInv, TypeOK, DataType, SavedIsLastSample, MarkIsBehind, NothingInNoTime
<1>3. CASE Plug
  <2>1. [blocks |-> 0, ms |-> 0] \in Counter
    BY CycleAssumption DEF Counter
  <2>2. TypeOK'
    BY <1>3, <2>1 DEF Plug, IInv, TypeOK
  <2>. QED  BY <1>3, <2>2
    DEF Plug, IInv, DataType, SavedIsLastSample, MarkIsBehind, NothingInNoTime
<1>4. CASE Refresh
  BY <1>4, RefreshIInv
<1>5. CASE UNCHANGED vars
  BY <1>5
  DEF vars, IInv, TypeOK, DataType, SavedIsLastSample, MarkIsBehind, NothingInNoTime
<1>. QED  BY <1>1, <1>2, <1>3, <1>4, <1>5 DEF Next

\* It holds in every reachable state.
LEMMA InvariantHolds == Spec => []IInv
BY InitIInv, NextIInv, PTL DEF Spec

(***************************************************************************)
(* The types: speeds and samples are naturals, times fit their counter,    *)
(* whatever the floats round.                                              *)
(***************************************************************************)
THEOREM TypeCorrect == Spec => []TypeOK
<1>1. IInv => TypeOK
  BY DEF IInv
<1>. QED  BY <1>1, InvariantHolds, PTL

-----------------------------------------------------------------------------
(***************************************************************************)
(* The difference of two wrapped counters is, wrapped again, that of the   *)
(* counters themselves while it is less than the modulus.                  *)
(***************************************************************************)
LEMMA WrappedDifference ==
  ASSUME NEW m \in Nat \ {0}, NEW a \in Nat, NEW b \in Nat,
         b <= a, a - b < m
  PROVE  ((a % m) - (b % m)) % m = a - b
<1> DEFINE s == b % m
<1>1. a \in Int /\ b \in Int /\ s \in Int /\ a - b \in 0..(m - 1)
  OBVIOUS
<1>2. (a - s) % m = (a - b) % m
  BY <1>1, WrappedSum
<1> HIDE DEF s
<1>3. ((a % m) - s) % m = (a - s) % m
  BY <1>1, WrappedSum
<1>4. (a - b) % m = a - b
  BY <1>1, SmallRemainder
<1>. QED  BY <1>2, <1>3, <1>4 DEF s

\* The time of a cycle is exact, across a wrap of its counter.
LEMMA ExactElapsed ==
  ASSUME MaxCycle <= FloatExact, NEW now \in Counter, NEW before \in Counter,
         before.ms <= now.ms, now.ms - before.ms < MaxCycle
  PROVE  Elapsed(now.ms % TimeModulus, before.ms % TimeModulus) = now.ms - before.ms
<1>1. /\ now.ms \in Nat /\ before.ms \in Nat
      /\ TimeModulus \in Nat \ {0} /\ FloatExact \in Nat \ {0}
  BY CycleAssumption, WidthsAssumption DEF Counter
<1>2. now.ms - before.ms < TimeModulus /\ now.ms - before.ms < FloatExact
  BY <1>1, CycleAssumption
<1>3. ((now.ms % TimeModulus) - (before.ms % TimeModulus)) % TimeModulus
        = now.ms - before.ms
  BY <1>1, <1>2, WrappedDifference
<1>. QED  BY <1>2, <1>3 DEF Elapsed, Float

(***************************************************************************)
(* Where a float is exact, so is what is made of the counters.             *)
(***************************************************************************)
LEMMA ExactBytes ==
  ASSUME NEW n \in Nat, NEW b \in Nat \ {0}, n * b < FloatExact
  PROVE  Bytes(n, b) = n * b
<1>1. n <= n * b /\ n * b \in Nat /\ FloatExact \in Nat
  BY WidthsAssumption
<1>2. Float(n) = n
  BY <1>1 DEF Float
<1>. QED  BY <1>1, <1>2 DEF Bytes, Float

\* The difference of two exact totals is exact,
LEMMA ExactGain ==
  ASSUME NEW a \in Nat, NEW b \in Nat, a < FloatExact
  PROVE  Gain(a, b) = IF a > b THEN a - b ELSE 0
<1>1. a > b => a - b < FloatExact
  BY WidthsAssumption
<1>. QED  BY <1>1 DEF Gain, Float

(***************************************************************************)
(* The disk's blocks are the kernel's sectors, and the bytes it moves, and *)
(* the milliseconds of a cycle, are numbers that a float holds.            *)
(***************************************************************************)
Exact ==
  /\ BlockSize = SectorBytes
  /\ MaxBlocks * BlockSize < FloatExact
  /\ MaxCycle <= FloatExact

\* the bytes of a disk are,
LEMMA ExactSample ==
  ASSUME Exact, NEW c \in Counter
  PROVE  /\ Bytes(c.blocks, BlockSize) = c.blocks * BlockSize
         /\ c.blocks * BlockSize < FloatExact
         /\ c.blocks * BlockSize \in Nat
<1>1. c.blocks \in Nat /\ c.blocks <= MaxBlocks /\ MaxBlocks \in Nat /\ BlockSize \in Nat \ {0}
  BY CycleAssumption DEF Counter
<1>2. c.blocks * BlockSize <= MaxBlocks * BlockSize
  BY <1>1
<1>3. c.blocks * BlockSize \in Nat /\ MaxBlocks * BlockSize \in Nat
  BY <1>1
<1>4. c.blocks * BlockSize < FloatExact
  BY <1>2, <1>3, WidthsAssumption DEF Exact
<1>. QED  BY <1>1, <1>3, <1>4, ExactBytes

\* the speed of a cycle is the true one,
LEMMA CycleIsTrue ==
  ASSUME Exact, NEW now \in Counter, NEW before \in Counter,
         before.blocks <= now.blocks, before.ms <= now.ms,
         now.ms - before.ms < MaxCycle
  PROVE  CycleSpeed([bytes |-> Bytes(now.blocks, BlockSize),
                     time  |-> now.ms % TimeModulus],
                    [bytes |-> Bytes(before.blocks, BlockSize),
                     time  |-> before.ms % TimeModulus])
           = Meter!TrueSpeed(now, before)
<1>1. /\ now.blocks \in Nat /\ now.ms \in Nat /\ before.blocks \in Nat /\ before.ms \in Nat
      /\ BlockSize \in Nat \ {0}
  BY CycleAssumption DEF Counter
<1>2. Elapsed(now.ms % TimeModulus, before.ms % TimeModulus) = now.ms - before.ms
  BY ExactElapsed DEF Exact
<1> DEFINE nb == now.blocks * BlockSize
           bb == before.blocks * BlockSize
           gain == (now.blocks - before.blocks) * BlockSize
<1>3. /\ nb \in Nat /\ bb \in Nat /\ nb < FloatExact
      /\ Bytes(now.blocks, BlockSize) = nb /\ Bytes(before.blocks, BlockSize) = bb
  BY ExactSample
<1>4. /\ now.blocks > before.blocks <=> nb > bb
      /\ gain = nb - bb
  <2>1. gain = nb - bb
    BY <1>1
  <2>2. now.blocks - before.blocks \in Nat
    BY <1>1
  <2>3. gain > 0 <=> now.blocks - before.blocks > 0
    BY <1>1, <2>2
  <2>. QED  BY <1>1, <1>3, <2>1, <2>3
<1> HIDE DEF nb, bb, gain
<1>5. Gain(nb, bb) = IF nb > bb THEN nb - bb ELSE 0
  BY <1>3, ExactGain
<1>6. CycleSpeed([bytes |-> nb, time |-> now.ms % TimeModulus],
                 [bytes |-> bb, time |-> before.ms % TimeModulus])
        = Quotient(Gain(nb, bb), now.ms - before.ms)
  BY <1>2 DEF CycleSpeed
<1>7. Quotient(Gain(nb, bb), now.ms - before.ms)
        = IF nb > bb /\ now.ms > before.ms
          THEN [bytes |-> nb - bb, ms |-> now.ms - before.ms] ELSE NoSpeed
  BY <1>1, <1>3, <1>5 DEF Quotient
<1>8. Meter!TrueSpeed(now, before)
        = IF now.blocks > before.blocks /\ now.ms > before.ms
          THEN [bytes |-> gain, ms |-> now.ms - before.ms] ELSE NoSpeed
  BY DEF Meter!TrueSpeed, NoSpeed, gain, Exact
<1>. QED  BY <1>3, <1>4, <1>6, <1>7, <1>8

\* a refresh is a measurement,
LEMMA RefreshMeasures ==
  ASSUME Exact, IInv, Refresh
  PROVE  Meter!Measure
<1>1. /\ mark' = total /\ total' = total
      /\ data'.speed = [d \in Directions |->
           CycleSpeed(Sample(Loaded[d], BlockSize), data.saved[d])]
  BY RefreshedTypes DEF IInv, Refresh
<1>2. \A d \in Directions : total[d] \in Counter
  BY DEF IInv, TypeOK
<1>3. \A d \in Directions :
        Sample(Loaded[d], BlockSize)
          = [bytes |-> Bytes(total[d].blocks, BlockSize), time |-> total[d].ms % TimeModulus]
  BY DEF Sample, Loaded
<1>4. CASE mark # Unknown
  <2>1. ASSUME NEW d \in Directions
        PROVE  CycleSpeed(Sample(Loaded[d], BlockSize), data.saved[d])
                 = Meter!TrueSpeed(total[d], mark[d])
    <3>1. mark[d] \in Counter
      BY <1>4 DEF IInv, TypeOK
    <3>2. data.saved[d] = [bytes |-> Bytes(mark[d].blocks, BlockSize),
                           time  |-> mark[d].ms % TimeModulus]
      BY <1>4 DEF IInv, SavedIsLastSample
    <3>3. /\ mark[d].blocks <= total[d].blocks /\ mark[d].ms <= total[d].ms
          /\ total[d].ms - mark[d].ms < MaxCycle
      BY <1>4 DEF IInv, MarkIsBehind
    <3>. QED  BY <1>2, <1>3, <3>1, <3>2, <3>3, CycleIsTrue
  <2>. QED  BY <1>1, <1>4, <2>1 DEF Meter!Measure
<1>5. CASE mark = Unknown
  <2>1. ASSUME NEW d \in Directions
        PROVE  data'.speed[d].bytes \in 0..(total[d].blocks * SectorBytes)
    <3> DEFINE now == total[d].blocks * BlockSize
               saved == data.saved[d].bytes
    <3>1. now \in Nat /\ now < FloatExact /\ Bytes(total[d].blocks, BlockSize) = now
      BY <1>2, ExactSample
    <3>2. saved \in Nat
      BY DEF IInv, DataType
    <3>3. Gain(now, saved) \in 0..now
      BY <3>1, <3>2, ExactGain
    <3>4. data'.speed[d] = CycleSpeed([bytes |-> now, time |-> total[d].ms % TimeModulus],
                                      data.saved[d])
      BY <1>1, <1>3, <3>1
    <3> HIDE DEF now, saved
    <3>5. data'.speed[d].bytes \in { 0, Gain(now, saved) }
      BY <3>4 DEF CycleSpeed, Quotient, NoSpeed, saved
    <3>6. 0 \in 0..now
      BY <3>1
    <3>. QED  BY <3>3, <3>5, <3>6 DEF now, Exact
  <2>. QED  BY <1>1, <1>5, <2>1 DEF Meter!Measure
<1>. QED  BY <1>4, <1>5

\* the counters are counters of the meter,
LEMMA CountersAreNatural == Counter \subseteq Meter!Counter
BY CycleAssumption DEF Counter, Meter!Counter

\* and a request is a transfer of the meter.
LEMMA TransferIsTransfer ==
  ASSUME NEW d \in Directions, IInv, IInv', Transfer(d)
  PROVE  Meter!Transfer
<1>1. PICK b \in (total[d].blocks + 1)..MaxBlocks, t \in total[d].ms..MaxMs :
        total' = [total EXCEPT ![d] = [blocks |-> b, ms |-> t]]
  BY DEF Transfer
<1>2. \A e \in Directions : total[e].blocks \in Nat /\ total[e].ms \in Nat
  BY CycleAssumption DEF IInv, TypeOK, Counter
<1>3. \A e \in Directions : /\ total'[e].blocks >= total[e].blocks
                            /\ total'[e].ms >= total[e].ms
  BY <1>1, <1>2, CycleAssumption DEF IInv, TypeOK
<1>4. total' \in [Directions -> Meter!Counter]
  BY CountersAreNatural DEF IInv, TypeOK
<1>. QED  BY <1>3, <1>4 DEF Meter!Transfer, Transfer

(***************************************************************************)
(* Under these conditions the speeds of refresh() (data.cc:32) are exactly *)
(* those of SpeedMeter: across any wrap of the counters, any failed        *)
(* refresh and any change of the disk.                                     *)
(***************************************************************************)
THEOREM ExactSpeedIsTrue ==
  ASSUME Exact
  PROVE  Spec => MeasuresTrueSpeed
<1>1. Init => Meter!Init
  BY CountersAreNatural DEF Init, Meter!Init, NewData, NoSpeed
<1>2. ASSUME IInv, IInv', [Next]_vars
      PROVE  [Meter!Next]_(Meter!vars)
  <2>1. ASSUME NEW d \in Directions, Transfer(d)  PROVE Meter!Next
    BY <1>2, <2>1, TransferIsTransfer DEF Meter!Next
  <2>2. CASE Unplug
    BY <2>2 DEF Unplug, Meter!vars
  <2>3. CASE Plug
    <3>1. total' \in [Directions -> Meter!Counter]
      BY <1>2, CountersAreNatural DEF IInv, TypeOK
    <3>. QED  BY <2>3, <3>1 DEF Plug, Meter!Next, Meter!Replace
  <2>4. CASE Refresh
    BY <1>2, <2>4, RefreshMeasures DEF Meter!Next
  <2>5. CASE UNCHANGED vars
    BY <2>5 DEF vars, Meter!vars
  <2>. QED  BY <1>2, <2>1, <2>2, <2>3, <2>4, <2>5 DEF Next
<1>. QED  BY <1>1, <1>2, InvariantHolds, PTL DEF Spec, MeasuresTrueSpeed, Meter!Spec

-----------------------------------------------------------------------------
(***************************************************************************)
(* Where totals have outgrown the float: the bytes of a disk are within    *)
(* half a unit of the true ones.  A block size is a power of two, so only  *)
(* the conversion of the blocks rounds.                                    *)
(***************************************************************************)
LEMMA BytesAreNear ==
  ASSUME FloatExact % 2 = 0, NEW b \in Powers, NEW n \in Nat
  PROVE  \E k \in 0..FloatExact : /\ Bytes(n, b) = k * Ulp(n * b)
                                  /\ 2 * (n * b - k * Ulp(n * b)) <= Ulp(n * b)
                                  /\ 2 * (k * Ulp(n * b) - n * b) <= Ulp(n * b)
<1>1. b \in Nat \ {0} /\ FloatExact \in Nat \ {0} /\ n * b \in Nat
  BY WidthsAssumption DEF Powers
<1>2. CASE n < FloatExact
  <2>1. Bytes(n, b) = Float(n * b)
    BY <1>2 DEF Bytes, Float
  <2>. QED  BY <1>1, <2>1, FloatIsNear
<1>3. CASE ~(n < FloatExact)
  <2> DEFINE u == Ulp(n)
             w == Ulp(n * b)
  <2>1. /\ u \in Nat \ {0} /\ u \in Powers /\ FloatExact * u <= 2 * n
        /\ n < FloatExact * u
    <3>1. u = 1 => FloatExact * u <= 2 * n
      BY <1>1, <1>3
    <3>. QED  BY <3>1, UlpIsPositive, UlpBounds
  <2>2. /\ w \in Nat \ {0} /\ w \in Powers
        /\ w = 1 \/ FloatExact * w <= 2 * (n * b)
        /\ \A v \in Powers : FloatExact * v <= 2 * (n * b) => v <= w
    BY <1>1, UlpIsPositive, UlpBounds
  <2>3. PICK k \in 0..FloatExact : /\ Float(n) = k * u
                                   /\ 2 * (n - k * u) <= u
                                   /\ 2 * (k * u - n) <= u
    BY FloatIsNear
  <2> HIDE DEF u, w
  <2>4. u * b \in Powers /\ u * b \in Nat \ {0}
    BY <2>1, PowerProduct DEF Powers
  <2>5. w = u * b
    <3>1. u * b <= w
      <4>1. (FloatExact * u) * b <= (2 * n) * b
        BY <1>1, <2>1
      <4>2. FloatExact * (u * b) <= 2 * (n * b)
        BY <1>1, <2>1, <4>1
      <4>. QED  BY <2>2, <2>4, <4>2
    <3>2. w <= u * b
      <4>1. CASE w = 1
        BY <2>4, <4>1
      <4>2. CASE FloatExact * w <= 2 * (n * b)
        <5>1. n * b < (FloatExact * u) * b
          BY <1>1, <2>1
        <5>2. FloatExact * w < FloatExact * (2 * (u * b))
          BY <1>1, <2>1, <2>2, <4>2, <5>1
        <5>3. w < 2 * (u * b)
          <6>1. w >= 2 * (u * b) => FloatExact * w >= FloatExact * (2 * (u * b))
            BY <1>1, <2>2, <2>4
          <6>2. /\ FloatExact * w \in Nat
                /\ FloatExact * (2 * (u * b)) \in Nat
            BY <1>1, <2>2, <2>4
          <6>. QED  BY <2>2, <2>4, <5>2, <6>1, <6>2
        <5>. QED  BY <2>2, <2>4, <5>3, PowerBelow
      <4>. QED  BY <2>2, <4>1, <4>2
    <3>. QED  BY <2>2, <2>4, <3>1, <3>2
  <2>6. (k * u) * b = k * w /\ k \in Nat
    BY <1>1, <2>1, <2>5
  <2>7. Bytes(n, b) = k * w
    BY <2>2, <2>3, <2>6, FloatOfMultiple DEF Bytes
  <2>8. 2 * (n * b - k * w) <= w /\ 2 * (k * w - n * b) <= w
    <3>1. /\ (2 * (n - k * u)) * b <= u * b
          /\ (2 * (k * u - n)) * b <= u * b
      BY <1>1, <2>1, <2>3, <2>6
    <3>2. /\ (2 * (n - k * u)) * b = 2 * (n * b - (k * u) * b)
          /\ (2 * (k * u - n)) * b = 2 * ((k * u) * b - n * b)
      BY <1>1, <2>1, <2>6
    <3>. QED  BY <2>5, <2>6, <3>1, <3>2
  <2>. QED  BY <2>7, <2>8 DEF w
<1>. QED  BY <1>2, <1>3

(***************************************************************************)
(* What is gained between two totals is within 5/4 of a unit of the later  *)
(* one: with the same unit in both, each is half a unit off and their      *)
(* difference is a float; otherwise the earlier one's error is half that,  *)
(* and the difference rounds by half a unit again.                         *)
(***************************************************************************)
LEMMA GainIsNear ==
  ASSUME FloatExact % 2 = 0, NEW n \in Nat, NEW m \in Nat, m <= n,
         NEW k \in 0..FloatExact, NEW j \in 0..FloatExact,
         2 * (n - k * Ulp(n)) <= Ulp(n), 2 * (k * Ulp(n) - n) <= Ulp(n),
         2 * (m - j * Ulp(m)) <= Ulp(m), 2 * (j * Ulp(m) - m) <= Ulp(m)
  PROVE  /\ Gain(k * Ulp(n), j * Ulp(m)) \in Nat
         /\ 4 * Distance(Gain(k * Ulp(n), j * Ulp(m)), n - m) <= 5 * Ulp(n)
<1> DEFINE u == Ulp(n)
           v == Ulp(m)
           a == k * u
           b == j * v
<1>1. /\ FloatExact \in Nat \ {0} /\ u \in Powers /\ v \in Powers
      /\ u \in Nat \ {0} /\ v \in Nat \ {0} /\ v <= u
      /\ k \in Nat /\ j \in Nat /\ k <= FloatExact
  BY WidthsAssumption, UlpIsPositive, UlpBounds, UlpGrows
<1> HIDE DEF u, v
<1>2. /\ a \in Nat /\ b \in Nat
      /\ 2 * (n - a) <= u /\ 2 * (a - n) <= u
      /\ 2 * (m - b) <= v /\ 2 * (b - m) <= v
  BY <1>1 DEF u, v
<1>3. a <= FloatExact * u
  BY <1>1
<1>4. u = v => \E i \in 0..FloatExact : a - b = i * u \/ a <= b
  <2> SUFFICES ASSUME u = v, b < a
               PROVE  \E i \in 0..FloatExact : a - b = i * u
    BY <1>1, <1>2
  <2>1. a - b = (k - j) * u
    BY <1>1
  <2>2. k - j >= 0
    <3>1. k - j <= -1 => (k - j) * u <= -u
      BY <1>1
    <3>. QED  BY <1>1, <1>2, <2>1, <3>1
  <2>3. k - j \in 0..FloatExact
    BY <1>1, <2>2
  <2>. QED  BY <2>1, <2>3
<1>5. u # v => 2 * v <= u
  <2> SUFFICES ASSUME u # v  PROVE 2 * v <= u
    OBVIOUS
  <2>1. ~(u < 2 * v)
    BY <1>1, PowerBelow
  <2>. QED  BY <1>1, <2>1
<1> HIDE DEF a, b
<1>6. CASE a <= b
  <2>1. Gain(a, b) = 0
    BY <1>2, <1>6 DEF Gain
  <2>2. Distance(0, n - m) = n - m
    BY DEF Distance
  <2>. QED  BY <1>1, <1>2, <1>6, <2>1, <2>2 DEF a, b, u, v
<1>7. CASE b < a /\ u = v
  <2>1. PICK i \in 0..FloatExact : a - b = i * u
    BY <1>2, <1>4, <1>7
  <2>2. Float(a - b) = a - b
    BY <1>1, <2>1, FloatOfMultiple
  <2>3. Gain(a, b) = a - b
    BY <1>2, <1>7, <2>2 DEF Gain
  <2>4. 4 * Distance(a - b, n - m) <= 5 * u
    BY <1>1, <1>2, <1>7 DEF Distance
  <2>. QED  BY <1>2, <1>7, <2>3, <2>4 DEF a, b, u, v
<1>8. CASE b < a /\ u # v
  <2> DEFINE g == a - b
  <2>1. g \in Nat \ {0} /\ g <= FloatExact * u /\ Gain(a, b) = Float(g)
    BY <1>2, <1>3, <1>8, <1>1 DEF Gain
  <2> HIDE DEF g
  <2>2. /\ Float(g) \in Nat
        /\ 2 * (g - Float(g)) <= u /\ 2 * (Float(g) - g) <= u
    <3>1. CASE g = FloatExact * u
      <4>1. Float(g) = g
        BY <1>1, <3>1, FloatOfMultiple
      <4>. QED  BY <1>1, <2>1, <4>1
    <3>2. CASE g # FloatExact * u
      <4> DEFINE t == Ulp(g)
      <4>1. /\ t \in Nat \ {0} /\ t \in Powers /\ (t = 1 \/ FloatExact * t <= 2 * g)
        BY <2>1, UlpIsPositive, UlpBounds
      <4>2. PICK i \in 0..FloatExact : /\ Float(g) = i * t
                                       /\ 2 * (g - i * t) <= t
                                       /\ 2 * (i * t - g) <= t
        BY <2>1, FloatIsNear
      <4> HIDE DEF t
      <4>3. t <= u
        <5>1. CASE t = 1
          BY <1>1, <5>1
        <5>2. CASE FloatExact * t <= 2 * g
          <6>1. g < FloatExact * u
            BY <1>1, <2>1, <3>2
          <6>2. FloatExact * t < FloatExact * (2 * u)
            BY <1>1, <2>1, <4>1, <5>2, <6>1
          <6>3. t >= 2 * u => FloatExact * t >= FloatExact * (2 * u)
            BY <1>1, <4>1
          <6>4. FloatExact * t \in Nat /\ FloatExact * (2 * u) \in Nat
            BY <1>1, <4>1
          <6>5. t < 2 * u
            BY <1>1, <4>1, <6>2, <6>3, <6>4
          <6>. QED  BY <1>1, <4>1, <6>5, PowerBelow
        <5>. QED  BY <4>1, <5>1, <5>2
      <4>4. Float(g) \in Nat
        BY <2>1, FloatIsNatural
      <4>. QED  BY <1>1, <2>1, <4>1, <4>2, <4>3, <4>4
    <3>. QED  BY <3>1, <3>2
  <2>3. 2 * v <= u
    BY <1>5, <1>8
  <2>4. 4 * Distance(Float(g), n - m) <= 5 * u
    BY <1>1, <1>2, <2>1, <2>2, <2>3 DEF Distance, g
  <2>. QED  BY <2>1, <2>2, <2>4 DEF a, b, u, v
<1>. QED  BY <1>1, <1>2, <1>6, <1>7, <1>8

(***************************************************************************)
(* The disk's blocks are the kernel's sectors, of a power of two bytes;    *)
(* FloatExact is one too, or at least even; and the milliseconds of a      *)
(* cycle, but not the bytes of a disk, are a number that a float holds.    *)
(***************************************************************************)
Rounding ==
  /\ BlockSize = SectorBytes
  /\ BlockSize \in Powers
  /\ FloatExact % 2 = 0
  /\ MaxCycle <= FloatExact

\* The speed of a cycle is near the true one.
LEMMA CycleIsNear ==
  ASSUME Rounding, NEW now \in Counter, NEW before \in Counter,
         before.blocks <= now.blocks, before.ms <= now.ms,
         now.ms - before.ms < MaxCycle
  PROVE  LET true == Meter!TrueSpeed(now, before)
             shown == CycleSpeed([bytes |-> Bytes(now.blocks, BlockSize),
                                  time  |-> now.ms % TimeModulus],
                                 [bytes |-> Bytes(before.blocks, BlockSize),
                                  time  |-> before.ms % TimeModulus])
         IN  /\ 4 * Distance(shown.bytes, true.bytes) <= 5 * Ulp(now.blocks * BlockSize)
             /\ true.bytes = 0 => shown = NoSpeed
             /\ shown # NoSpeed => shown.ms = true.ms
<1> DEFINE n == now.blocks * BlockSize
           m == before.blocks * BlockSize
           t == now.ms - before.ms
           x == Bytes(now.blocks, BlockSize)
           y == Bytes(before.blocks, BlockSize)
           true == Meter!TrueSpeed(now, before)
           shown == CycleSpeed([bytes |-> x, time |-> now.ms % TimeModulus],
                               [bytes |-> y, time |-> before.ms % TimeModulus])
<1>1. /\ now.blocks \in Nat /\ before.blocks \in Nat
      /\ now.ms \in Nat /\ before.ms \in Nat /\ t \in Nat
      /\ BlockSize \in Nat \ {0} /\ BlockSize \in Powers
  BY CycleAssumption DEF Counter, Rounding
<1>2. n \in Nat /\ m \in Nat /\ m <= n /\ (now.blocks > before.blocks <=> n > m)
  <2>1. n - m = (now.blocks - before.blocks) * BlockSize
    BY <1>1
  <2>2. now.blocks - before.blocks \in Nat
    BY <1>1
  <2>3. /\ n \in Nat /\ m \in Nat
        /\ n - m >= 0
        /\ (now.blocks - before.blocks) > 0 <=> n - m > 0
    BY <1>1, <2>1, <2>2
  <2>. QED  BY <1>1, <2>3
<1>3. /\ Gain(x, y) \in Nat
      /\ 4 * Distance(Gain(x, y), n - m) <= 5 * Ulp(n)
  <2>1. PICK k \in 0..FloatExact : /\ x = k * Ulp(n)
                                   /\ 2 * (n - k * Ulp(n)) <= Ulp(n)
                                   /\ 2 * (k * Ulp(n) - n) <= Ulp(n)
    BY <1>1, BytesAreNear DEF Rounding
  <2>2. PICK j \in 0..FloatExact : /\ y = j * Ulp(m)
                                   /\ 2 * (m - j * Ulp(m)) <= Ulp(m)
                                   /\ 2 * (j * Ulp(m) - m) <= Ulp(m)
    BY <1>1, BytesAreNear DEF Rounding
  <2> HIDE DEF n, m, x, y
  <2>. QED  BY <1>2, <2>1, <2>2, GainIsNear DEF Rounding
<1>4. now.blocks = before.blocks => Gain(x, y) = 0
  <2>1. now.blocks = before.blocks => x = y
    OBVIOUS
  <2>2. x \in Nat
    BY <1>1, FloatIsNatural DEF Bytes
  <2> HIDE DEF x, y
  <2>. QED  BY <2>1, <2>2 DEF Gain
<1>5. shown = Quotient(Gain(x, y), t)
  BY ExactElapsed DEF CycleSpeed, Rounding
<1>6. true = IF n > m /\ t > 0 THEN [bytes |-> n - m, ms |-> t] ELSE NoSpeed
  <2>1. now.ms > before.ms <=> t > 0
    BY <1>1
  <2>2. (now.blocks - before.blocks) * SectorBytes = n - m
    BY <1>1 DEF Rounding
  <2>. QED  BY <1>2, <2>1, <2>2 DEF Meter!TrueSpeed, NoSpeed
<1>7. Ulp(n) \in Nat /\ Distance(0, 0) = 0
  BY <1>2, UlpIsPositive DEF Distance
<1>8. n = m => Gain(x, y) = 0
  BY <1>1, <1>2, <1>4
<1> HIDE DEF n, m, t, x, y, true, shown
<1>9. /\ 4 * Distance(shown.bytes, true.bytes) <= 5 * Ulp(n)
      /\ true.bytes = 0 => shown = NoSpeed
      /\ shown # NoSpeed => shown.ms = true.ms
  <2>1. CASE n > m /\ t > 0
    <3>1. true.bytes = n - m /\ true.ms = t
      BY <1>6, <2>1
    <3>2. /\ shown.bytes = Gain(x, y)
          /\ shown # NoSpeed => shown.ms = t
      BY <1>3, <1>5, <2>1 DEF Quotient, NoSpeed
    <3>. QED  BY <1>2, <1>3, <2>1, <3>1, <3>2
  <2>2. CASE ~(n > m /\ t > 0)
    <3>1. shown = NoSpeed
      BY <1>1, <1>2, <1>5, <1>8, <2>2 DEF Quotient
    <3>2. true = NoSpeed
      BY <1>6, <2>2
    <3>. QED  BY <1>7, <3>1, <3>2 DEF NoSpeed
  <2>. QED  BY <2>1, <2>2
<1>. QED  BY <1>9 DEF n, x, y, true, shown

(***************************************************************************)
(* However large the totals, each speed that refresh() (data.cc:32-65)     *)
(* shows from the second sample of a disk on is within 5/4 of a unit in    *)
(* the last place of the total, and none is invented.                      *)
(***************************************************************************)
THEOREM RoundedSpeedIsNear ==
  ASSUME Rounding
  PROVE  Spec => RoundingIsBounded
<1>1. ASSUME IInv, Refresh, mark # Unknown, NEW d \in Directions
      PROVE  LET true == Meter!TrueSpeed(total[d], mark[d])
                 shown == data'.speed[d]
             IN  /\ 4 * Distance(shown.bytes, true.bytes)
                      <= 5 * Ulp(total[d].blocks * BlockSize)
                 /\ true.bytes = 0 => shown = NoSpeed
                 /\ shown # NoSpeed => shown.ms = true.ms
  <2>1. data'.speed[d] = CycleSpeed(Sample(Loaded[d], BlockSize), data.saved[d])
    BY <1>1, RefreshedTypes DEF IInv, Refresh
  <2>2. /\ Sample(Loaded[d], BlockSize)
             = [bytes |-> Bytes(total[d].blocks, BlockSize),
                time  |-> total[d].ms % TimeModulus]
        /\ data.saved[d] = [bytes |-> Bytes(mark[d].blocks, BlockSize),
                            time  |-> mark[d].ms % TimeModulus]
    BY <1>1 DEF IInv, SavedIsLastSample, Sample, Loaded
  <2>3. /\ total[d] \in Counter /\ mark[d] \in Counter
        /\ mark[d].blocks <= total[d].blocks /\ mark[d].ms <= total[d].ms
        /\ total[d].ms - mark[d].ms < MaxCycle
    BY <1>1 DEF IInv, TypeOK, MarkIsBehind
  <2>. QED  BY <2>1, <2>2, <2>3, CycleIsNear
<1>2. IInv /\ [Next]_vars =>
        [Refresh /\ mark # Unknown =>
           \A d \in Directions :
             LET true == Meter!TrueSpeed(total[d], mark[d])
                 shown == data'.speed[d]
             IN  /\ 4 * Distance(shown.bytes, true.bytes)
                      <= 5 * Ulp(total[d].blocks * BlockSize)
                 /\ true.bytes = 0 => shown = NoSpeed
                 /\ shown # NoSpeed => shown.ms = true.ms]_vars
  BY <1>1
<1>. QED  BY <1>2, InvariantHolds, PTL DEF Spec, RoundingIsBounded

-----------------------------------------------------------------------------
(***************************************************************************)
(* The rows of the report.  A number of hundredths is within half a one of *)
(* the quotient it is printed for.                                         *)
(***************************************************************************)
LEMMA HundredthsAreNear ==
  ASSUME NEW n \in Nat, NEW d \in Nat \ {0}
  PROVE  /\ Hundredths(n, d) \in Nat
         /\ 2 * Distance(Hundredths(n, d) * d, 100 * n) <= d
<1> DEFINE m == 100 * n
<1>1. m \in Nat
  OBVIOUS
<1> HIDE DEF m
<1>2. PICK k \in Nat : /\ NearestMultiple(m, d) = k * d
                       /\ 2 * (m - k * d) <= d
                       /\ 2 * (k * d - m) <= d
  BY <1>1, MultipleIsNear
<1>3. (k * d) \div d = k
  BY MultiplesLeaveNothing
<1>4. Hundredths(n, d) = k
  BY <1>2, <1>3 DEF Hundredths, m
<1>5. 2 * Distance(k * d, m) <= d
  BY <1>1, <1>2 DEF Distance
<1>. QED  BY <1>4, <1>5 DEF m

\* The units by their index, and what each is worth.
LEMMA UnitsAreNamed ==
  /\ DOMAIN UnitNames = 1..5
  /\ DOMAIN Worth = { "B", "KB", "MB", "GB", "TB" }
  /\ \A name \in DOMAIN Worth : \E i \in 1..5 :
       /\ UnitNames[i] = name
       /\ \A j \in 1..5 : UnitNames[j] = name => j = i
       /\ UnitValues[i] = Worth[name]
       /\ Worth[name] \in Nat \ {0}
  /\ \A i \in 1..5 : UnitNames[i] # UnknownUnit
<1>1. /\ DOMAIN UnitNames = 1..5
      /\ UnitNames[1] = "B"  /\ UnitNames[2] = "KB" /\ UnitNames[3] = "MB"
      /\ UnitNames[4] = "GB" /\ UnitNames[5] = "TB"
  BY DEF UnitNames
<1>2. /\ Kilo \in Nat \ {0}
      /\ Kilo * Kilo \in Nat \ {0}
      /\ Kilo * (Kilo * Kilo) \in Nat \ {0}
      /\ Kilo * (Kilo * (Kilo * Kilo)) \in Nat \ {0}
  <2>1. \A a \in Nat \ {0}, b \in Nat \ {0} : a * b \in Nat \ {0}
    OBVIOUS
  <2>. QED  BY <2>1, UnitAssumption
<1>3. /\ Kilo * Kilo * Kilo = Kilo * (Kilo * Kilo)
      /\ Kilo * Kilo * Kilo * Kilo = Kilo * (Kilo * (Kilo * Kilo))
  BY UnitAssumption
<1>4. /\ UnitValues[1] = 1
      /\ UnitValues[2] = Kilo
      /\ UnitValues[3] = Kilo * Kilo
      /\ UnitValues[4] = Kilo * Kilo * Kilo
      /\ UnitValues[5] = Kilo * Kilo * Kilo * Kilo
  BY DEF UnitValues
<1>5. /\ DOMAIN Worth = { "B", "KB", "MB", "GB", "TB" }
      /\ Worth["B"] = 1
      /\ Worth["KB"] = Kilo
      /\ Worth["MB"] = Kilo * Kilo
      /\ Worth["GB"] = Kilo * (Kilo * Kilo)
      /\ Worth["TB"] = Kilo * (Kilo * (Kilo * Kilo))
  BY DEF Worth
<1> DEFINE IsUnit(name, i) ==
             /\ UnitNames[i] = name
             /\ \A j \in 1..5 : UnitNames[j] = name => j = i
             /\ UnitValues[i] = Worth[name]
             /\ Worth[name] \in Nat \ {0}
<1>6. \A j \in 1..5 : j = 1 \/ j = 2 \/ j = 3 \/ j = 4 \/ j = 5
  OBVIOUS
<1>7. /\ IsUnit("B", 1)  /\ IsUnit("KB", 2) /\ IsUnit("MB", 3)
      /\ IsUnit("GB", 4) /\ IsUnit("TB", 5)
  <2>1. IsUnit("B", 1)
    BY <1>1, <1>2, <1>3, <1>4, <1>5, <1>6
  <2>2. IsUnit("KB", 2)
    BY <1>1, <1>2, <1>3, <1>4, <1>5, <1>6
  <2>3. IsUnit("MB", 3)
    BY <1>1, <1>2, <1>3, <1>4, <1>5, <1>6
  <2>4. IsUnit("GB", 4)
    BY <1>1, <1>2, <1>3, <1>4, <1>5, <1>6
  <2>5. IsUnit("TB", 5)
    BY <1>1, <1>2, <1>3, <1>4, <1>5, <1>6
  <2>. QED  BY <2>1, <2>2, <2>3, <2>4, <2>5
<1>8. \A i \in 1..5 : UnitNames[i] # UnknownUnit
  BY <1>1, <1>6 DEF UnknownUnit
<1> HIDE DEF IsUnit
<1>9. \A name \in DOMAIN Worth : \E i \in 1..5 : IsUnit(name, i)
  BY <1>5, <1>7
<1>. QED  BY <1>1, <1>5, <1>8, <1>9 DEF IsUnit

\* UnitFactory gives the index of the unit, from 0,
LEMMA FactoryFinds ==
  ASSUME NEW unit \in DOMAIN Worth \union { NoUnit }
  PROVE  LET name == IF unit = NoUnit THEN "KB" ELSE unit
             index == UnitFactory(unit) + 1
         IN  /\ UnitNames[index] = name
             /\ UnitValues[index] = Worth[name]
             /\ Worth[name] \in Nat \ {0}
<1> DEFINE name == IF unit = NoUnit THEN "KB" ELSE unit
<1>1. name \in DOMAIN Worth
  BY UnitsAreNamed
<1>2. UnitFactory(unit)
        = IF \E i \in DOMAIN UnitNames : UnitNames[i] = name
          THEN (CHOOSE i \in DOMAIN UnitNames : UnitNames[i] = name) - 1
          ELSE Refused
  BY DEF UnitFactory
<1> HIDE DEF name
<1>3. PICK i \in 1..5 :
        /\ UnitNames[i] = name
        /\ \A j \in 1..5 : UnitNames[j] = name => j = i
        /\ UnitValues[i] = Worth[name]
        /\ Worth[name] \in Nat \ {0}
  BY <1>1, UnitsAreNamed
<1>4. DOMAIN UnitNames = 1..5
  BY UnitsAreNamed
<1>5. (CHOOSE j \in DOMAIN UnitNames : UnitNames[j] = name) = i
  BY <1>3, <1>4
<1>6. UnitFactory(unit) + 1 = i
  BY <1>2, <1>3, <1>4, <1>5
<1>. QED  BY <1>3, <1>6 DEF name

\* and refuses any other name.
LEMMA FactoryRefuses == UnitFactory(UnknownUnit) = Refused
BY UnitsAreNamed, UnitAssumption DEF UnitFactory

(***************************************************************************)
(* The float of a quotient: the parts that make one are a power of two,    *)
(* enough for FloatExact of them, and it is half a last place off at most. *)
(***************************************************************************)
LEMMA ScaleIsFound ==
  ASSUME NEW n \in Nat \ {0}, NEW d \in Nat \ {0}
  PROVE  Scale(n, d) \in Nat \ {0} /\ Scale(n, d) * n >= FloatExact * d
<1> DEFINE m == FloatExact * d
           k == Ulp(FloatExact * m)
<1>1. FloatExact \in Nat \ {0} /\ m \in Nat \ {0} /\ FloatExact * m \in Nat
  <2>1. \A a, b \in Nat \ {0} : a * b \in Nat \ {0}
    OBVIOUS
  <2>. QED  BY <2>1, WidthsAssumption
<1>2. /\ k \in Powers /\ (k = 1 \/ FloatExact * k <= 2 * (FloatExact * m))
      /\ FloatExact * m < FloatExact * k
  BY <1>1, UlpBounds
<1>3. k \in Nat \ {0} /\ IsPowerOfTwo(k)
  BY <1>2 DEF Powers
<1> HIDE DEF k
<1>4. 2 * FloatExact * d = 2 * m
  BY <1>1
<1> HIDE DEF m
<1>5. m < k
  <2>1. \A a, b \in Nat : a >= b => FloatExact * a >= FloatExact * b
    BY <1>1
  <2>2. FloatExact * k \in Int
    BY <1>1, <1>3
  <2>. QED  BY <1>1, <1>2, <1>3, <2>1, <2>2
<1>6. k <= 2 * m
  <2>1. FloatExact * k <= FloatExact * (2 * m)
    BY <1>1, <1>2, <1>3, <1>5
  <2>2. \A a, b \in Nat : a > b => FloatExact * a > FloatExact * b
    BY <1>1
  <2>3. FloatExact * k \in Int /\ FloatExact * (2 * m) \in Int /\ 2 * m \in Nat
    BY <1>1, <1>3
  <2>. QED  BY <1>1, <1>3, <2>1, <2>2, <2>3
<1>7. k * n >= m
  <2>1. k * n >= k * 1
    BY <1>3
  <2>. QED  BY <1>1, <1>3, <1>5, <2>1
<1>8. k \in 1..(2 * FloatExact * d) /\ k * n >= FloatExact * d
  BY <1>1, <1>3, <1>4, <1>6, <1>7 DEF m
<1>9. /\ Scale(n, d) \in 1..(2 * FloatExact * d)
      /\ Scale(n, d) * n >= FloatExact * d
  BY <1>3, <1>8 DEF Scale
<1>. QED  BY <1>9

\* How far off that is, where the bound is that of FloatExact.
LEMMA SpeedFloatIsNear ==
  ASSUME NEW n \in Nat \ {0}, NEW d \in Nat \ {0}
  PROVE  LET f == SpeedFloat(n, d)
         IN  /\ f.parts \in Nat /\ f.scale \in Nat \ {0}
             /\ FloatExact * Distance(f.parts * d, f.scale * n) <= f.scale * n
<1> DEFINE k == Scale(n, d)
           x == k * n
           q == x \div d
           u == Ulp(q)
           w == u * d
<1>1. /\ FloatExact \in Nat \ {0} /\ k \in Nat \ {0} /\ x \in Nat
      /\ x >= FloatExact * d
  BY WidthsAssumption, ScaleIsFound
<1> HIDE DEF k, x
<1>2. q \in Nat /\ q * d <= x /\ x < (q + 1) * d
  <2>1. q \in Nat /\ x % d \in 0..(d - 1) /\ x = q * d + (x % d)
    BY <1>1
  <2> HIDE DEF q
  <2>2. (q + 1) * d = q * d + d /\ q * d \in Nat
    BY <2>1
  <2>. QED  BY <2>1, <2>2
<1> HIDE DEF q
<1>3. FloatExact <= q
  <2>1. FloatExact >= q + 1 => FloatExact * d >= (q + 1) * d
    BY <1>1, <1>2
  <2>2. FloatExact * d \in Int /\ (q + 1) * d \in Int
    BY <1>1, <1>2
  <2>. QED  BY <1>1, <1>2, <2>1, <2>2
<1>4. u \in Nat \ {0} /\ FloatExact * u <= 2 * q
  <2>1. u \in Nat \ {0} /\ (u = 1 \/ FloatExact * u <= 2 * q)
    BY <1>2, UlpBounds, UlpIsPositive
  <2>. QED  BY <1>1, <1>2, <1>3, <2>1
<1> HIDE DEF u
<1>5. w \in Nat \ {0} /\ FloatExact * w <= 2 * x
  <2>1. w \in Nat \ {0}
    BY <1>4
  <2>2. FloatExact * w = (FloatExact * u) * d
    BY <1>1, <1>4
  <2>3. (FloatExact * u) * d <= (2 * q) * d
    <3>1. FloatExact * u \in Nat /\ 2 * q \in Nat
      BY <1>1, <1>2, <1>4
    <3>2. \A a, b \in Nat : a <= b => a * d <= b * d
      OBVIOUS
    <3>. QED  BY <1>4, <3>1, <3>2
  <2>4. (2 * q) * d = 2 * (q * d) /\ q * d \in Int
    BY <1>2
  <2>5. FloatExact * w \in Int
    BY <1>1, <2>1
  <2>. QED  BY <1>1, <1>2, <2>1, <2>2, <2>3, <2>4, <2>5
<1>6. w = u * d
  OBVIOUS
<1> HIDE DEF w
<1>7. PICK m \in Nat : /\ NearestMultiple(x, w) = m * w
                       /\ 2 * (x - m * w) <= w
                       /\ 2 * (m * w - x) <= w
  BY <1>1, <1>5, MultipleIsNear
<1>8. m * w = (m * u) * d /\ m * u \in Nat
  BY <1>4, <1>6, <1>7
<1>9. (m * w) \div d = m * u
  BY <1>8, MultiplesLeaveNothing
<1>10. SpeedFloat(n, d) = [parts |-> m * u, scale |-> k]
  BY <1>6, <1>7, <1>9 DEF SpeedFloat, w, u, q, x, k
<1> DEFINE y == m * w
           e == Distance(y, x)
<1>11. y \in Nat /\ 2 * e <= w /\ e \in Nat
  <2>1. y \in Nat
    BY <1>5, <1>7
  <2>. QED  BY <1>1, <1>5, <1>7, <2>1 DEF Distance
<1> HIDE DEF e
<1>12. FloatExact * e <= x
  <2>1. FloatExact * (2 * e) <= FloatExact * w
    BY <1>1, <1>5, <1>11
  <2>2. FloatExact * (2 * e) = 2 * (FloatExact * e)
    BY <1>1, <1>11
  <2>3. FloatExact * e \in Int /\ FloatExact * w \in Int
    BY <1>1, <1>5, <1>11
  <2>. QED  BY <1>1, <1>5, <2>1, <2>2, <2>3
<1>. QED  BY <1>1, <1>8, <1>10, <1>12 DEF e, y, x

\* Two distances, the first in parts of the second, add up.
LEMMA DistancesAdd ==
  ASSUME NEW a \in Int, NEW b \in Int, NEW c \in Int
  PROVE  Distance(a, c) <= Distance(a, b) + Distance(b, c)
BY DEF Distance

\* A distance grows with what it is measured in.
LEMMA DistanceScales ==
  ASSUME NEW a \in Int, NEW b \in Int, NEW m \in Nat \ {0}
  PROVE  Distance(m * a, m * b) = m * Distance(a, b)
<1>1. a >= b <=> m * a >= m * b
  <2>1. a >= b => m * a >= m * b
    OBVIOUS
  <2>2. a < b => m * a < m * b
    OBVIOUS
  <2>. QED  BY <2>1, <2>2
<1>2. m * (a - b) = m * a - m * b /\ m * (b - a) = m * b - m * a
  OBVIOUS
<1>. QED  BY <1>1, <1>2 DEF Distance

\* The amount of a row, from the float: both roundings, in one bound.
LEMMA AmountIsNear ==
  ASSUME NEW n \in Nat \ {0}, NEW d \in Nat \ {0}, NEW worth \in Nat \ {0},
         NEW a, a = Hundredths(SpeedFloat(n, d).parts, SpeedFloat(n, d).scale * worth)
  PROVE  /\ a \in Nat
         /\ 2 * FloatExact * Distance(a * worth * d, 100 * n)
              <= FloatExact * worth * d + 200 * n
<1> DEFINE f == SpeedFloat(n, d).parts
           k == SpeedFloat(n, d).scale
           F == FloatExact
<1>1. /\ F \in Nat \ {0} /\ f \in Nat /\ k \in Nat \ {0}
      /\ F * Distance(f * d, k * n) <= k * n
  BY WidthsAssumption, SpeedFloatIsNear
<1>2. a = Hundredths(f, k * worth)
  OBVIOUS
<1> HIDE DEF f, k, F
<1>3. k * worth \in Nat \ {0}
  BY <1>1
<1>4. a \in Nat /\ 2 * Distance(a * (k * worth), 100 * f) <= k * worth
  BY <1>1, <1>2, <1>3, HundredthsAreNear
<1> DEFINE r == a * (k * worth)
           s == 100 * f
           x == k * n
           v == a * worth * d
           rounding == Distance(r, s)
           error == Distance(f * d, x)
<1>5. /\ r \in Nat /\ s \in Nat /\ x \in Nat /\ v \in Nat /\ f * d \in Nat
      /\ r * d \in Int /\ s * d \in Int
  BY <1>1, <1>3, <1>4
<1>6. Distance(r * d, s * d) = d * rounding
  <2>1. Distance(d * r, d * s) = d * rounding
    BY <1>5, DistanceScales
  <2>2. d * r = r * d /\ d * s = s * d
    BY <1>5
  <2>. QED  BY <2>1, <2>2
<1>7. Distance(s * d, 100 * x) = 100 * error
  <2>1. s * d = 100 * (f * d)
    BY <1>1
  <2>. QED  BY <1>5, <2>1, DistanceScales
<1>8. Distance(r * d, 100 * x) = k * Distance(v, 100 * n)
  <2>1. r * d = k * v
    <3>1. a * (k * worth) = k * (a * worth)
      BY <1>1, <1>4
    <3>2. \A b \in Nat : (k * b) * d = k * (b * d)
      BY <1>1
    <3>3. a * worth \in Nat
      BY <1>4
    <3>. QED  BY <3>1, <3>2, <3>3
  <2>2. 100 * x = k * (100 * n)
    BY <1>1
  <2>3. 100 * n \in Int
    OBVIOUS
  <2>. QED  BY <1>1, <1>5, <2>1, <2>2, <2>3, DistanceScales
<1>9. rounding \in Nat /\ error \in Nat /\ Distance(v, 100 * n) \in Nat
  BY <1>5 DEF Distance
<1>10. Distance(r * d, 100 * x) <= Distance(r * d, s * d) + Distance(s * d, 100 * x)
  BY <1>5, DistancesAdd
<1> DEFINE far == Distance(v, 100 * n)
<1>11. k * far <= d * rounding + 100 * error
  BY <1>6, <1>7, <1>8, <1>10
<1>12. 2 * rounding <= k * worth /\ F * error <= x
  BY <1>1, <1>4
<1>13. x = k * n
  OBVIOUS
<1>14. 2 * F * Distance(a * worth * d, 100 * n) = 2 * F * far
  OBVIOUS
<1> HIDE DEF r, s, v, rounding, error, far, x
<1>15. far \in Nat /\ rounding \in Nat /\ error \in Nat
  BY <1>9 DEF far
<1>16. 2 * (d * rounding) <= k * (worth * d)
  <2>1. d * (2 * rounding) <= d * (k * worth)
    BY <1>3, <1>12, <1>15
  <2>2. d * (2 * rounding) = 2 * (d * rounding) /\ d * (k * worth) = k * (worth * d)
    BY <1>1, <1>15
  <2>. QED  BY <2>1, <2>2
<1>17. k * (2 * F * far) <= k * (F * worth * d + 200 * n)
  <2>1. 2 * (k * far) <= k * (worth * d) + 200 * error
    <3>1. k * far \in Int /\ d * rounding \in Int /\ k * (worth * d) \in Int
      BY <1>1, <1>15
    <3>. QED  BY <1>11, <1>15, <1>16, <3>1
  <2>2. F * (2 * (k * far)) <= F * (k * (worth * d) + 200 * error)
    <3>1. 2 * (k * far) \in Int /\ k * (worth * d) + 200 * error \in Int
      BY <1>1, <1>15
    <3>2. \A b, c \in Int : b <= c => F * b <= F * c
      BY <1>1
    <3>. QED  BY <2>1, <3>1, <3>2
  <2>3. F * (2 * (k * far)) = k * (2 * F * far)
    BY <1>1, <1>15
  <2>4. F * (k * (worth * d) + 200 * error)
          = F * (k * (worth * d)) + 200 * (F * error)
    <3>1. k * (worth * d) \in Int
      BY <1>1
    <3>. QED  BY <1>1, <1>15, <3>1
  <2>5. F * (k * (worth * d)) = k * (F * worth * d)
    BY <1>1
  <2>6. k * (F * worth * d + 200 * n) = k * (F * worth * d) + 200 * (k * n)
    <3>1. F * worth * d \in Int
      BY <1>1
    <3>. QED  BY <1>1, <3>1
  <2> DEFINE p == k * (F * worth * d)
             q == F * error
             t == k * n
  <2>7. p \in Int /\ q \in Int /\ t \in Int /\ q <= t
    BY <1>1, <1>12, <1>13, <1>15
  <2>8. k * (2 * F * far) <= p + 200 * q
    BY <2>2, <2>3, <2>4, <2>5
  <2>9. k * (F * worth * d + 200 * n) = p + 200 * t
    BY <2>6
  <2>10. k * (2 * F * far) \in Int
    BY <1>1, <1>15
  <2> HIDE DEF p, q, t
  <2>. QED  BY <2>7, <2>8, <2>9, <2>10
<1>18. 2 * F * far <= F * worth * d + 200 * n
  <2>1. 2 * F * far \in Int /\ F * worth * d + 200 * n \in Int
    BY <1>1, <1>15
  <2>2. \A b, c \in Int : b > c => k * b > k * c
    BY <1>1
  <2>3. \A b \in Int : k * b \in Int
    BY <1>1
  <2>. QED  BY <1>17, <2>1, <2>2, <2>3
<1>. QED  BY <1>4, <1>14, <1>18 DEF F

(***************************************************************************)
(* Every row of the report tells the speed of its direction, to half a     *)
(* hundredth of the unit it names, which is the one asked for, and to the  *)
(* last place of a float (RowsTellTheSpeed): for every history of the      *)
(* disk, every value of Kilo and Second and every width of the float and   *)
(* of the counters.                                                        *)
(***************************************************************************)
THEOREM RowsAreTrue == Spec => []RowsTellTheSpeed
<1>1. ASSUME IInv,
             NEW unit \in DOMAIN Worth \union { NoUnit }, NEW d \in Directions
      PROVE  LET bytes == Second * data.speed[d].bytes
                 ms == data.speed[d].ms
                 row == ReportedSpeed(data.speed[d], UnitFactory(unit))
                 worth == Worth[row.unit]
             IN  /\ row.unit = IF unit = NoUnit THEN "KB" ELSE unit
                 /\ 2 * FloatExact * Distance(row.amount * worth * ms, 100 * bytes)
                      <= FloatExact * worth * ms + 400 * bytes
  <2> DEFINE name == IF unit = NoUnit THEN "KB" ELSE unit
             bytes == Second * data.speed[d].bytes
             ms == data.speed[d].ms
             row == ReportedSpeed(data.speed[d], UnitFactory(unit))
             worth == Worth[name]
  <2>1. /\ UnitNames[UnitFactory(unit) + 1] = name
        /\ UnitValues[UnitFactory(unit) + 1] = worth
        /\ worth \in Nat \ {0}
    BY FactoryFinds
  <2>2. FloatExact \in Nat \ {0} /\ Second \in Nat \ {0}
    BY WidthsAssumption, UnitAssumption
  <2>3. ms \in Nat /\ bytes \in Nat /\ (ms = 0 <=> bytes = 0)
    <3>1. /\ data.speed[d].bytes \in Nat /\ ms \in Nat
          /\ ms = 0 <=> data.speed[d].bytes = 0
      BY <1>1 DEF IInv, TypeOK, Speeds, NothingInNoTime
    <3>2. \A b \in Nat : Second * b \in Nat /\ (Second * b = 0 <=> b = 0)
      BY <2>2
    <3>. QED  BY <3>1, <3>2
  <2>4. /\ row.unit = name
        /\ row.amount = IF ms = 0 THEN 0
                        ELSE Hundredths(SpeedFloat(bytes, ms).parts,
                                        SpeedFloat(bytes, ms).scale * worth)
    BY <2>1 DEF ReportedSpeed
  <2> DEFINE amount == row.amount
  <2>5. row.unit = name /\ Worth[row.unit] = worth
    BY <2>4
  <2> HIDE DEF name, bytes, ms, row, worth, amount
  <2>6. 2 * FloatExact * Distance(amount * worth * ms, 100 * bytes)
          <= FloatExact * worth * ms + 400 * bytes
    <3>1. CASE ms = 0
      <4>1. amount = 0 /\ bytes = 0
        BY <2>3, <2>4, <3>1 DEF amount
      <4>2. amount * worth * ms = 0 /\ FloatExact * worth * ms = 0 /\ 100 * bytes = 0
            /\ 400 * bytes = 0
        BY <2>1, <2>2, <3>1, <4>1
      <4>3. Distance(0, 0) = 0
        BY DEF Distance
      <4>4. 2 * FloatExact * 0 = 0
        BY <2>2
      <4>. QED  BY <4>2, <4>3, <4>4
    <3>2. CASE ms # 0
      <4>1. /\ ms \in Nat \ {0} /\ bytes \in Nat \ {0}
            /\ amount = Hundredths(SpeedFloat(bytes, ms).parts,
                                   SpeedFloat(bytes, ms).scale * worth)
        BY <2>3, <2>4, <3>2 DEF amount
      <4>2. /\ amount \in Nat
            /\ 2 * FloatExact * Distance(amount * worth * ms, 100 * bytes)
                 <= FloatExact * worth * ms + 200 * bytes
        BY <2>1, <4>1, AmountIsNear
      <4> DEFINE far == Distance(amount * worth * ms, 100 * bytes)
      <4>3. far \in Int
        <5>1. amount * worth * ms \in Int /\ 100 * bytes \in Int
          BY <2>1, <4>1, <4>2
        <5>. QED  BY <5>1 DEF Distance
      <4> HIDE DEF far
      <4>4. 2 * FloatExact * far \in Int /\ FloatExact * worth * ms \in Int
        BY <2>1, <2>2, <4>1, <4>3
      <4>5. 200 * bytes <= 400 * bytes /\ 200 * bytes \in Int /\ 400 * bytes \in Int
        BY <4>1
      <4>. QED  BY <4>2, <4>4, <4>5 DEF far
    <3>. QED  BY <3>1, <3>2
  <2>. QED  BY <2>5, <2>6 DEF name, bytes, ms, row, worth, amount
<1>2. IInv => RowsTellTheSpeed
  BY <1>1, FactoryRefuses DEF RowsTellTheSpeed
<1>. QED  BY <1>2, InvariantHolds, PTL

=============================================================================
