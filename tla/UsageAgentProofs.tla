--------------------------- MODULE UsageAgentProofs ---------------------------
(***************************************************************************)
(* What UsageAgent guarantees for every load, every number of processors,  *)
(* every size of the memory and of the swap and every configuration.       *)
(***************************************************************************)
EXTENDS UsageAgent, SequenceTheorems, WellFoundedInduction, TLAPS

-----------------------------------------------------------------------------
(***************************************************************************)
(* The inductive invariant: TypeOK, the types of what it leaves to the     *)
(* kernel's actions, and that the state is the one of the value.           *)
(***************************************************************************)
KernelTypes ==
  /\ loads \in [1..3 -> Nat]
  /\ cores \in Nat
  /\ total \in Nat
  /\ readable \in BOOLEAN

StateIsOfValue ==
  phase = "started" => state = ComputeState(kind, value)

IInv == TypeOK /\ KernelTypes /\ StateIsOfValue

-----------------------------------------------------------------------------
(***************************************************************************)
(* The first of a nonempty set of indices is one of them and is above none *)
(* of them.                                                                *)
(***************************************************************************)
LEMMA FirstIsLeast ==
  ASSUME NEW S \in SUBSET Nat, S # {}
  PROVE  First(S) \in S /\ \A j \in S : First(S) <= j
<1>1. PICK i \in S : \A j \in S : ~(<<j, i>> \in OpToRel(<, Nat))
  BY WFMin, NatLessThanWellFounded
<1>2. \A j \in S : i <= j
  <2>1. ASSUME NEW j \in S  PROVE ~(j < i)
    BY <1>1 DEF OpToRel
  <2>. QED  BY <2>1
<1>. QED  BY <1>2 DEF First

(***************************************************************************)
(* Every value that a refresh sets is a share: a load is cut at the whole, *)
(* and of the memory and the swap no more is free than there is.           *)
(***************************************************************************)
LEMMA ReadingIsShare ==
  ASSUME TypeOK, KernelTypes
  PROVE  IsShare(Reading)
<1>1. CASE kind = "load"
  <2>1. loads[type + 1] \in Nat /\ 10000 * counted \in Nat
    BY DEF TypeOK, KernelTypes
  <2>2. IsShare(LoadValue(loads[type + 1], counted))
    BY <2>1 DEF LoadValue, IsShare
  <2>. QED  BY <1>1, <2>2 DEF Reading
<1>2. CASE kind = "memory"
  <2>1. IsShare(MemoryValue(total, free))
    BY DEF TypeOK, KernelTypes, MemoryValue, Scaled, IsShare
  <2>. QED  BY <1>2, <2>1 DEF Reading
<1>3. CASE kind = "swap"
  <2>1. IsShare(SwapValue(total, free))
    BY DEF TypeOK, KernelTypes, SwapValue, IsShare
  <2>. QED  BY <1>3, <2>1 DEF Reading
<1>. QED  BY <1>1, <1>2, <1>3 DEF TypeOK, Kinds

(***************************************************************************)
(* The levels are numbered as Levels has them.                             *)
(***************************************************************************)
LEMMA Severities ==
  /\ Severity("ready") = 3
  /\ Severity("warning") = 4
  /\ Severity("error") = 5
  /\ Severity("critical") = 6
<1>1. DOMAIN Levels = 1..6
  BY DEF Levels
<1>2. \A i \in 1..6 : /\ Levels[i] = "ready" <=> i = 3
                      /\ Levels[i] = "warning" <=> i = 4
                      /\ Levels[i] = "error" <=> i = 5
                      /\ Levels[i] = "critical" <=> i = 6
  BY DEF Levels
<1>. QED  BY <1>1, <1>2 DEF Severity

(***************************************************************************)
(* A table of default states rises to 1.                                   *)
(***************************************************************************)
Rises(table) ==
  /\ table # << >>
  /\ \E n \in Nat \ {0} : DOMAIN table = 1..n /\ table[n].max = 100
  /\ \A i \in DOMAIN table : table[i].max \in Nat /\ table[i].level \in LevelSet
  /\ \A i, j \in DOMAIN table : i <= j =>
       /\ table[i].max <= table[j].max
       /\ Severity(table[i].level) <= Severity(table[j].level)

\* Each of the three tables does.
LEMMA TablesRise ==
  ASSUME NEW k \in Kinds
  PROVE  Rises(DefaultStates[k])
<1>1. LevelSet = { "none", "unimportant", "ready", "warning", "error", "critical" }
  BY DEF LevelSet, Levels
<1>2. Rises(LoadStates)
  BY <1>1, Severities DEF LoadStates, Rises
<1>3. Rises(MemoryStates)
  BY <1>1, Severities DEF MemoryStates, Rises
<1>4. Rises(SwapStates)
  BY <1>1, Severities DEF SwapStates, Rises
<1>. QED  BY <1>2, <1>3, <1>4 DEF DefaultStates, Kinds

\* The i-th default state is the first that the value is below.
IntervalOf(k, v, i) ==
  /\ i \in DOMAIN DefaultStates[k]
  /\ Below(v, DefaultStates[k][i].max)
  /\ \A j \in DOMAIN DefaultStates[k] : j < i => ~Below(v, DefaultStates[k][j].max)

\* The states of the configuration that match.
Own(k, v) == { i \in DOMAIN StatesOf[k] : Matches(StatesOf[k][i], v) }

(***************************************************************************)
(* What computeState() gives: the level of the first state of the          *)
(* configuration that matches, or of the only default state whose interval the value is  *)
(* in, or the framework's for a value that is below no maximum.            *)
(***************************************************************************)
LEMMA StateCases ==
  ASSUME NEW k \in Kinds, NEW v
  PROVE  \/ \E i \in Own(k, v) : /\ \A j \in Own(k, v) : i <= j
                                 /\ ComputeState(k, v) = StatesOf[k][i].level
         \/ Own(k, v) = {} /\ \E i \in Nat :
              IntervalOf(k, v, i) /\ ComputeState(k, v) = DefaultStates[k][i].level
         \/ Own(k, v) = {} /\ ~Below(v, 100) /\ ComputeState(k, v) = "none"
<1> DEFINE table == DefaultStates[k]
           above == { i \in DOMAIN table : Below(v, table[i].max) }
<1>1. ComputeState(k, v) =
        IF Own(k, v) # {} THEN StatesOf[k][First(Own(k, v))].level
        ELSE IF above # {} THEN table[First(above)].level
        ELSE "none"
  BY DEF ComputeState, Own
<1>2. CASE Own(k, v) # {}
  <2>1. StatesOf[k] \in Seq([from : Nat, to : Nat, level : LevelSet])
    BY UsageAgentAssumption
  <2>2. Own(k, v) \in SUBSET Nat
    BY <2>1 DEF Own
  <2>3. First(Own(k, v)) \in Own(k, v) /\ \A j \in Own(k, v) : First(Own(k, v)) <= j
    BY <1>2, <2>2, FirstIsLeast
  <2>. QED  BY <1>1, <1>2, <2>3
<1>3. CASE Own(k, v) = {} /\ above # {}
  <2>1. above \in SUBSET Nat
    BY TablesRise DEF Rises
  <2>2. First(above) \in above /\ \A j \in above : First(above) <= j
    BY <1>3, <2>1, FirstIsLeast
  <2>3. First(above) \in Nat /\ \A j \in DOMAIN table : j \in Nat
    BY <2>1, <2>2, TablesRise DEF Rises
  <2>4. ASSUME NEW j \in DOMAIN table, j < First(above)
        PROVE  ~Below(v, table[j].max)
    <3>1. j \in Nat /\ First(above) \in Nat
      BY <2>3
    <3>2. ~(First(above) <= j)
      BY <2>4, <3>1
    <3>3. j \notin above
      BY <2>2, <3>2
    <3>. QED  BY <3>3
  <2>5. First(above) \in DOMAIN table /\ Below(v, table[First(above)].max)
    BY <2>2
  <2>6. IntervalOf(k, v, First(above))
    BY <2>4, <2>5 DEF IntervalOf
  <2>. QED  BY <1>1, <1>3, <2>3, <2>6
<1>4. CASE Own(k, v) = {} /\ above = {}
  <2>1. PICK i \in DOMAIN table : table[i].max = 100
    BY TablesRise DEF Rises
  <2>2. ~Below(v, table[i].max)
    BY <1>4
  <2>3. ~Below(v, 100)
    BY <2>1, <2>2
  <2>. QED  BY <1>1, <1>4, <2>3
<1>. QED  BY <1>2, <1>3, <1>4

\* So it is always a level.
LEMMA StateIsLevel ==
  ASSUME NEW k \in Kinds, NEW v
  PROVE  ComputeState(k, v) \in LevelSet
<1>1. StatesOf[k] \in Seq([from : Nat, to : Nat, level : LevelSet])
  BY UsageAgentAssumption
<1>2. \A i \in DOMAIN StatesOf[k] :
        StatesOf[k][i] \in [from : Nat, to : Nat, level : LevelSet]
  <2> DEFINE S == [from : Nat, to : Nat, level : LevelSet]
             own == StatesOf[k]
  <2>1. own \in Seq(S)
    BY <1>1
  <2> HIDE DEF S, own
  <2>2. \A i \in DOMAIN own : own[i] \in S
    BY <2>1, ElementOfSeq
  <2>. QED  BY <2>2 DEF S, own
<1>3. \A i \in Own(k, v) : StatesOf[k][i].level \in LevelSet
  BY <1>2 DEF Own
<1>4. \A i \in DOMAIN DefaultStates[k] : DefaultStates[k][i].level \in LevelSet
  BY TablesRise DEF Rises
<1>5. "none" \in LevelSet
  BY DEF LevelSet, Levels
<1>. QED  BY <1>3, <1>4, <1>5, StateCases DEF IntervalOf

-----------------------------------------------------------------------------
(***************************************************************************)
(* The invariant holds, and what it implies.                               *)
(***************************************************************************)
LEMMA InitIInv == Init => IInv
<1> SUFFICES ASSUME Init  PROVE IInv
  OBVIOUS
<1>1. KernelTypes
  BY UsageAgentAssumption DEF Init, KernelTypes, Kinds
<1>2. TypeOK
  BY <1>1 DEF Init, TypeOK, KernelTypes, IsShare, LevelSet, Levels
<1>. QED  BY <1>1, <1>2 DEF IInv, StateIsOfValue, Init

\* A refresh keeps the invariant,
LEMMA SetIInv ==
  ASSUME IInv, Set(Reading), phase' \in { "built", "started" },
         UNCHANGED << kind, minutes, kernel, type, counted >>
  PROVE  IInv'
<1>1. IsShare(value')
  BY ReadingIsShare DEF Set, IInv
<1>2. state' = ComputeState(kind', value') /\ state' \in LevelSet
  BY StateIsLevel DEF Set, IInv, TypeOK
<1>3. KernelTypes'
  BY DEF IInv, KernelTypes, kernel
<1>. QED  BY <1>1, <1>2, <1>3 DEF IInv, TypeOK, StateIsOfValue, kernel, IsShare

\* and so does every other step.
LEMMA NextIInv == IInv /\ [Next]_vars => IInv'
<1> SUFFICES ASSUME IInv, [Next]_vars  PROVE IInv'
  OBVIOUS
<1>1. CASE SetupLoad
  BY <1>1 DEF SetupLoad, IInv, TypeOK, KernelTypes, StateIsOfValue, kernel, IsShare
<1>2. CASE Construct
  BY <1>2 DEF Construct, IInv, TypeOK, KernelTypes, StateIsOfValue, kernel, IsShare
<1>3. CASE Start
  BY <1>3, SetIInv DEF Start
<1>4. CASE Refresh
  BY <1>4, SetIInv DEF Refresh
<1>5. CASE Kernel
  <2>1. UNCHANGED << kind, minutes, agent >>
    BY <1>5 DEF Kernel, LoadChanges, CoresChange, FreeChanges, SwapChanges, ReadableChanges
  <2>2. KernelTypes' /\ free' \in 0..total'
    <3>1. CASE LoadChanges
      BY <3>1, UsageAgentAssumption DEF LoadChanges, IInv, TypeOK, KernelTypes
    <3>2. CASE CoresChange
      BY <3>2, UsageAgentAssumption DEF CoresChange, IInv, TypeOK, KernelTypes
    <3>3. CASE FreeChanges
      BY <3>3 DEF FreeChanges, IInv, TypeOK, KernelTypes
    <3>4. CASE SwapChanges
      BY <3>4, UsageAgentAssumption DEF SwapChanges, IInv, TypeOK, KernelTypes
    <3>5. CASE ReadableChanges
      BY <3>5 DEF ReadableChanges, IInv, TypeOK, KernelTypes
    <3>. QED  BY <1>5, <3>1, <3>2, <3>3, <3>4, <3>5 DEF Kernel
  <2>. QED  BY <2>1, <2>2 DEF IInv, TypeOK, StateIsOfValue, agent, IsShare
<1>6. CASE UNCHANGED vars
  BY <1>6 DEF vars, kernel, agent, IInv, TypeOK, KernelTypes, StateIsOfValue, IsShare
<1>. QED  BY <1>1, <1>2, <1>3, <1>4, <1>5, <1>6 DEF Next

\* It holds in every reachable state.
LEMMA InvariantHolds == Spec => []IInv
BY InitIInv, NextIInv, PTL DEF Spec

(***************************************************************************)
(* The value shown is a share of a whole, or no number, and never leaves 0 *)
(* to 1, whatever the load per core is.                                    *)
(***************************************************************************)
THEOREM TypeCorrect == Spec => []TypeOK
<1>1. IInv => TypeOK
  BY DEF IInv
<1>. QED  BY <1>1, InvariantHolds, PTL

(***************************************************************************)
(* The state shown is that of the value shown: the first one of the        *)
(* configuration that matches, or else, of a value below 1, that of the    *)
(* one interval that the value lies in.                                    *)
(***************************************************************************)
THEOREM StateFitsValue == Spec => []StateIsOfInterval
<1>1. IInv => StateIsOfInterval
  <2> SUFFICES ASSUME IInv, Started  PROVE StateIsOfInterval
    BY DEF StateIsOfInterval
  <2>1. kind \in Kinds /\ state = ComputeState(kind, value)
    BY DEF IInv, TypeOK, StateIsOfValue, Started
  <2>2. ASSUME NEW i \in Nat, IntervalOf(kind, value, i)
        PROVE  i \in DOMAIN DefaultStates[kind] /\ InInterval(i)
    <3>1. PICK n \in Nat : DOMAIN DefaultStates[kind] = 1..n
      BY <2>1, TablesRise DEF Rises
    <3>2. i > 1 => i - 1 \in DOMAIN DefaultStates[kind] /\ i - 1 < i
      BY <2>2, <3>1 DEF IntervalOf
    <3>. QED  BY <2>2, <3>2 DEF IntervalOf, InInterval
  <2>. QED  BY <2>1, <2>2, StateCases DEF StateIsOfInterval, Own
<1>. QED  BY <1>1, InvariantHolds, PTL

-----------------------------------------------------------------------------
\* Products with a positive number are ordered as their factors are.
LEMMA ProductIsMonotone ==
  ASSUME NEW a \in Nat, NEW b \in Nat, NEW c \in Nat \ {0}
  PROVE  /\ a <= b => a * c <= b * c
         /\ a < b => a * c < b * c
OBVIOUS

(***************************************************************************)
(* What is below a maximum stays below it when it gets smaller: fractions  *)
(* are compared crosswise.                                                 *)
(***************************************************************************)
LEMMA BelowIsMonotone ==
  ASSUME NEW v, NEW w, IsShare(v), IsShare(w), NEW p \in Nat,
         v.d # 0, w.n * v.d >= v.n * w.d, Below(w, p)
  PROVE  Below(v, p)
<1> DEFINE vn == v.n
           vd == v.d
           wn == w.n
           wd == w.d
<1>1. /\ vn \in Nat /\ wn \in Nat /\ vd \in Nat \ {0} /\ wd \in Nat \ {0}
      /\ vn * wd <= wn * vd
      /\ 100 * wn < p * wd
  BY DEF IsShare, Below
<1>2. SUFFICES 100 * vn < p * vd
  BY <1>1 DEF Below
<1> HIDE DEF vn, vd, wn, wd
<1>3. (100 * wn) * vd < (p * wd) * vd
  BY <1>1, ProductIsMonotone
<1>4. 100 * (vn * wd) <= 100 * (wn * vd)
  BY <1>1
<1>5. (100 * vn) * wd < (p * vd) * wd
  BY <1>1, <1>3, <1>4
<1>6. ~(p * vd <= 100 * vn)
  BY <1>1, <1>5, ProductIsMonotone
<1>. QED  BY <1>1, <1>6

(***************************************************************************)
(* A value that grows below its maximum does not become less severe, if    *)
(* the configuration has no states of its own.                             *)
(***************************************************************************)
THEOREM SeverityFollowsValue == Spec => WorseIsNotBetter
<1> DEFINE Rise == /\ Started /\ StatesOf[kind] = << >>
                   /\ Below(value', 100) /\ value'.n * value.d >= value.n * value'.d
                   /\ Below(value, 100)
<1>1. ASSUME IInv, IInv', [Next]_vars, Rise
      PROVE  Severity(state') >= Severity(state)
  <2> DEFINE table == DefaultStates[kind]
  <2>1. kind' = kind /\ kind \in Kinds /\ phase = "started" /\ phase' = "started"
    BY <1>1 DEF Next, SetupLoad, Construct, Start, Refresh, Kernel, LoadChanges,
       CoresChange, FreeChanges, SwapChanges, ReadableChanges, agent, vars, Started,
       IInv, TypeOK
  <2>2. state = ComputeState(kind, value) /\ state' = ComputeState(kind, value')
    BY <1>1, <2>1 DEF IInv, StateIsOfValue
  <2>3. \A v : Own(kind, v) = {}
    BY <1>1 DEF Own
  <2>4. PICK i \in Nat : IntervalOf(kind, value, i) /\ state = table[i].level
    BY <1>1, <2>1, <2>2, <2>3, StateCases
  <2>5. PICK j \in Nat : IntervalOf(kind, value', j) /\ state' = table[j].level
    BY <1>1, <2>1, <2>2, <2>3, StateCases
  <2>6. table[j].max \in Nat /\ Below(value', table[j].max)
    BY <2>1, <2>5, TablesRise DEF IntervalOf, Rises
  <2>7. Below(value, table[j].max)
    <3>1. IsShare(value) /\ IsShare(value') /\ value.d # 0
      BY <1>1 DEF IInv, TypeOK, IsShare, Below
    <3>. QED  BY <1>1, <2>6, <3>1, BelowIsMonotone
  <2>8. i <= j
    BY <2>4, <2>5, <2>7 DEF IntervalOf
  <2>. QED  BY <2>1, <2>4, <2>5, <2>8, TablesRise DEF IntervalOf, Rises
<1>. QED  BY <1>1, InvariantHolds, PTL DEF Spec, WorseIsNotBetter

=============================================================================
