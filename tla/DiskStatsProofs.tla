---------------------------- MODULE DiskStatsProofs ----------------------------
(***************************************************************************)
(* What DiskStats guarantees for every set of devices, every number of     *)
(* requests, every width of an int and every kernel.                       *)
(***************************************************************************)
EXTENDS DiskStats, SumProofs, SequenceTheorems

(***************************************************************************)
(* The inductive invariant: the types; that the kernel only counts up; and *)
(* what holds of the list and of the sum of the lines read so far, and not *)
(* only of all of them.                                                    *)
(***************************************************************************)
KernelType ==
  /\ printed \in Printings
  /\ counters \in [Device -> [Names(KernelFields) -> Nat]]
  /\ seen \in [Device -> [Names(KernelFields) -> Nat]]

SumFits == Fitting(sum)

ListFits ==
  /\ list \in Seq(Entries)
  /\ \A i \in 1..Len(list) : Fitting(list[i].fields)

LoadedFits == loaded # << >> => loaded[2] = Failed \/ Fitting(loaded[2])

LineType ==
  /\ pc \in { "idle", "get", "sum", "listed", "summed" }
  /\ line \in 1..(Len(Devices) + 1)
  /\ pc \in { "listed", "summed" } => line = Len(Devices) + 1

SeenIsBehind ==
  \A d \in Device : \A f \in Names(KernelFields) : seen[d][f] <= counters[d][f]

\* An entry of the list is faithful to a device.
IsEntry(entry, d) ==
  /\ entry.device = d
  /\ << entry.major, entry.minor >> = << Major[d], Minor[d] >>
  /\ \A f \in Names(StatFields) :
       Within(entry.fields[f], f, seen[d][f], counters[d][f])

LinesAreListed ==
  pc \in { "get", "listed" } =>
    /\ Len(list) = line - 1
    /\ \A i \in 1..(line - 1) : IsEntry(list[i], Devices[i])

\* The devices of the extended major in the first n lines.
Extended(n) == { d \in { Devices[i] : i \in 1..n } : Major[d] = ExtMajor }

LinesAreSummed ==
  pc \in { "sum", "summed" } =>
    \A f \in Names(StatFields) \ { "discards.time" } :
      Within(sum[f], f, Total(seen, f, Extended(line - 1)),
                        Total(counters, f, Extended(line - 1)))

IInv ==
  /\ KernelType
  /\ SumFits
  /\ ListFits
  /\ LoadedFits
  /\ LineType
  /\ SeenIsBehind
  /\ LinesAreListed
  /\ LinesAreSummed

-----------------------------------------------------------------------------
(***************************************************************************)
(* The fields, and the text of a line.                                     *)
(***************************************************************************)
LEMMA Fields ==
  /\ Len(StatFields) = 15 /\ DOMAIN StatFields = 1..15
  /\ Len(KernelFields) = 17 /\ DOMAIN KernelFields = 1..17
  /\ \A i \in 1..17 : KernelFields[i] \in Names(KernelFields)
  /\ Names(StatFields) \subseteq Names(KernelFields)
  /\ \A f \in Names(StatFields) : Column(f) \in 1..15 /\ KernelFields[Column(f)] = f
  /\ IntFields \subseteq Names(StatFields)
<1>1. Len(StatFields) = 15 /\ DOMAIN StatFields = 1..15
  BY DEF StatFields
<1> DEFINE S == Names(KernelFields) \cup Names(StatFields) \cup { "flush.count", "flush.time" }
<1>2. StatFields \in Seq(S)
  BY <1>1 DEF StatFields, Names
<1> DEFINE more == << "flush.count", "flush.time" >>
           all == StatFields \o more
<1>3. Len(KernelFields) = 17 /\ DOMAIN KernelFields = 1..17
  <2>1. more \in Seq(S) /\ Len(more) = 2
    BY DEF S
  <2> HIDE DEF more, S
  <2>2. all \in Seq(S) /\ Len(all) = Len(StatFields) + Len(more)
    BY <1>2, <2>1, ConcatProperties
  <2>3. Len(all) = 17
    BY <1>1, <2>1, <2>2
  <2> HIDE DEF all
  <2>4. DOMAIN all = 1..17
    BY <2>2, <2>3, LenProperties
  <2>. QED  BY <2>3, <2>4 DEF KernelFields, all, more
<1>4. \A i \in 1..15 : KernelFields[i] = StatFields[i]
  <2>1. more \in Seq(S) /\ Len(more) = 2
    BY DEF S
  <2> HIDE DEF more, S
  <2>2. \A i \in 1..(Len(StatFields) + Len(more)) :
          all[i] = IF i <= Len(StatFields) THEN StatFields[i] ELSE more[i - Len(StatFields)]
    BY <1>2, <2>1, ConcatProperties
  <2> HIDE DEF all
  <2>3. \A i \in 1..15 : all[i] = StatFields[i]
    BY <1>1, <2>1, <2>2
  <2>. QED  BY <2>3 DEF KernelFields, all, more
<1>5. \A i \in 1..17 : KernelFields[i] \in Names(KernelFields)
  BY <1>3 DEF Names
<1>6. \A f \in Names(StatFields) : Column(f) \in 1..15 /\ StatFields[Column(f)] = f
  BY <1>1 DEF Names, Column
<1>7. IntFields \subseteq Names(StatFields)
  <2>1. \A i \in 1..15 : StatFields[i] \in Names(StatFields)
    BY <1>1 DEF Names
  <2>2. /\ StatFields[4] = "read.time" /\ StatFields[8] = "write.time"
        /\ StatFields[9] = "io.inprogress" /\ StatFields[10] = "io.time"
        /\ StatFields[11] = "io.weighted"
    BY DEF StatFields
  <2>. QED  BY <2>1, <2>2 DEF IntFields
<1>8. Names(StatFields) \subseteq Names(KernelFields)
  BY <1>3, <1>4, <1>5, <1>6 DEF Names
<1>. QED  BY <1>1, <1>3, <1>4, <1>5, <1>6, <1>7, <1>8

\* The time of flushes is not among the fields of a Stat.
LEMMA FlushIsNotRead == "flush.time" \notin Names(StatFields)
<1>1. \A i \in { 1, 2, 3, 4, 5, 6, 7, 8, 9, 10, 11, 12, 13, 14, 15 } :
        StatFields[i] # "flush.time"
  BY DEF StatFields
<1>2. \A i \in 1..15 : i \in { 1, 2, 3, 4, 5, 6, 7, 8, 9, 10, 11, 12, 13, 14, 15 }
  OBVIOUS
<1>. QED  BY <1>1, <1>2, Fields DEF Names

\* A number that is stored or shown is one, and stored where it fits.
LEMMA StoreType ==
  ASSUME NEW f, NEW n \in Nat
  PROVE  /\ Store(f, n) \in Nat
         /\ Shown(f, n) \in Nat
         /\ f \in IntFields => Store(f, n) < IntModulus
<1>1. n % IntModulus \in 0..(IntModulus - 1)
  BY DiskStatsAssumption, WrappedTwice
<1>. QED  BY <1>1, DiskStatsAssumption DEF Store, Shown

\* The kernel's numbers, and the column in which each counter is.
LEMMA NumbersAreNatural ==
  ASSUME KernelType, NEW d \in Device
  PROVE  /\ Numbers(d) \in Seq(Nat)
         /\ Len(Numbers(d)) = printed
         /\ \A f \in Names(StatFields) :
              printed >= 15 => Numbers(d)[Column(f)] = Shown(f, counters[d][f])
<1>1. printed \in { 11, 15, 17 }
  BY DiskStatsAssumption DEF KernelType
<1>2. ASSUME NEW i \in 1..printed
      PROVE  Shown(KernelFields[i], counters[d][KernelFields[i]]) \in Nat
  <2>1. KernelFields[i] \in Names(KernelFields)
    BY <1>1, Fields
  <2>2. counters[d][KernelFields[i]] \in Nat
    BY <2>1 DEF KernelType
  <2>. QED  BY <2>2, StoreType
<1>3. Numbers(d) \in Seq(Nat) /\ Len(Numbers(d)) = printed
  BY <1>1, <1>2 DEF Numbers
<1>4. ASSUME NEW f \in Names(StatFields), printed >= 15
      PROVE  Numbers(d)[Column(f)] = Shown(f, counters[d][f])
  BY <1>1, <1>4, Fields DEF Numbers
<1>. QED  BY <1>3, <1>4

\* The first field and the rest of a text.
LEMMA OneTail ==
  ASSUME NEW S, NEW t \in Seq(S), NEW n \in Nat, Len(t) = n + 1
  PROVE  /\ Head(t) = t[1] /\ Tail(t) \in Seq(S) /\ Len(Tail(t)) = n
         /\ \A i \in 1..n : Tail(t)[i] = t[i + 1]
<1>1. t # << >>
  OBVIOUS
<1>. QED  BY <1>1, HeadTailProperties

\* Three fields and the rest of a text.
LEMMA Tails ==
  ASSUME NEW S, NEW t \in Seq(S), NEW n \in Nat, Len(t) = n + 3
  PROVE  /\ Head(t) = t[1] /\ Head(Tail(t)) = t[2] /\ Head(Tail(Tail(t))) = t[3]
         /\ Tail(Tail(Tail(t))) \in Seq(S)
         /\ Len(Tail(Tail(Tail(t)))) = n
         /\ \A i \in 1..n : Tail(Tail(Tail(t)))[i] = t[i + 3]
<1> DEFINE u == Tail(t)
           v == Tail(u)
           w == Tail(v)
<1>1. n + 1 \in Nat /\ n + 2 \in Nat /\ n + 3 = (n + 2) + 1 /\ n + 2 = (n + 1) + 1
  OBVIOUS
<1>2. /\ Head(t) = t[1] /\ u \in Seq(S) /\ Len(u) = n + 2
      /\ \A i \in 1..(n + 2) : u[i] = t[i + 1]
  BY <1>1, OneTail
<1> HIDE DEF u
<1>3. /\ Head(u) = u[1] /\ v \in Seq(S) /\ Len(v) = n + 1
      /\ \A i \in 1..(n + 1) : v[i] = u[i + 1]
  BY <1>1, <1>2, OneTail
<1> HIDE DEF v
<1>4. /\ Head(v) = v[1] /\ w \in Seq(S) /\ Len(w) = n
      /\ \A i \in 1..n : w[i] = v[i + 1]
  BY <1>1, <1>3, OneTail
<1> HIDE DEF w
<1>5. u[1] = t[2] /\ v[1] = t[3]
  BY <1>2, <1>3
<1>6. ASSUME NEW i \in 1..n  PROVE w[i] = t[i + 3]
  <2>1. i + 1 \in 1..(n + 1) /\ i + 2 \in 1..(n + 2)
        /\ (i + 1) + 1 = i + 2 /\ (i + 2) + 1 = i + 3
    OBVIOUS
  <2>. QED  BY <1>2, <1>3, <1>4, <2>1
<1>. QED  BY <1>2, <1>3, <1>4, <1>5, <1>6 DEF u, v, w

(***************************************************************************)
(* parse() takes each field of the kernel's line for what it is, if there  *)
(* are as many as it looks for.                                            *)
(***************************************************************************)
LEMMA ParseIsFaithful ==
  ASSUME KernelType, NEW d \in Device
  PROVE  /\ ParseFails(ProcLine(d)) <=> printed < 15
         /\ printed >= 15 =>
              Parse(ProcLine(d)) =
                [major |-> Major[d], minor |-> Minor[d], device |-> d,
                 fields |-> [f \in Names(StatFields) |->
                               Store(f, Shown(f, counters[d][f]))]]
<1> DEFINE text == << Major[d], Minor[d], d >> \o Numbers(d)
           S == Nat \cup Device
<1>1. /\ Head(text) = Major[d] /\ Head(Tail(text)) = Minor[d] /\ Head(Tail(Tail(text))) = d
      /\ Tail(Tail(Tail(text))) = Numbers(d)
  <2>1. Major[d] \in S /\ Minor[d] \in S /\ d \in S /\ Numbers(d) \in Seq(S)
    BY DiskStatsAssumption, NumbersAreNatural
  <2> DEFINE a == Major[d]
             b == Minor[d]
             s == Numbers(d)
  <2>2. a \in S /\ b \in S /\ d \in S /\ s \in Seq(S)
    BY <2>1
  <2> HIDE DEF S, a, b, s
  <2> DEFINE t == << a, b, d >> \o s
  <2>3. /\ t \in Seq(S) /\ Len(t) = 3 + Len(s)
        /\ t[1] = a /\ t[2] = b /\ t[3] = d
        /\ \A i \in 1..Len(s) : t[i + 3] = s[i]
    BY <2>2
  <2>4. Len(s) \in Nat
    BY <2>2
  <2> HIDE DEF t
  <2>5. Head(t) = a /\ Head(Tail(t)) = b /\ Head(Tail(Tail(t))) = d
    BY <2>3, <2>4, Tails
  <2>6. Tail(Tail(Tail(t))) = s
    <3> DEFINE r == Tail(Tail(Tail(t)))
    <3>1. r \in Seq(S) /\ Len(r) = Len(s) /\ \A i \in 1..Len(r) : r[i] = s[i]
      BY <2>3, <2>4, Tails
    <3> HIDE DEF r
    <3>2. r = s
      BY <2>2, <3>1, SeqEqual
    <3>. QED  BY <3>2 DEF r
  <2>. QED  BY <2>5, <2>6 DEF t, a, b, s
<1> HIDE DEF text
<1> DEFINE l == ProcLine(d)
           major == NextField(l)
           minor == NextField(major)
           from == NextField(minor)
           rest == NextField(from)
<1>2. /\ major = [blank |-> FALSE, text |-> text]
      /\ minor = [blank |-> FALSE, text |-> Tail(text)]
      /\ from = [blank |-> FALSE, text |-> Tail(Tail(text))]
      /\ rest = [blank |-> FALSE, text |-> Numbers(d)]
  BY <1>1 DEF NextField, ProcLine, text
<1>3. ParseFails(l) <=> printed < 15
  <2>1. printed \in Int
    BY DiskStatsAssumption DEF KernelType
  <2>. QED  BY <1>2, <2>1, Fields, NumbersAreNatural DEF ParseFails, Rest, ScanFails
<1>4. ASSUME printed >= 15
      PROVE  Scan(rest) = [f \in Names(StatFields) |-> Store(f, Shown(f, counters[d][f]))]
  BY <1>2, <1>4, NumbersAreNatural DEF Scan
<1>5. Parse(l) = [major |-> Head(major.text), minor |-> Head(minor.text),
                  device |-> Head(from.text), fields |-> Scan(rest)]
  BY DEF Parse
<1> HIDE DEF l, major, minor, from, rest
<1>6. Head(major.text) = Major[d] /\ Head(minor.text) = Minor[d] /\ Head(from.text) = d
  <2>1. major.text = text /\ minor.text = Tail(text) /\ from.text = Tail(Tail(text))
    BY <1>2
  <2>. QED  BY <1>1, <2>1
<1>7. printed >= 15 =>
        Parse(l) = [major |-> Major[d], minor |-> Minor[d], device |-> d,
                    fields |-> [f \in Names(StatFields) |->
                                  Store(f, Shown(f, counters[d][f]))]]
  BY <1>4, <1>5, <1>6
<1>. QED  BY <1>3, <1>7 DEF l

-----------------------------------------------------------------------------
(***************************************************************************)
(* The devices read so far, and the totals of their counters.              *)
(***************************************************************************)
LEMMA DevicesAreFew ==
  /\ Len(Devices) \in Nat /\ DOMAIN Devices = 1..Len(Devices)
  /\ \A i \in 1..Len(Devices) : Devices[i] \in Device
  /\ \A i, j \in 1..Len(Devices) : Devices[i] = Devices[j] => i = j
  /\ IsFiniteSet(Device)
<1> DEFINE n == Len(Devices)
<1>1. /\ n \in Nat /\ DOMAIN Devices = 1..n /\ Devices \in [1..n -> Device]
      /\ \A i \in 1..n : Devices[i] \in Device
  BY DiskStatsAssumption DEF Device, Names
<1>2. \A i, j \in 1..n : Devices[i] = Devices[j] => i = j
  BY <1>1, DiskStatsAssumption DEF IsInjective
<1>3. Devices \in Surjection(1..n, Device)
  BY <1>1 DEF Surjection, Device, Names
<1> HIDE DEF n
<1>4. IsFiniteSet(Device)
  BY <1>1, <1>3, FS_Interval, FS_Surjection
<1>. QED  BY <1>1, <1>2, <1>4 DEF n

\* The extended devices of the first lines, from one line to the next.
LEMMA ExtendedOf ==
  /\ Extended(0) = {}
  /\ Extended(Len(Devices)) = { d \in Device : Major[d] = ExtMajor }
  /\ \A n \in 0..Len(Devices) : Extended(n) \subseteq Device
  /\ \A n \in 1..Len(Devices) :
       IF Major[Devices[n]] = ExtMajor
       THEN /\ Extended(n) = Extended(n - 1) \cup { Devices[n] }
            /\ Devices[n] \notin Extended(n - 1)
       ELSE Extended(n) = Extended(n - 1)
<1>1. Extended(0) = {}
  BY DEF Extended
<1>2. \A n \in 0..Len(Devices) : Extended(n) \subseteq Device
  BY DevicesAreFew DEF Extended
<1>3. Extended(Len(Devices)) = { d \in Device : Major[d] = ExtMajor }
  BY DevicesAreFew DEF Extended, Device, Names
<1>4. ASSUME NEW n \in 1..Len(Devices)
      PROVE  IF Major[Devices[n]] = ExtMajor
             THEN /\ Extended(n) = Extended(n - 1) \cup { Devices[n] }
                  /\ Devices[n] \notin Extended(n - 1)
             ELSE Extended(n) = Extended(n - 1)
  <2>1. \A i : i \in 1..n <=> i \in 1..(n - 1) \/ i = n
    BY DevicesAreFew
  <2>2. ASSUME NEW i \in 1..(n - 1)  PROVE Devices[i] # Devices[n]
    BY DevicesAreFew
  <2>. QED  BY <2>1, <2>2 DEF Extended
<1>. QED  BY <1>1, <1>2, <1>3, <1>4

\* A total over devices is a natural number,
LEMMA TotalType ==
  ASSUME NEW c \in [Device -> [Names(KernelFields) -> Nat]],
         NEW f \in Names(KernelFields), NEW ds \in SUBSET Device
  PROVE  IsFiniteSet(ds) /\ Total(c, f, ds) \in Nat
<1> DEFINE g == [d \in ds |-> c[d][f]]
<1>1. IsFiniteSet(ds) /\ \A d \in ds : g[d] \in Nat
  BY DevicesAreFew, FS_Subset
<1> HIDE DEF g
<1>2. Sum(g, ds) \in Nat
  BY <1>1, SumOfNaturals
<1>. QED  BY <1>1, <1>2 DEF Total, g

\* grows by the counter of one device more,
LEMMA TotalAdds ==
  ASSUME NEW c \in [Device -> [Names(KernelFields) -> Nat]],
         NEW f \in Names(KernelFields), NEW ds \in SUBSET Device,
         NEW d \in Device, d \notin ds
  PROVE  Total(c, f, ds \cup { d }) = c[d][f] + Total(c, f, ds)
<1> DEFINE g == [e \in ds |-> c[e][f]]
           h == [e \in ds \cup { d } |-> c[e][f]]
<1>1. /\ IsFiniteSet(ds) /\ h[d] = c[d][f]
      /\ \A e \in ds \cup { d } : h[e] \in Int
      /\ \A e \in ds : h[e] = g[e]
  BY DevicesAreFew, FS_Subset
<1> HIDE DEF g, h
<1>2. Sum(h, ds \cup { d }) = h[d] + Sum(h, ds)
  BY <1>1, SumAdd
<1>3. Sum(h, ds) = Sum(g, ds)
  BY <1>1, SumCongruent
<1>. QED  BY <1>1, <1>2, <1>3 DEF Total, g, h

\* and with the counters.
LEMMA TotalGrows ==
  ASSUME NEW c \in [Device -> [Names(KernelFields) -> Nat]],
         NEW e \in [Device -> [Names(KernelFields) -> Nat]],
         NEW f \in Names(KernelFields), NEW ds \in SUBSET Device,
         \A d \in Device : c[d][f] <= e[d][f]
  PROVE  Total(c, f, ds) <= Total(e, f, ds)
<1> DEFINE g == [d \in ds |-> c[d][f]]
           h == [d \in ds |-> e[d][f]]
<1>1. /\ IsFiniteSet(ds)
      /\ \A d \in ds : g[d] \in Int /\ h[d] \in Int /\ g[d] <= h[d]
  BY DevicesAreFew, FS_Subset
<1> HIDE DEF g, h
<1>2. Sum(g, ds) <= Sum(h, ds)
  BY <1>1, SumMonotone
<1>. QED  BY <1>2 DEF Total, g, h

\* A counter that lies between two bounds does so between wider ones.
LEMMA WithinGrows ==
  ASSUME NEW n, NEW f, NEW low \in Int, NEW high \in Int, NEW higher \in Int,
         high <= higher, Within(n, f, low, high)
  PROVE  Within(n, f, low, higher)
<1>1. low..high \subseteq low..higher
  OBVIOUS
<1>. QED  BY <1>1 DEF Within

\* The sum with one counter more, both as wide as the member that holds them.
LEMMA AddIsWithin ==
  ASSUME NEW f \in Names(StatFields) \ { "discards.time" },
         NEW low \in Nat, NEW high \in Nat, NEW less \in Nat, NEW more \in Nat, less <= more,
         NEW n, Within(n, f, low, high)
  PROVE  Within(Store(f, n + Store(f, Shown(f, more))), f, less + low, more + high)
<1>1. PICK m \in low..high : n = Store(f, Shown(f, m))
  BY DEF Within
<1>2. m \in Nat /\ more + m \in (less + low)..(more + high)
  BY <1>1
<1>3. Store(f, n + Store(f, Shown(f, more))) = Store(f, Shown(f, more + m))
  <2>1. CASE f \in IntFields
    <3> DEFINE M == IntModulus
    <3>1. M \in Nat \ {0} /\ m \in Int /\ more \in Int /\ more + m \in Int
      BY <1>2, DiskStatsAssumption
    <3> HIDE DEF M
    <3>2. ASSUME NEW k \in Int  PROVE k % M \in Int /\ (k % M) % M = k % M
      <4>1. k % M \in 0..(M - 1)
        BY <3>1
      <4>. QED  BY <3>1, <4>1, SmallRemainder
    <3>3. n = m % M /\ Store(f, Shown(f, more)) = more % M
      BY <1>1, <2>1, <3>1, <3>2 DEF Store, Shown, M
    <3>4. Store(f, Shown(f, more + m)) = (more + m) % M
      BY <2>1, <3>1, <3>2 DEF Store, Shown, M
    <3>5. ((m % M) + (more % M)) % M = (m + (more % M)) % M
      BY <3>1, <3>2, WrappedSum
    <3>6. ((more % M) + m) % M = (more + m) % M
      BY <3>1, WrappedSum
    <3>7. m + (more % M) = (more % M) + m
      BY <3>1, <3>2
    <3>. QED  BY <2>1, <3>3, <3>4, <3>5, <3>6, <3>7 DEF Store, M
  <2>2. CASE f \notin IntFields
    <3>1. f \notin TimeFields
      <4>1. f # "flush.time"
        BY FlushIsNotRead
      <4>. QED  BY <2>2, <4>1 DEF TimeFields
    <3>. QED  BY <1>1, <1>2, <2>2, <3>1 DEF Store, Shown
  <2>. QED  BY <2>1, <2>2
<1>. QED  BY <1>2, <1>3 DEF Within

-----------------------------------------------------------------------------
\* The invariant holds at first,
LEMMA InitIInv == Init => IInv
<1> SUFFICES ASSUME Init  PROVE IInv
  OBVIOUS
<1>1. KernelType
  BY DEF Init, KernelType
<1>2. SumFits
  BY DiskStatsAssumption, Fields DEF Init, SumFits, Fitting, Empty
<1>3. LineType
  BY DevicesAreFew DEF Init, LineType
<1>4. SeenIsBehind
  BY DEF Init, SeenIsBehind
<1>5. ListFits /\ LoadedFits
  BY DEF Init, ListFits, LoadedFits
<1>. QED  BY <1>1, <1>2, <1>3, <1>4, <1>5 DEF Init, IInv, LinesAreListed, LinesAreSummed

(* A request is counted: what lay between two counters still does. *)
LEMMA CompleteIInv ==
  ASSUME IInv, NEW d \in Device, NEW op \in { "read", "write", "discards" }, Complete(d, op)
  PROVE  IInv'
<1> USE DEF IInv
<1>1. /\ UNCHANGED << printed, pc, line, list, sum, seen, loaded >>
      /\ counters' = [e \in Device |->
                        IF e \in { d, Whole[d] }
                        THEN [f \in Names(KernelFields) |->
                                counters[e][f] + Counted(op)[f]]
                        ELSE counters[e]]
  BY DEF Complete
<1>2. \A f \in Names(KernelFields) : Counted(op)[f] \in Nat
  BY DEF Counted
<1>3. /\ counters' \in [Device -> [Names(KernelFields) -> Nat]]
      /\ \A e \in Device : \A f \in Names(KernelFields) : counters[e][f] <= counters'[e][f]
  BY <1>1, <1>2 DEF KernelType
<1>4. KernelType' /\ SumFits' /\ ListFits' /\ LoadedFits' /\ LineType'
  BY <1>1, <1>3 DEF KernelType, SumFits, ListFits, LoadedFits, LineType
<1>5. SeenIsBehind'
  <2>1. ASSUME NEW e \in Device, NEW f \in Names(KernelFields)
        PROVE  seen[e][f] <= counters'[e][f]
    <3>1. seen[e][f] <= counters[e][f] /\ counters[e][f] <= counters'[e][f]
      BY <1>3 DEF SeenIsBehind
    <3>2. seen[e][f] \in Nat /\ counters[e][f] \in Nat /\ counters'[e][f] \in Nat
      BY <1>3 DEF KernelType
    <3>. QED  BY <3>1, <3>2
  <2>. QED  BY <1>1, <2>1 DEF SeenIsBehind
<1>6. LinesAreListed'
  <2> SUFFICES ASSUME pc \in { "get", "listed" }, NEW i \in 1..(line - 1)
               PROVE  IsEntry(list[i], Devices[i])'
    BY <1>1 DEF LinesAreListed
  <2> DEFINE e == Devices[i]
             entry == list[i]
  <2>1. IsEntry(entry, e)
    BY DEF LinesAreListed
  <2>2. e \in Device
    BY DevicesAreFew DEF LineType
  <2> HIDE DEF e, entry
  <2>3. ASSUME NEW f \in Names(StatFields)
        PROVE  Within(entry.fields[f], f, seen[e][f], counters'[e][f])
    <3>1. /\ seen[e][f] \in Int /\ counters[e][f] \in Int /\ counters'[e][f] \in Int
          /\ counters[e][f] <= counters'[e][f]
      BY <1>3, <2>2, Fields DEF KernelType
    <3>2. Within(entry.fields[f], f, seen[e][f], counters[e][f])
      BY <2>1 DEF IsEntry
    <3>. QED  BY <3>1, <3>2, WithinGrows
  <2>. QED  BY <1>1, <2>1, <2>3 DEF IsEntry, e, entry
<1>7. LinesAreSummed'
  <2> SUFFICES ASSUME pc \in { "sum", "summed" },
                      NEW f \in Names(StatFields) \ { "discards.time" }
               PROVE  Within(sum[f], f, Total(seen, f, Extended(line - 1)),
                                        Total(counters', f, Extended(line - 1)))
    BY <1>1 DEF LinesAreSummed
  <2> DEFINE ds == Extended(line - 1)
  <2>1. ds \in SUBSET Device
    BY DevicesAreFew, ExtendedOf DEF LineType
  <2>2. Within(sum[f], f, Total(seen, f, ds), Total(counters, f, ds))
    BY DEF LinesAreSummed
  <2> HIDE DEF ds
  <2>3. f \in Names(KernelFields)
    BY Fields
  <2>4. /\ Total(seen, f, ds) \in Nat /\ Total(counters, f, ds) \in Nat
        /\ Total(counters', f, ds) \in Nat
    BY <1>3, <2>1, <2>3, TotalType DEF KernelType
  <2>5. Total(counters, f, ds) <= Total(counters', f, ds)
    BY <1>3, <2>1, <2>3, TotalGrows DEF KernelType
  <2>6. Within(sum[f], f, Total(seen, f, ds), Total(counters', f, ds))
    BY <2>2, <2>4, <2>5, WithinGrows
  <2>. QED  BY <2>6 DEF ds
<1>. QED  BY <1>4, <1>5, <1>6, <1>7

(* The file is opened: nothing is read yet. *)
LEMMA OpenIInv ==
  ASSUME IInv, NEW what \in { "get", "sum" }, Open(what)
  PROVE  IInv'
<1> USE DEF IInv
<1>1. /\ pc' = what /\ line' = 1 /\ list' = << >> /\ sum' = Empty /\ seen' = counters
      /\ UNCHANGED << printed, counters, loaded >>
  BY DEF Open
<1>2. KernelType'
  BY <1>1 DEF KernelType
<1>3. SumFits' /\ ListFits' /\ LoadedFits'
  BY <1>1, DiskStatsAssumption, Fields DEF SumFits, ListFits, LoadedFits, Fitting, Empty
<1>4. LineType'
  BY <1>1, DevicesAreFew DEF LineType
<1>5. SeenIsBehind'
  <2>1. \A d \in Device : \A f \in Names(KernelFields) : counters[d][f] \in Nat
    BY DEF KernelType
  <2>. QED  BY <1>1, <2>1 DEF SeenIsBehind
<1>6. LinesAreListed'
  BY <1>1 DEF LinesAreListed
<1>7. LinesAreSummed'
  <2> SUFFICES ASSUME NEW f \in Names(StatFields) \ { "discards.time" }
               PROVE  Within(0, f, Total(counters, f, {}), Total(counters, f, {}))
    <3>1. Extended(line' - 1) = {}
      BY <1>1, ExtendedOf
    <3>2. \A f \in Names(StatFields) : sum'[f] = 0
      BY <1>1 DEF Empty
    <3>. QED  BY <1>1, <3>1, <3>2 DEF LinesAreSummed
  <2>1. Total(counters, f, {}) = 0
    BY SumEmpty DEF Total
  <2>2. Store(f, Shown(f, 0)) = 0
    <3>1. 0 % IntModulus = 0
      BY DiskStatsAssumption, SmallRemainder
    <3>. QED  BY <3>1 DEF Store, Shown
  <2>. QED  BY <2>1, <2>2 DEF Within
<1>. QED  BY <1>2, <1>3, <1>4, <1>5, <1>6, <1>7

(* A line is read: its device is listed, or added if it counts. *)
LEMMA ReadLineIInv ==
  ASSUME IInv, ReadLine
  PROVE  IInv'
<1> USE DEF IInv
<1> DEFINE d == Devices[line]
           st == Parse(ProcLine(d))
           fields == [f \in Names(StatFields) |-> Store(f, Shown(f, counters[d][f]))]
<1>1. /\ pc \in { "get", "sum" } /\ line \in 1..Len(Devices) /\ ~ParseFails(ProcLine(d))
      /\ list' = (IF pc = "get" THEN Append(list, st) ELSE list)
      /\ sum' = (IF pc = "sum" /\ Counts(st) THEN Add(sum, st.fields) ELSE sum)
      /\ line' = line + 1
      /\ UNCHANGED << printed, counters, pc, seen, loaded >>
  BY DEF ReadLine, Reading, LineType
<1>2. d \in Device
  BY <1>1, DevicesAreFew
<1>3. /\ st = [major |-> Major[d], minor |-> Minor[d], device |-> d, fields |-> fields]
      /\ st.fields = fields
  <2>1. printed >= 15
    <3>1. printed \in Int
      BY DiskStatsAssumption DEF KernelType
    <3>. QED  BY <1>1, <1>2, <3>1, ParseIsFaithful
  <2>. QED  BY <1>2, <2>1, ParseIsFaithful
<1> HIDE DEF d, st
<1>4. ASSUME NEW f \in Names(StatFields)
      PROVE  /\ f \in Names(KernelFields)
             /\ counters[d][f] \in Nat /\ seen[d][f] \in Nat /\ seen[d][f] <= counters[d][f]
             /\ fields[f] = Store(f, Shown(f, counters[d][f])) /\ fields[f] \in Nat
  <2>1. f \in Names(KernelFields)
    BY Fields
  <2>2. counters[d][f] \in Nat /\ seen[d][f] \in Nat /\ seen[d][f] <= counters[d][f]
    BY <1>2, <2>1 DEF KernelType, SeenIsBehind
  <2>. QED  BY <2>1, <2>2, StoreType
<1>5. fields \in [Names(StatFields) -> Nat]
  BY <1>4
<1> HIDE DEF fields
<1>6. KernelType' /\ LineType' /\ SeenIsBehind'
  BY <1>1, DevicesAreFew DEF KernelType, LineType, SeenIsBehind
<1>7. SumFits'
  <2>1. ASSUME NEW f \in Names(StatFields)
        PROVE  /\ Store(f, sum[f] + fields[f]) \in Nat
               /\ f \in IntFields => Store(f, sum[f] + fields[f]) < IntModulus
    <3>1. sum[f] + fields[f] \in Nat
      BY <1>4 DEF SumFits, Fitting
    <3>. QED  BY <3>1, StoreType
  <2>. QED  BY <1>1, <1>3, <2>1, Fields DEF SumFits, Fitting, Add
<1>10. ListFits' /\ LoadedFits'
  <2>1. st \in Entries
    BY <1>2, <1>3, <1>5, DiskStatsAssumption DEF Entries
  <2>2. \A f \in IntFields : fields[f] < IntModulus
    <3>1. ASSUME NEW f \in IntFields  PROVE fields[f] < IntModulus
      BY <1>4, Fields, StoreType
    <3>. QED  BY <3>1
  <2>3. Fitting(st.fields)
    BY <1>3, <1>5, <2>2 DEF Fitting
  <2>4. list \in Seq(Entries) /\ Len(list) \in Nat
        /\ \A i \in 1..Len(list) : Fitting(list[i].fields)
    BY DEF ListFits
  <2>5. CASE pc = "get"
    <3>1. /\ list' \in Seq(Entries) /\ Len(list') = Len(list) + 1
          /\ list'[Len(list) + 1] = st
          /\ \A i \in 1..Len(list) : list'[i] = list[i]
      BY <1>1, <2>1, <2>4, <2>5, AppendProperties
    <3>2. ASSUME NEW i \in 1..(Len(list) + 1)  PROVE Fitting(list'[i].fields)
      BY <2>3, <2>4, <3>1
    <3>. QED  BY <1>1, <3>1, <3>2 DEF ListFits, LoadedFits, Fitting
  <2>6. CASE pc # "get"
    BY <1>1, <2>6 DEF ListFits, LoadedFits, Fitting
  <2>. QED  BY <2>5, <2>6
<1>8. LinesAreListed'
  <2> SUFFICES ASSUME pc = "get"  PROVE LinesAreListed'
    BY <1>1 DEF LinesAreListed, LineType
  <2>1. st \in Entries
    BY <1>2, <1>3, <1>5, DiskStatsAssumption DEF Entries
  <2>2. /\ list \in Seq(Entries) /\ Len(list) = line - 1 /\ line \in Nat
        /\ \A i \in 1..(line - 1) : IsEntry(list[i], Devices[i])
    BY <1>1 DEF LinesAreListed, ListFits
  <2>3. list' = Append(list, st)
    BY <1>1
  <2>4. /\ list' \in Seq(Entries) /\ Len(list') = line
        /\ list'[line] = st /\ \A i \in 1..(line - 1) : list'[i] = list[i]
    BY <2>1, <2>2, <2>3, AppendProperties
  <2>5. ASSUME NEW f \in Names(StatFields)
        PROVE  Within(st.fields[f], f, seen[d][f], counters[d][f])
    BY <1>3, <1>4 DEF Within
  <2>6. IsEntry(st, d)
    BY <1>3, <2>5 DEF IsEntry
  <2>7. ASSUME NEW i \in 1..line  PROVE IsEntry(list'[i], Devices[i])
    <3>1. CASE i = line
      BY <2>4, <2>6, <3>1 DEF d
    <3>2. CASE i # line
      BY <2>2, <2>4, <3>2
    <3>. QED  BY <3>1, <3>2
  <2>8. ASSUME NEW i \in 1..line  PROVE IsEntry(list[i], Devices[i])'
    BY <1>1, <2>7 DEF IsEntry
  <2>9. line' - 1 = line
    BY <1>1, <2>2
  <2>. QED  BY <2>4, <2>8, <2>9 DEF LinesAreListed
<1>9. LinesAreSummed'
  <2> SUFFICES ASSUME pc = "sum", NEW f \in Names(StatFields) \ { "discards.time" }
               PROVE  Within(sum'[f], f, Total(seen, f, Extended(line)),
                                         Total(counters, f, Extended(line)))
    <3>1. line' - 1 = line
      BY <1>1
    <3>. QED  BY <1>1, <3>1 DEF LinesAreSummed, LineType
  <2> DEFINE ds == Extended(line - 1)
             low == Total(seen, f, ds)
             high == Total(counters, f, ds)
  <2>1. Within(sum[f], f, low, high)
    BY DEF LinesAreSummed
  <2>2. ds \in SUBSET Device
    BY <1>1, ExtendedOf
  <2>3. low \in Nat /\ high \in Nat
    BY <1>4, <2>2, TotalType DEF KernelType
  <2>4. Counts(st) <=> Major[d] = ExtMajor
    BY <1>3 DEF Counts
  <2>5. CASE Major[d] = ExtMajor
    <3>1. Extended(line) = ds \cup { d } /\ d \notin ds
      BY <1>1, <2>5, ExtendedOf DEF d
    <3> HIDE DEF ds
    <3>2. /\ Total(seen, f, ds \cup { d }) = seen[d][f] + low
          /\ Total(counters, f, ds \cup { d }) = counters[d][f] + high
      BY <1>2, <1>4, <2>2, <3>1, TotalAdds DEF KernelType
    <3>3. sum'[f] = Store(f, sum[f] + fields[f])
      BY <1>1, <1>3, <2>4, <2>5 DEF Add
    <3>4. fields[f] = Store(f, Shown(f, counters[d][f]))
      BY <1>4
    <3>5. /\ counters[d][f] \in Nat /\ seen[d][f] \in Nat
          /\ seen[d][f] <= counters[d][f]
      BY <1>4
    <3> HIDE DEF low, high
    <3>6. Within(Store(f, sum[f] + Store(f, Shown(f, counters[d][f]))), f,
                 seen[d][f] + low, counters[d][f] + high)
      BY <2>1, <2>3, <3>5, AddIsWithin
    <3>. QED  BY <3>1, <3>2, <3>3, <3>4, <3>6
  <2>6. CASE Major[d] # ExtMajor
    <3>1. Extended(line) = ds
      BY <1>1, <2>6, ExtendedOf DEF d
    <3>2. sum' = sum
      BY <1>1, <2>4, <2>6
    <3>. QED  BY <2>1, <3>1, <3>2
  <2>. QED  BY <2>5, <2>6
<1>. QED  BY <1>6, <1>7, <1>8, <1>9, <1>10

(* What a step leaves alone of what the invariant is about. *)
LEMMA Unchanged ==
  ASSUME IInv, UNCHANGED << printed, counters, pc, line, list, sum, seen >>, LoadedFits'
  PROVE  IInv'
BY DEF IInv, KernelType, SumFits, ListFits, LineType, SeenIsBehind, LinesAreListed,
       LinesAreSummed, IsEntry

(* A Stat that is loaded fits, whichever column each counter is taken from. *)
LEMMA LoadFits ==
  ASSUME KernelType, NEW name
  PROVE  LoadResult(name) = Failed \/ Fitting(LoadResult(name))
<1> DEFINE d == CHOOSE e \in Device : HasFile(name, e)
           l == NextField(SysLine(d))
<1> SUFFICES ASSUME \E e \in Device : HasFile(name, e), ~ScanFails(l)
             PROVE  Fitting(Scan(l))
  BY DEF LoadResult
<1>1. d \in Device
  OBVIOUS
<1> HIDE DEF d
<1>2. Numbers(d) \in Seq(Nat) /\ Len(Numbers(d)) = printed /\ printed \in Nat \ {0}
  BY <1>1, DiskStatsAssumption, NumbersAreNatural DEF KernelType
<1>3. l.text = Numbers(d) \/ l.text = Tail(Numbers(d))
  BY DEF NextField, SysLine
<1>4. l.text \in Seq(Nat)
  <2>1. Numbers(d) # << >>
    BY <1>2
  <2>2. Tail(Numbers(d)) \in Seq(Nat)
    BY <1>2, <2>1, HeadTailProperties
  <2>. QED  BY <1>2, <1>3, <2>2
<1>5. Len(l.text) \in Nat /\ ~(Len(l.text) < 15)
  BY <1>4, Fields DEF ScanFails
<1> HIDE DEF l
<1>6. ASSUME NEW f \in Names(StatFields)
      PROVE  /\ Store(f, l.text[Column(f)]) \in Nat
             /\ f \in IntFields => Store(f, l.text[Column(f)]) < IntModulus
  <2>1. Column(f) \in 1..Len(l.text)
    BY <1>5, Fields
  <2>2. l.text[Column(f)] \in Nat
    BY <1>4, <2>1
  <2>. QED  BY <2>2, StoreType
<1>. QED  BY <1>6, Fields DEF Fitting, Scan

\* every step keeps it,
LEMMA NextIInv == IInv /\ [Next]_vars => IInv'
<1> SUFFICES ASSUME IInv, [Next]_vars  PROVE IInv'
  OBVIOUS
<1>1. ASSUME NEW d \in Device, NEW op \in { "read", "write", "discards" }, Complete(d, op)
      PROVE  IInv'
  BY <1>1, CompleteIInv
<1>2. CASE Open("get")
  BY <1>2, OpenIInv
<1>3. CASE ReadLine
  BY <1>3, ReadLineIInv
<1>4. CASE ReadFails
  <2>1. /\ list' = << >> /\ sum' = Empty /\ loaded' = loaded
        /\ SumFits' /\ ListFits'
    BY <1>4, DiskStatsAssumption, Fields DEF ReadFails, SumFits, ListFits, Fitting, Empty
  <2>3. LoadedFits'
    BY <2>1 DEF IInv, LoadedFits, Fitting
  <2>2. KernelType' /\ LineType' /\ SeenIsBehind' /\ LinesAreListed' /\ LinesAreSummed'
    BY <1>4 DEF ReadFails, IInv, KernelType, LineType, SeenIsBehind, LinesAreListed,
                LinesAreSummed
  <2>. QED  BY <2>1, <2>2, <2>3 DEF IInv
<1>5. CASE ReadEnd
  <2>1. /\ UNCHANGED << printed, counters, line, list, sum, seen, loaded >>
        /\ \/ pc = "get" /\ pc' = "listed"
           \/ pc = "sum" /\ pc' = "summed"
        /\ line = Len(Devices) + 1
    BY <1>5, DevicesAreFew DEF ReadEnd, Reading, IInv, LineType
  <2>2. KernelType' /\ SumFits' /\ ListFits' /\ LoadedFits' /\ LineType' /\ SeenIsBehind'
    BY <2>1 DEF IInv, KernelType, SumFits, ListFits, LoadedFits, LineType, SeenIsBehind
  <2>3. LinesAreListed' /\ LinesAreSummed'
    BY <2>1 DEF IInv, LinesAreListed, LinesAreSummed, IsEntry
  <2>. QED  BY <2>2, <2>3 DEF IInv
<1>6. ASSUME NEW path \in Paths, Stat(path)  PROVE IInv'
  <2>1. CASE Open("sum")
    BY <2>1, OpenIInv
  <2>2. CASE /\ loaded' = << path, LoadResult(NameFactory(path)) >>
             /\ UNCHANGED << printed, counters, pc, line, list, sum, seen >>
    <3>1. loaded'[2] = LoadResult(NameFactory(path))
      BY <2>2
    <3>2. LoadedFits'
      BY <3>1, LoadFits DEF IInv, LoadedFits, Fitting
    <3>. QED  BY <2>2, <3>2, Unchanged
  <2>. QED  BY <1>6, <2>1, <2>2 DEF Stat
<1>7. CASE UNCHANGED vars
  <2>1. LoadedFits'
    BY <1>7 DEF vars, IInv, LoadedFits, Fitting
  <2>. QED  BY <1>7, <2>1, Unchanged DEF vars
<1>. QED  BY <1>1, <1>2, <1>3, <1>4, <1>5, <1>6, <1>7 DEF Next

\* and so it holds in every reachable state.
LEMMA InvariantHolds == Spec => []IInv
BY InitIInv, NextIInv, PTL DEF Spec

(***************************************************************************)
(* The types; every Stat that is listed, summed or loaded fits its members *)
(* (TypeOK).                                                               *)
(***************************************************************************)
THEOREM TypeCorrect == Spec => []TypeOK
<1>1. IInv => TypeOK
  <2> SUFFICES ASSUME IInv  PROVE TypeOK
    OBVIOUS
  <2>1. list \in Seq(Entries) /\ \A i \in 1..Len(list) : Fitting(list[i].fields)
    BY DEF IInv, ListFits
  <2>2. \A i \in DOMAIN list : list[i] \in Entries /\ Fitting(list[i].fields)
    BY <2>1
  <2>3. Fitting(sum) /\ (loaded # << >> => loaded[2] = Failed \/ Fitting(loaded[2]))
    BY DEF IInv, SumFits, LoadedFits
  <2>. QED  BY <2>2, <2>3 DEF IInv, KernelType, LineType, TypeOK
<1>. QED  BY <1>1, InvariantHolds, PTL

(***************************************************************************)
(* The list of get() is of the devices in the kernel's order, each counter *)
(* one that its device had while the file was read (ListIsFaithful).       *)
(***************************************************************************)
THEOREM ListsAreFaithful == Spec => []ListIsFaithful
<1>1. IInv => ListIsFaithful
  <2> SUFFICES ASSUME IInv, pc = "listed"
               PROVE  /\ Len(list) = Len(Devices)
                      /\ \A i \in DOMAIN list : IsEntry(list[i], Devices[i])
    BY DEF ListIsFaithful, IsEntry
  <2>1. /\ list \in Seq(Entries) /\ Len(list) = line - 1 /\ line = Len(Devices) + 1
        /\ \A i \in 1..(line - 1) : IsEntry(list[i], Devices[i])
    BY DEF IInv, LineType, ListFits, LinesAreListed
  <2>2. Len(list) = Len(Devices) /\ DOMAIN list = 1..(line - 1)
    BY <2>1, DevicesAreFew
  <2>. QED  BY <2>1, <2>2
<1>. QED  BY <1>1, InvariantHolds, PTL

(***************************************************************************)
(* Stat("") adds each device of the extended major once and each counter   *)
(* to its own, through words that wrap (SumIsOfExtended).                  *)
(***************************************************************************)
THEOREM SumsAreOfExtended == Spec => []SumIsOfExtended
<1>1. IInv => SumIsOfExtended
  <2> SUFFICES ASSUME IInv, pc = "summed"
               PROVE  LET ds == { d \in Device : Major[d] = ExtMajor }
                      IN  \A f \in Names(StatFields) \ { "discards.time" } :
                            Within(sum[f], f, Total(seen, f, ds), Total(counters, f, ds))
    BY DEF SumIsOfExtended, SumWithin
  <2>1. line - 1 = Len(Devices)
    BY DevicesAreFew DEF IInv, LineType
  <2>2. Extended(line - 1) = { d \in Device : Major[d] = ExtMajor }
    BY <2>1, ExtendedOf
  <2>. QED  BY <2>2 DEF IInv, LinesAreSummed
<1>. QED  BY <1>1, InvariantHolds, PTL

-----------------------------------------------------------------------------
(***************************************************************************)
(* Loading one device: which file a name leads to, and what its line is.   *)
(***************************************************************************)
LEMMA PartsOfPaths ==
  ASSUME NEW path \in Paths
  PROVE  Len(path) \in Nat \ {0} /\ DOMAIN path = 1..Len(path) /\ Last(path) = path[Len(path)]
BY DiskStatsAssumption DEF Last

\* The last part of a name that is not empty is what the name means.
LEMMA MeantIsLast ==
  ASSUME NEW path \in Paths, NEW i \in DOMAIN path, path[i] # NoPart,
         \A j \in DOMAIN path : j > i => path[j] = NoPart
  PROVE  Meant(path) = path[i]
<1> DEFINE parts == { j \in DOMAIN path : path[j] # NoPart }
<1>1. i \in parts /\ \A j \in parts : i >= j
  BY PartsOfPaths
<1>2. parts \subseteq Int
  BY PartsOfPaths
<1>3. \A k \in parts : (\A j \in parts : k >= j) => k = i
  BY <1>1, <1>2
<1> HIDE DEF parts
<1>4. Max(parts) = i
  BY <1>1, <1>3 DEF Max
<1>. QED  BY <1>4 DEF Meant, parts

\* A file that a name leads to is that of the device the name means.
LEMMA FileIsMeant ==
  ASSUME NEW path \in Paths, NEW d \in Device, HasFile(NameFactory(path), d)
  PROVE  d = Meant(path)
<1>1. d # NoPart
  BY DiskStatsAssumption
<1>2. CASE Last(path) # NoPart
  <2>1. NameFactory(path) = << Last(path) >>
    BY <1>2 DEF NameFactory
  <2>2. d = Last(path)
    BY <2>1 DEF HasFile
  <2>3. Meant(path) = path[Len(path)]
    BY <1>2, PartsOfPaths, MeantIsLast
  <2>. QED  BY <2>2, <2>3, PartsOfPaths
<1>3. CASE Last(path) = NoPart
  <2>1. NameFactory(path) = path
    BY <1>3 DEF NameFactory
  <2>2. PICK i \in DOMAIN path :
          /\ path[i] = d
          /\ \/ \A j \in DOMAIN path \ { i } : path[j] = NoPart
             \/ \E h \in 1..(i - 1) :
                  \A j \in DOMAIN path \ { h, i } : path[j] = NoPart
    BY <2>1 DEF HasFile
  <2>3. \A j \in DOMAIN path : j > i => path[j] = NoPart
    BY <2>2, PartsOfPaths
  <2>. QED  BY <1>1, <2>2, <2>3, MeantIsLast
<1>. QED  BY <1>2, <1>3

\* While its first counter leaves a blank, the whole line of a device is scanned;
\* when it does not, the line is one counter short.
LEMMA SysLineIsScanned ==
  ASSUME KernelType, NEW d \in Device
  PROVE  LET l == NextField(SysLine(d))
         IN  /\ counters[d]["read.count"] < Padding =>
                  /\ ScanFails(l) <=> printed < 15
                  /\ ~ScanFails(l) =>
                       Scan(l) = [f \in Names(StatFields) |->
                                    Store(f, Shown(f, counters[d][f]))]
             /\ ~(counters[d]["read.count"] < Padding) => (ScanFails(l) <=> printed < 16)
<1> DEFINE l == NextField(SysLine(d))
<1>1. printed \in Nat /\ printed > 0 /\ Numbers(d) \in Seq(Nat) /\ Len(Numbers(d)) = printed
  BY DiskStatsAssumption, NumbersAreNatural DEF KernelType
<1>2. ASSUME counters[d]["read.count"] < Padding
      PROVE  /\ ScanFails(l) <=> printed < 15
             /\ ~ScanFails(l) =>
                  Scan(l) = [f \in Names(StatFields) |-> Store(f, Shown(f, counters[d][f]))]
  <2>1. l.text = Numbers(d)
    BY <1>2 DEF NextField, SysLine
  <2>2. ScanFails(l) <=> printed < 15
    BY <1>1, <2>1, Fields DEF ScanFails
  <2>3. ASSUME ~ScanFails(l), NEW f \in Names(StatFields)
        PROVE  Store(f, l.text[Column(f)]) = Store(f, Shown(f, counters[d][f]))
    BY <1>1, <2>1, <2>2, <2>3, NumbersAreNatural
  <2>. QED  BY <2>2, <2>3 DEF Scan
<1>3. ASSUME ~(counters[d]["read.count"] < Padding)  PROVE ScanFails(l) <=> printed < 16
  <2>1. l.text = Tail(Numbers(d))
    BY <1>3 DEF NextField, SysLine
  <2>2. Len(Tail(Numbers(d))) = printed - 1
    BY <1>1, HeadTailProperties
  <2>. QED  BY <1>1, <2>1, <2>2, Fields DEF ScanFails
<1>. QED  BY <1>2, <1>3

\* The step that changes what is loaded.
LEMMA LoadStep ==
  ASSUME [Next]_vars, loaded' # loaded
  PROVE  \E path \in Paths : loaded' = << path, LoadResult(NameFactory(path)) >>
BY DEF Next, vars, Complete, Open, ReadLine, ReadFails, ReadEnd, Stat

\* What a loaded Stat should be.
IsFaithful(stat, d) ==
  \A f \in Names(StatFields) : stat[f] = Store(f, Shown(f, counters[d][f]))

\* What is loaded is right if the line has blanks to skip, or has no counter to
\* spare for the one that is skipped instead of them.
LEMMA LoadedIsFaithful ==
  ASSUME IInv, [Next]_vars, loaded' # loaded, loaded'[2] # Failed,
         \/ 17 \notin Printings
         \/ counters[Meant(loaded'[1])]["read.count"] < Padding
  PROVE  IsFaithful(loaded'[2], Meant(loaded'[1]))
<1>1. PICK path \in Paths : loaded' = << path, LoadResult(NameFactory(path)) >>
  BY LoadStep
<1> DEFINE name == NameFactory(path)
           d == CHOOSE e \in Device : HasFile(name, e)
           l == NextField(SysLine(d))
<1>2. loaded'[1] = path /\ loaded'[2] = LoadResult(name)
  BY <1>1
<1>3. (\E e \in Device : HasFile(name, e)) /\ ~ScanFails(l) /\ LoadResult(name) = Scan(l)
  BY <1>2 DEF LoadResult
<1>4. d \in Device /\ HasFile(name, d)
  BY <1>3
<1> HIDE DEF d
<1>5. d = Meant(path)
  BY <1>4, FileIsMeant
<1>6. KernelType /\ (printed < 16 \/ counters[d]["read.count"] < Padding)
  <2>1. KernelType
    BY DEF IInv
  <2>2. 17 \notin Printings => printed < 16
    BY <2>1, DiskStatsAssumption DEF KernelType
  <2>. QED  BY <1>2, <1>5, <2>1, <2>2
<1>7. Scan(l) = [g \in Names(StatFields) |-> Store(g, Shown(g, counters[d][g]))]
  BY <1>3, <1>4, <1>6, SysLineIsScanned
<1> HIDE DEF l, name
<1>. QED  BY <1>2, <1>3, <1>5, <1>7 DEF IsFaithful

(***************************************************************************)
(* On a kernel that prints no counters of flushes, what Stat(name) loads   *)
(* is the counters of the device the name is for, or it fails, however     *)
(* many reads there were (LoadIsFaithful).                                 *)
(***************************************************************************)
THEOREM LoadsAreFaithful ==
  ASSUME 17 \notin Printings
  PROVE  Spec => LoadIsFaithful
<1>1. IInv /\ [Next]_vars =>
        [loaded' # loaded /\ loaded'[2] # Failed =>
           \A f \in Names(StatFields) :
             loaded'[2][f] = Store(f, Shown(f, counters[Meant(loaded'[1])][f]))]_vars
  BY LoadedIsFaithful DEF IsFaithful
<1>. QED  BY <1>1, InvariantHolds, PTL DEF Spec, LoadIsFaithful

(***************************************************************************)
(* On every kernel, those of today included, it is right until the reads   *)
(* of the disk fill their column (load(), diskstats.cc:127-163).           *)
(***************************************************************************)
EarlyLoadIsFaithful ==
  [][loaded' # loaded /\ loaded'[2] # Failed
       /\ counters[Meant(loaded'[1])]["read.count"] < Padding =>
     \A f \in Names(StatFields) :
       loaded'[2][f] = Store(f, Shown(f, counters[Meant(loaded'[1])][f]))]_vars

\* What Stat(name) loads before the column is full, for any printing.
THEOREM EarlyLoadsAreFaithful == Spec => EarlyLoadIsFaithful
<1>1. IInv /\ [Next]_vars =>
        [loaded' # loaded /\ loaded'[2] # Failed
           /\ counters[Meant(loaded'[1])]["read.count"] < Padding =>
         \A f \in Names(StatFields) :
           loaded'[2][f] = Store(f, Shown(f, counters[Meant(loaded'[1])][f]))]_vars
  BY LoadedIsFaithful DEF IsFaithful
<1>. QED  BY <1>1, InvariantHolds, PTL DEF Spec, EarlyLoadIsFaithful

(***************************************************************************)
(* On every kernel that prints the counters, a disk is found by its name,  *)
(* with any directories before it, until its reads fill their column       *)
(* (DisksAreFound).                                                        *)
(***************************************************************************)
THEOREM DisksAreFoundByName == Spec => DisksAreFound
<1> DEFINE Found ==
      loaded' # loaded /\ printed >= Len(StatFields) /\ Last(loaded'[1]) # NoPart =>
        LET d == Meant(loaded'[1])
        IN  d \in Device /\ Whole[d] = d /\ counters[d]["read.count"] < Padding
              => loaded'[2] # Failed
<1>1. ASSUME IInv, [Next]_vars  PROVE Found
  <2> DEFINE d == Meant(loaded'[1])
  <2> SUFFICES ASSUME loaded' # loaded, printed >= Len(StatFields),
                      Last(loaded'[1]) # NoPart, d \in Device, Whole[d] = d,
                      counters[d]["read.count"] < Padding
               PROVE  loaded'[2] # Failed
    OBVIOUS
  <2>1. PICK path \in Paths : loaded' = << path, LoadResult(NameFactory(path)) >>
    BY <1>1, LoadStep
  <2>2. loaded'[1] = path /\ loaded'[2] = LoadResult(NameFactory(path))
    BY <2>1
  <2>3. d = Last(path)
    BY <2>2, PartsOfPaths, MeantIsLast
  <2> HIDE DEF d
  <2>4. NameFactory(path) = << d >>
    BY <2>2, <2>3 DEF NameFactory
  <2>5. \A e \in Device : HasFile(<< d >>, e) <=> e = d
    <3>1. DOMAIN << d >> = { 1 } /\ << d >>[1] = d
      OBVIOUS
    <3>2. \A i \in DOMAIN << d >> : 1..(i - 1) = {}
      BY <3>1
    <3>. QED  BY <3>1, <3>2 DEF HasFile
  <2>6. (CHOOSE e \in Device : HasFile(<< d >>, e)) = d
    BY <2>5
  <2>7. KernelType /\ ~(printed < 15)
    <3>1. KernelType
      BY <1>1 DEF IInv
    <3>2. printed \in Int
      BY <3>1, DiskStatsAssumption DEF KernelType
    <3>. QED  BY <3>1, <3>2, Fields
  <2> DEFINE l == NextField(SysLine(d))
             fields == [f \in Names(StatFields) |-> Store(f, Shown(f, counters[d][f]))]
  <2>8. ~ScanFails(l) /\ Scan(l) = fields
    BY <2>7, SysLineIsScanned
  <2>9. fields \in [Names(StatFields) -> Nat]
    <3>1. \A f \in Names(StatFields) : counters[d][f] \in Nat
      BY <2>7, Fields DEF KernelType
    <3>. QED  BY <3>1, StoreType
  <2> HIDE DEF fields
  <2>10. fields # Failed
    BY <2>9, DiskStatsAssumption
  <2>11. LoadResult(<< d >>) = Scan(l)
    BY <2>5, <2>6, <2>8 DEF LoadResult
  <2>. QED  BY <2>2, <2>4, <2>8, <2>10, <2>11
<1>2. IInv /\ [Next]_vars => [Found]_vars
  BY <1>1
<1>. QED  BY <1>2, InvariantHolds, PTL DEF Spec, DisksAreFound
=============================================================================
