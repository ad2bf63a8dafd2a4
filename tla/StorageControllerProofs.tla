----------------------- MODULE StorageControllerProofs -----------------------
(***************************************************************************)
(* What StorageController guarantees for every set of devices, actions and *)
(* callers, every configuration and every width of the counters.           *)
(***************************************************************************)
EXTENDS StorageController, DiskSpeedProofs, SequenceTheorems

-----------------------------------------------------------------------------
(***************************************************************************)
(* The inductive invariant: which handler is running on what ...           *)
(***************************************************************************)
Building == pc \in {"scan", "realpath", "push"}

HandlerInv ==
  /\ Building => building \in Actions
  /\ ~Building => building = None
  /\ \A a \in Actions : action[a] = "building" <=> a = building
  /\ unit # None <=> pc \in {"realpath", "push"}
  /\ pc = "realpath" => Kind[unit] # "partition"
  /\ pc = "push" => Kind[unit] = "physical"

(***************************************************************************)
(* ... that a scan still has before it, in todo or in unit, every steady   *)
(* physical disk it has not put under watch ...                            *)
(***************************************************************************)
ScanInv ==
  Building =>
    /\ steady \subseteq Present
    /\ \A n \in steady : Kind[n] = "physical" =>
         n \in Watched \/ n \in todo \/ n = unit

(***************************************************************************)
(* ... and that a call's copy is a prefix of the vector, its rows a prefix *)
(* of the copy.                                                            *)
(***************************************************************************)
RowsInv ==
  \A w \in Callers :
    LET c == call[w]
    IN  /\ Len(c.copy) <= Len(disks)
        /\ \A i \in 1..Len(c.copy) : c.copy[i].name = disks[i].name
        /\ Len(c.rows) <= Len(c.copy)
        /\ \A i \in 1..Len(c.rows) : c.rows[i].device = c.copy[i].name
        /\ c.pc = "rows" => c.next = Len(c.rows) + 1 /\ c.rows # <<>>
        /\ c.pc = "done" => Len(c.rows) = Len(c.copy) /\ c.rows # <<>>

IInv == /\ TypeOK /\ HandlerInv /\ ScanInv /\ RowsInv
        /\ NoDuplicateDisks /\ OnlyPhysicalDisks /\ TimerServesActions

-----------------------------------------------------------------------------
(***************************************************************************)
(* Types.  Data objects come from NewData and Refreshed.                   *)
(***************************************************************************)
LEMMA NewDataType ==
  ASSUME NEW n \in Names, NEW b \in BlockSizes
  PROVE  NewData(n, b) \in DataType
BY DEF NewData, DataType, Speeds, NoSpeed, NoSample

\* A refreshed object is a Data,
LEMMA RefreshedType ==
  ASSUME NEW data \in DataType, NEW stat \in [Directions -> Counters]
  PROVE  Refreshed(data, stat) \in DataType
<1>1. data.blocksize \in Nat
  BY ControllerAssumption DEF DataType
<1>2. \A d \in Directions : Sample(stat[d], data.blocksize) \in Samples
  BY <1>1, SampleType
<1>3. \A d \in Directions : data.saved[d] \in Samples
  BY DEF DataType, Samples
<1>4. \A d \in Directions :
        CycleSpeed(Sample(stat[d], data.blocksize), data.saved[d]) \in Quotients
  BY <1>2, <1>3, CycleSpeedType
<1> DEFINE speed == [d \in Directions |->
                       CycleSpeed(Sample(stat[d], data.blocksize), data.saved[d])]
           saved == [d \in Directions |-> Sample(stat[d], data.blocksize)]
<1>5. speed \in Speeds /\ saved \in [Directions -> Samples]
  BY <1>2, <1>4 DEF Speeds, Quotients
<1>6. Refreshed(data, stat) = [data EXCEPT !.speed = speed, !.saved = saved]
  BY DEF Refreshed
<1> HIDE DEF speed, saved
<1>. QED  BY <1>5, <1>6 DEF DataType, Samples

\* and a row of a report shows its speeds.
LEMMA RowType ==
  ASSUME NEW data \in DataType
  PROVE  Row(data) \in [device : Names, speed : Speeds]
BY DEF Row, DataType

\* The types hold at first, and
LEMMA TypeInit == Init => TypeOK
<1> SUFFICES ASSUME Init  PROVE TypeOK
  OBVIOUS
<1>1. ZeroStat \in [Directions -> [blocks : Nat, time : Nat]]
  BY DEF ZeroStat
<1>2. disk \in [Names -> DiskType \union {NoDisk}]
  BY <1>1 DEF Init, DiskType
<1>3. call \in [Callers -> CallType]
  BY DEF Init, CallType
<1>4. disks \in Seq(DataType) /\ copy \in Seq(DataType)
  BY DEF Init
<1>5. action \in [Actions -> {"declared", "building", "ready", "failed"}]
  BY DEF Init
<1>6. building \in Actions \union {None} /\ unit \in Names \union {None}
  BY DEF Init
<1>7. todo \subseteq Names /\ steady \subseteq Names
  BY DEF Init
<1>8. interval \in Nat /\ next \in Nat \ {0}
  BY DEF Init
<1>9. enabled \in BOOLEAN
  BY Zenon DEF Init
<1>10. pc \in {"idle", "scan", "realpath", "push", "refresh"}
  BY DEF Init
<1>. QED  BY <1>2, <1>3, <1>4, <1>5, <1>6, <1>7, <1>8, <1>9, <1>10, Zenon DEF TypeOK

\* A disk that is plugged in, or works, is a disk and not the mark of none.
LEMMA PlugType ==
  ASSUME TypeOK, NEW n \in Names, Plug(n)
  PROVE  disk'[n] \in DiskType /\ \A m \in Names \ {n} : disk'[m] = disk[m]
<1>1. ZeroStat \in [Directions -> [blocks : Nat, time : Nat]]
  BY DEF ZeroStat
<1>. QED  BY <1>1 DEF Plug, TypeOK, DiskType

\* a request changes the counters of its disk only.
LEMMA TransferType ==
  ASSUME TypeOK, NEW n \in Names, NEW d \in Directions, Transfer(n, d)
  PROVE  disk'[n] \in DiskType /\ \A m \in Names \ {n} : disk'[m] = disk[m]
<1>1. disk[n] \in DiskType
  BY DEF Transfer, TypeOK
<1> DEFINE old == disk[n].stat[d]
           new == [blocks |-> old.blocks + 1,
                   time |-> (old.time + 1) % TimeModulus]
<1>2. old \in [blocks : Nat, time : Nat]
  BY <1>1 DEF DiskType
<1>3. (old.time + 1) % TimeModulus \in Nat
  <2>1. TimeModulus \in Nat \ {0} /\ old.time + 1 \in Int
    BY <1>2, WidthsAssumption
  <2>. QED  BY <2>1
<1>4. new \in [blocks : Nat, time : Nat]
  BY <1>2, <1>3
<1>5. disk' = [disk EXCEPT ![n].stat[d] = new]
  BY DEF Transfer
<1> HIDE DEF new
<1>. QED  BY <1>1, <1>4, <1>5 DEF TypeOK, DiskType

\* The kernel's events change a disk and nothing else that is typed.
LEMMA TypeKernel ==
  ASSUME TypeOK, Kernel
  PROVE  TypeOK'
<1>1. disk' \in [Names -> DiskType \union {NoDisk}]
  <2>1. disk' \in [Names -> {disk'[n] : n \in Names}]
    BY DEF Kernel, Plug, Unplug, Transfer, TypeOK
  <2>2. ASSUME NEW n \in Names, Unplug(n), NEW m \in Names
        PROVE  disk'[m] \in DiskType \union {NoDisk}
    BY <2>2 DEF Unplug, TypeOK
  <2>3. \A m \in Names : disk'[m] \in DiskType \union {NoDisk}
    BY <2>2, PlugType, TransferType DEF Kernel, TypeOK
  <2>. QED  BY <2>1, <2>3
<1>2. steady' \in SUBSET Names
  BY DEF Kernel, Plug, Unplug, Transfer, TypeOK, kernel
<1>3. UNCHANGED <<controller, action, handler, call>>
  BY DEF Kernel, Plug, Unplug, Transfer
<1>. QED  BY <1>1, <1>2, <1>3 DEF TypeOK, controller, handler

\* An action that begins keeps the types,
LEMMA TypeConfigure ==
  ASSUME TypeOK, Configure
  PROVE  TypeOK'
<1>1. Present \subseteq Names
  BY DEF Present
<1>2. UNCHANGED <<disk, disks, interval, enabled, copy, next, call>>
  BY DEF Configure, BuildRefused, BuildStart, kernel, controller, handler
<1>3. ASSUME NEW a \in Actions, BuildRefused(a)
      PROVE  TypeOK'
  BY <1>2, <1>3 DEF BuildRefused, TypeOK, kernel, handler
<1>4. ASSUME NEW a \in Actions, BuildStart(a)
      PROVE  TypeOK'
  BY <1>1, <1>2, <1>4 DEF BuildStart, TypeOK
<1>. QED  BY <1>3, <1>4 DEF Configure

\* each step of its scan does,
LEMMA TypeConstruct ==
  ASSUME TypeOK, Construct, Building => building \in Actions
  PROVE  TypeOK'
<1>0. UNCHANGED <<disk, copy, next, call>> /\ building \in Actions
  BY DEF Construct, CheckAccess, ResolvePath, PushKnown, PushNew, Setup,
         BuildThrows, NextUnit, kernel, controller, Building
<1>1. ASSUME BuildThrows, UNCHANGED disks
      PROVE  TypeOK'
  BY <1>0, <1>1 DEF BuildThrows, TypeOK, kernel, controller
<1>2. ASSUME NextUnit, disks' \in Seq(DataType)
      PROVE  TypeOK'
  BY <1>0, <1>2 DEF NextUnit, TypeOK, kernel
<1>3. ASSUME NEW n \in Names, CheckAccess(n)
      PROVE  TypeOK'
  BY <1>0, <1>3 DEF CheckAccess, TypeOK, kernel, controller
<1>4. CASE ResolvePath
  BY <1>0, <1>1, <1>2, <1>4
     DEF ResolvePath, TypeOK, kernel, controller, BuildThrows
<1>5. CASE PushKnown
  BY <1>2, <1>5 DEF PushKnown, TypeOK
<1>6. CASE PushNew
  <2>1. CASE Opens(unit)
    <3>1. unit \in Names /\ disk[unit].blocksize \in BlockSizes
      BY <2>1 DEF Opens, Present, TypeOK, DiskType
    <3>2. NewData(unit, disk[unit].blocksize) \in DataType
      BY <3>1, NewDataType
    <3>3. disks' \in Seq(DataType)
      BY <1>6, <2>1, <3>2 DEF PushNew, TypeOK
    <3>. QED  BY <1>2, <1>6, <2>1, <3>3 DEF PushNew
  <2>2. CASE ~Opens(unit)
    BY <1>1, <1>6, <2>2 DEF PushNew, BuildThrows, controller
  <2>. QED  BY <2>1, <2>2
<1>7. CASE Setup
  <2>1. TimerInterval[building] \in Nat /\ interval \in Nat
    BY <1>0, ControllerAssumption DEF TypeOK
  <2>2. interval' \in Nat
    BY <1>7, <2>1 DEF Setup, NewInterval, DefaultInterval
  <2>. QED  BY <1>0, <1>7, <2>2 DEF Setup, TypeOK, kernel
<1>. QED  BY <1>3, <1>4, <1>5, <1>6, <1>7 DEF Construct

\* each step of the timer,
LEMMA TypeTimer ==
  ASSUME TypeOK, TimerFires \/ Refresh
  PROVE  TypeOK'
<1>1. CASE TimerFires
  BY <1>1 DEF TimerFires, TypeOK, kernel, controller
<1>2. CASE RefreshOne
  <2> DEFINE data == copy[next]
             stat == disk[data.name].stat
             new == IF data.name \in Present
                    THEN [Refreshed(data, stat) EXCEPT !.error = FALSE]
                    ELSE [data EXCEPT !.error = TRUE]
  <2>1. next \in 1..Len(copy)
    BY <1>2, LenProperties DEF RefreshOne, TypeOK
  <2>2. data \in DataType
    BY <2>1, ElementOfSeq DEF TypeOK
  <2>3. new \in DataType
    <3>1. CASE data.name \in Present
      <4>1. stat \in [Directions -> Counters]
        BY <3>1 DEF Present, TypeOK, DiskType, Counters
      <4>2. Refreshed(data, stat) \in DataType
        BY <2>2, <4>1, RefreshedType
      <4> HIDE DEF stat, data
      <4>. QED  BY <3>1, <4>2 DEF DataType
    <3>2. CASE data.name \notin Present
      BY <2>2, <3>2 DEF DataType
    <3>. QED  BY <3>1, <3>2
  <2>4. copy' = [copy EXCEPT ![next] = new]
    BY <1>2 DEF RefreshOne
  <2> HIDE DEF new
  <2>5. copy' \in Seq(DataType)
    BY <2>1, <2>3, <2>4, ExceptSeq DEF TypeOK
  <2>. QED  BY <1>2, <2>5 DEF RefreshOne, TypeOK, kernel, controller
<1>3. CASE TimerDone
  BY <1>3 DEF TimerDone, TypeOK, kernel, controller
<1>. QED  BY <1>1, <1>2, <1>3 DEF Refresh

\* each step of a call,
LEMMA TypeCall ==
  ASSUME TypeOK, NEW w \in Callers, CallStart(w) \/ CallRaces(w) \/ Call(w)
  PROVE  TypeOK'
<1>1. call[w] \in CallType
  BY DEF TypeOK
<1>2. ASSUME NEW c \in CallType, call' = [call EXCEPT ![w] = c],
             UNCHANGED <<kernel, controller, action, handler>>
      PROVE  TypeOK'
  BY <1>2 DEF TypeOK, kernel, controller, handler
<1>3. CASE CallStart(w)
  <2>1. CASE disks = <<>>
    <3>1. [pc |-> "nodata", copy |-> <<>>, next |-> 1, rows |-> <<>>] \in CallType
      BY DEF CallType
    <3>. QED  BY <1>2, <1>3, <2>1, <3>1 DEF CallStart
  <2>2. CASE disks # <<>>
    <3>1. disks[1] \in DataType
      BY <2>2, EmptySeq, ElementOfSeq DEF TypeOK
    <3>2. <<Row(disks[1])>> \in Seq([device : Names, speed : Speeds])
      BY <3>1, RowType
    <3>3. [pc |-> "rows", copy |-> disks, next |-> 2,
           rows |-> <<Row(disks[1])>>] \in CallType
      BY <3>2 DEF CallType, TypeOK
    <3>. QED  BY <1>2, <1>3, <2>2, <3>3 DEF CallStart
  <2>. QED  BY <2>1, <2>2
<1>4. CASE CallRaces(w)
  <2>1. [pc |-> "undefined", copy |-> <<>>, next |-> 1, rows |-> <<>>] \in CallType
    BY DEF CallType
  <2>. QED  BY <1>2, <1>4, <2>1 DEF CallRaces
<1>5. CASE CallRow(w)
  <2> DEFINE c == call[w]
  <2>1. c \in CallType /\ c.next \in 1..Len(c.copy)
    BY <1>1, <1>5, LenProperties DEF CallRow, CallType
  <2>2. Row(c.copy[c.next]) \in [device : Names, speed : Speeds]
    BY <1>1, <2>1, ElementOfSeq, RowType DEF CallType
  <2> DEFINE rows == Append(c.rows, Row(c.copy[c.next]))
  <2>3. rows \in Seq([device : Names, speed : Speeds])
    BY <1>1, <2>2 DEF CallType
  <2> DEFINE longer == [c EXCEPT !.rows = rows]
             new == [longer EXCEPT !.next = c.next + 1]
  <2>4. call' = [call EXCEPT ![w] = new]
    BY <1>5 DEF CallRow, TypeOK
  <2> HIDE DEF rows, c
  <2>5. c.next + 1 \in Nat \ {0}
    BY <2>1 DEF CallType
  <2>6. longer \in CallType
    BY <2>1, <2>3 DEF CallType
  <2> HIDE DEF longer
  <2>7. new \in CallType
    BY <2>5, <2>6 DEF CallType
  <2> HIDE DEF new
  <2>. QED  BY <1>2, <1>5, <2>4, <2>7 DEF CallRow
<1>6. CASE CallEnd(w)
  <2>1. [call[w] EXCEPT !.pc = "done"] \in CallType
    BY <1>1 DEF CallType
  <2>2. call' = [call EXCEPT ![w] = [call[w] EXCEPT !.pc = "done"]]
    BY <1>6 DEF CallEnd, TypeOK
  <2>. QED  BY <1>2, <1>6, <2>1, <2>2 DEF CallEnd
<1>. QED  BY <1>3, <1>4, <1>5, <1>6 DEF Call

\* Without a step of Next nothing changes.
LEMMA Stutter ==
  ASSUME IInv, UNCHANGED vars
  PROVE  IInv'
BY DEF IInv, vars, TypeOK, Building, HandlerInv, ScanInv, RowsInv, Watched,
       Present, NoDuplicateDisks, OnlyPhysicalDisks, TimerServesActions,
       Ready, Wishes

\* and so every step.
LEMMA TypeStep ==
  ASSUME IInv, Next
  PROVE  TypeOK'
BY TypeKernel, TypeConfigure, TypeConstruct, TypeTimer, TypeCall
   DEF Next, IInv, HandlerInv

-----------------------------------------------------------------------------
(***************************************************************************)
(* The vector changes in one way only: a steady place for what is there,   *)
(* and one new entry, of a physical device that was not watched.           *)
(***************************************************************************)
Grows == \E data \in DataType :
           /\ disks' = Append(disks, data)
           /\ data.name \notin Watched
           /\ Kind[data.name] = "physical"

\* The vector stays as it is, or one physical disk not yet in it is appended.
LEMMA VectorStep ==
  ASSUME IInv, Next
  PROVE  \/ UNCHANGED disks
         \/ PushNew /\ Grows /\ unit \in Names /\ disks' # disks
            /\ Watched' = Watched \union {unit} /\ NextUnit
<1>1. CASE ~PushNew
  BY <1>1 DEF Next, Kernel, Plug, Unplug, Transfer, Configure, BuildRefused,
     BuildStart, Construct, CheckAccess, ResolvePath, PushKnown, Setup,
     BuildThrows, NextUnit, TimerFires, Refresh, RefreshOne, TimerDone,
     CallStart, CallRaces, Call, CallRow, CallEnd, controller
<1>2. CASE PushNew
  <2>1. CASE Opens(unit)
    <3> DEFINE data == NewData(unit, disk[unit].blocksize)
    <3>1. unit \in Names /\ disk[unit].blocksize \in BlockSizes
      BY <2>1 DEF Opens, Present, IInv, TypeOK, DiskType
    <3>2. data \in DataType /\ data.name = unit
      BY <3>1, NewDataType DEF NewData
    <3>3. disks' = Append(disks, data) /\ unit \notin Watched /\ NextUnit
      BY <1>2, <2>1 DEF PushNew
    <3>4. Kind[unit] = "physical"
      BY <1>2 DEF PushNew, IInv, HandlerInv
    <3> HIDE DEF data
    <3>5. /\ Len(disks') = Len(disks) + 1
          /\ disks' \in Seq(DataType) /\ disks \in Seq(DataType)
          /\ \A i \in 1..Len(disks) : disks'[i] = disks[i]
          /\ disks'[Len(disks) + 1] = data
      BY <3>2, <3>3 DEF IInv, TypeOK
    <3>6. DOMAIN disks = 1..Len(disks) /\ DOMAIN disks' = 1..(Len(disks) + 1)
          /\ Len(disks) \in Nat
      BY <3>5, LenProperties
    <3>7. Watched' = Watched \union {unit} /\ disks' # disks
      BY <3>2, <3>5, <3>6 DEF Watched
    <3>. QED  BY <1>2, <3>1, <3>2, <3>3, <3>4, <3>7 DEF Grows
  <2>2. CASE ~Opens(unit)
    BY <1>2, <2>2 DEF PushNew, BuildThrows, controller
  <2>. QED  BY <2>1, <2>2
<1>. QED  BY <1>1, <1>2

\* What is in the vector stays where it is when it grows.
LEMMA AppendFacts ==
  ASSUME disks \in Seq(DataType), Grows
  PROVE  /\ Len(disks') = Len(disks) + 1
         /\ DOMAIN disks = 1..Len(disks) /\ Len(disks) \in Nat
         /\ DOMAIN disks' = 1..(Len(disks) + 1)
         /\ \A i \in 1..Len(disks) : disks'[i] = disks[i]
         /\ disks'[Len(disks) + 1].name \notin Watched
         /\ Kind[disks'[Len(disks) + 1].name] = "physical"
BY LenProperties DEF Grows

\* So the disks stay distinct and physical.
LEMMA DisksStep ==
  ASSUME IInv, Next
  PROVE  NoDuplicateDisks' /\ OnlyPhysicalDisks'
<1>1. CASE UNCHANGED disks
  BY <1>1 DEF IInv, NoDuplicateDisks, OnlyPhysicalDisks
<1>2. CASE Grows
  <2>1. disks \in Seq(DataType)
    BY DEF IInv, TypeOK
  <2> DEFINE n == Len(disks)
  <2>2. /\ n \in Nat /\ DOMAIN disks = 1..n /\ DOMAIN disks' = 1..(n + 1)
        /\ \A i \in 1..n : disks'[i] = disks[i]
        /\ disks'[n + 1].name \notin Watched
        /\ Kind[disks'[n + 1].name] = "physical"
    BY <1>2, <2>1, AppendFacts
  <2> HIDE DEF n
  <2>3. \A i \in 1..n : disks[i].name \in Watched
    BY <2>2 DEF Watched
  <2>4. NoDuplicateDisks /\ OnlyPhysicalDisks
    BY DEF IInv
  <2>5. \A i \in 1..(n + 1) : i \in 1..n \/ i = n + 1
    BY <2>2
  <2>6. NoDuplicateDisks'
    BY <2>2, <2>3, <2>4, <2>5 DEF NoDuplicateDisks
  <2>7. OnlyPhysicalDisks'
    BY <2>2, <2>4, <2>5 DEF OnlyPhysicalDisks
  <2>. QED  BY <2>6, <2>7
<1>. QED  BY <1>1, <1>2, VectorStep

-----------------------------------------------------------------------------
\* One handler at a time, on the device and the action it began with.
LEMMA HandlerStep ==
  ASSUME IInv, Next
  PROVE  HandlerInv'
<1> USE DEF IInv, HandlerInv, TypeOK, Building
<1>1. CASE UNCHANGED <<action, handler>>
  BY <1>1 DEF handler
<1>2. CASE Configure
  <2>1. ASSUME NEW a \in Actions, BuildRefused(a)
        PROVE  HandlerInv'
    BY <2>1, ControllerAssumption DEF BuildRefused, handler
  <2>2. ASSUME NEW a \in Actions, BuildStart(a)
        PROVE  HandlerInv'
    BY <2>2, ControllerAssumption DEF BuildStart
  <2>. QED  BY <1>2, <2>1, <2>2 DEF Configure
<1>3. CASE Construct
  <2>0. building \in Actions
    BY <1>3 DEF Construct, CheckAccess, ResolvePath, PushKnown, PushNew, Setup
  <2>1. ASSUME BuildThrows
        PROVE  HandlerInv'
    BY <2>0, <2>1, ControllerAssumption DEF BuildThrows
  <2>2. ASSUME NextUnit
        PROVE  HandlerInv'
    BY <2>0, <2>2, ControllerAssumption DEF NextUnit
  <2>3. ASSUME NEW n \in Names, CheckAccess(n)
        PROVE  HandlerInv'
    BY <2>0, <2>3, ControllerAssumption DEF CheckAccess
  <2>4. CASE ResolvePath
    BY <2>0, <2>1, <2>2, <2>4, ControllerAssumption DEF ResolvePath, Present
  <2>5. CASE PushKnown \/ PushNew
    BY <2>1, <2>2, <2>5 DEF PushKnown, PushNew
  <2>6. CASE Setup
    BY <2>0, <2>6, ControllerAssumption DEF Setup
  <2>. QED  BY <1>3, <2>3, <2>4, <2>5, <2>6 DEF Construct
<1>4. CASE TimerFires \/ Refresh
  BY <1>4 DEF TimerFires, Refresh, RefreshOne, TimerDone
<1>5. Kernel \/ (\E w \in Callers : CallStart(w) \/ CallRaces(w) \/ Call(w))
        => UNCHANGED <<action, handler>>
  BY DEF Kernel, Plug, Unplug, Transfer, Call, CallStart, CallRaces, CallRow,
         CallEnd
<1>. QED  BY <1>1, <1>2, <1>3, <1>4, <1>5 DEF Next

(***************************************************************************)
(* A scan loses sight of no steady disk: what leaves todo becomes the unit *)
(* looked at, and what ceases to be the unit is under watch, unsteady or   *)
(* not physical.                                                           *)
(***************************************************************************)
LEMMA ScanStep ==
  ASSUME IInv, Next
  PROVE  ScanInv'
<1> USE DEF IInv, ScanInv, Building
<1>0. Watched \subseteq Watched'
  BY VectorStep DEF Watched
<1>1. ASSUME NEW n \in Names, Plug(n) \/ Unplug(n)
      PROVE  ScanInv'
  <2>1. Present' \ {n} = Present \ {n} /\ (Plug(n) => n \notin Present)
        /\ (Plug(n) => n \in Present')
    <3>1. CASE Plug(n)
      <4>1. disk'[n] # NoDisk
        BY <3>1, PlugType, ControllerAssumption DEF DiskType
      <4>. QED  BY <3>1, <4>1, PlugType DEF Present, Plug, Unplug
    <3>2. CASE Unplug(n)
      BY <3>2 DEF Present, Plug, Unplug, TypeOK
    <3>. QED  BY <1>1, <3>1, <3>2
  <2>. QED  BY <1>0, <1>1, <2>1 DEF Plug, Unplug, handler
<1>2. ASSUME NEW n \in Names, NEW d \in Directions, Transfer(n, d)
      PROVE  ScanInv'
  <2>1. Present' = Present
    <3>1. disk'[n] # NoDisk
      BY <1>2, TransferType, ControllerAssumption DEF DiskType
    <3>. QED  BY <1>2, <3>1, TransferType DEF Transfer, Present
  <2>. QED  BY <1>0, <1>2, <2>1 DEF Transfer, handler
<1>3. CASE UNCHANGED <<disk, steady, pc, todo, unit>>
  BY <1>0, <1>3 DEF Present
<1>4. ASSUME NEW a \in Actions, BuildStart(a)
      PROVE  ScanInv'
  BY <1>0, <1>4 DEF BuildStart, Present
<1>5. ASSUME NEW n \in Names, CheckAccess(n)
      PROVE  ScanInv'
  BY <1>0, <1>5, ControllerAssumption
     DEF CheckAccess, Present, kernel, HandlerInv
<1>6. CASE ResolvePath
  BY <1>0, <1>6 DEF ResolvePath, NextUnit, BuildThrows, Present, kernel
<1>7. CASE PushKnown
  BY <1>0, <1>7 DEF PushKnown, NextUnit, Present, kernel
<1>8. CASE PushNew
  BY <1>0, <1>8, VectorStep
     DEF PushNew, NextUnit, BuildThrows, Present, kernel, controller
<1>9. Setup \/ TimerDone \/ TimerFires => pc' \notin {"scan", "realpath", "push"}
  BY DEF Setup, TimerDone, TimerFires
<1>10. \A a \in Actions : BuildRefused(a) => UNCHANGED <<disk, steady, pc, todo, unit>>
  BY DEF BuildRefused, kernel, handler
<1>11. RefreshOne \/ (\E w \in Callers : CallStart(w) \/ CallRaces(w) \/ Call(w))
        => UNCHANGED <<disk, steady, pc, todo, unit>>
  BY DEF RefreshOne, Call, CallStart, CallRaces, CallRow, CallEnd, kernel, handler
<1>. QED  BY <1>1, <1>2, <1>3, <1>4, <1>5, <1>6, <1>7, <1>8, <1>9, <1>10, <1>11
          DEF Next, Kernel, Configure, Construct, Refresh

(***************************************************************************)
(* setup() turns the shortest of the wishes so far, or none, into the      *)
(* shortest of them with the new action's.                                 *)
(***************************************************************************)
LEMMA NewIntervalIsShortest ==
  ASSUME NEW old \in Nat, NEW requested \in Nat, NEW wishes \in SUBSET Nat,
         0 \notin wishes, DefaultInterval \in wishes,
         \/ old = 0 /\ wishes = {DefaultInterval}
         \/ old \in wishes /\ \A p \in wishes : old <= p
  PROVE  LET all == wishes \union ({requested} \ {0})
             new == NewInterval(old, requested)
         IN  new \in all /\ \A p \in all : new <= p
BY DEF NewInterval, DefaultInterval

\* Every step leaves the timer at the shortest interval of the ready actions.
LEMMA TimerStep ==
  ASSUME IInv, Next
  PROVE  TimerServesActions'
<1> USE DEF IInv, TimerServesActions
<1>1. ASSUME UNCHANGED <<interval, enabled>>, Ready' = Ready
      PROVE  TimerServesActions'
  BY <1>1 DEF Wishes
<1>2. CASE UNCHANGED <<interval, enabled, action>>
  BY <1>1, <1>2 DEF Ready
<1>3. CASE Configure
  BY <1>1, <1>3
     DEF Configure, BuildRefused, BuildStart, controller, Ready, TypeOK
<1>4. CASE Setup
  <2>1. building \in Actions /\ action[building] = "building"
    BY <1>4 DEF Setup, HandlerInv, Building
  <2> DEFINE asked == TimerInterval[building]
  <2>2. asked \in Nat /\ interval \in Nat
    BY <2>1, ControllerAssumption DEF TypeOK
  <2>3. Ready' = Ready \union {building}
    BY <1>4, <2>1 DEF Setup, Ready, TypeOK
  <2>4. Wishes' = Wishes \union ({asked} \ {0})
    BY <2>3 DEF Wishes
  <2>5. Wishes \subseteq Nat /\ 0 \notin Wishes /\ DefaultInterval \in Wishes
    BY ControllerAssumption DEF Wishes, Ready, DefaultInterval
  <2>6. \/ interval = 0 /\ Wishes = {DefaultInterval}
        \/ interval \in Wishes /\ \A p \in Wishes : interval <= p
    BY DEF Wishes
  <2>7. interval' = NewInterval(interval, asked) /\ enabled'
    BY <1>4 DEF Setup
  <2>8. interval' \in Wishes' /\ \A p \in Wishes' : interval' <= p
    BY <2>2, <2>4, <2>5, <2>6, <2>7, NewIntervalIsShortest
  <2>. QED  BY <2>3, <2>7, <2>8
<1>5. ASSUME BuildThrows, building \in Actions, action[building] = "building",
             UNCHANGED disks
      PROVE  TimerServesActions'
  BY <1>1, <1>5 DEF BuildThrows, Ready, TypeOK, controller
<1>6. CASE Construct /\ ~Setup
  <2>1. building \in Actions /\ action[building] = "building"
    BY <1>6 DEF Construct, CheckAccess, ResolvePath, PushKnown, PushNew,
                HandlerInv, Building
  <2>. QED  BY <1>2, <1>5, <1>6, <2>1
            DEF Construct, CheckAccess, ResolvePath, PushKnown, PushNew,
                NextUnit, BuildThrows, controller
<1>7. TimerFires \/ Refresh \/ Kernel
      \/ (\E w \in Callers : CallStart(w) \/ CallRaces(w) \/ Call(w))
        => UNCHANGED <<interval, enabled, action>>
  BY DEF TimerFires, Refresh, RefreshOne, TimerDone, Kernel, Plug, Unplug,
         Transfer, Call, CallStart, CallRaces, CallRow, CallEnd, controller
<1>. QED  BY <1>2, <1>3, <1>4, <1>6, <1>7 DEF Next

\* What RowsInv says of one call.
RowsOf(c) ==
  /\ Len(c.copy) <= Len(disks)
  /\ \A i \in 1..Len(c.copy) : c.copy[i].name = disks[i].name
  /\ Len(c.rows) <= Len(c.copy)
  /\ \A i \in 1..Len(c.rows) : c.rows[i].device = c.copy[i].name
  /\ c.pc = "rows" => c.next = Len(c.rows) + 1 /\ c.rows # <<>>
  /\ c.pc = "done" => Len(c.rows) = Len(c.copy) /\ c.rows # <<>>

\* Every step of a call keeps its rows those of its copy.
LEMMA CallStep ==
  ASSUME IInv, NEW w \in Callers, CallStart(w) \/ CallRaces(w) \/ Call(w)
  PROVE  RowsOf(call'[w]) /\ UNCHANGED disks
         /\ \A v \in Callers \ {w} : call'[v] = call[v]
<1>0. UNCHANGED disks /\ \A v \in Callers \ {w} : call'[v] = call[v]
  BY DEF CallStart, CallRaces, Call, CallRow, CallEnd, controller, IInv, TypeOK
<1>1. disks \in Seq(DataType) /\ call[w] \in CallType /\ RowsOf(call[w])
  BY DEF IInv, TypeOK, RowsInv, RowsOf
<1>2. RowsOf([pc |-> "nodata", copy |-> <<>>, next |-> 1, rows |-> <<>>])
      /\ RowsOf([pc |-> "undefined", copy |-> <<>>, next |-> 1, rows |-> <<>>])
  BY <1>1, LenProperties DEF RowsOf
<1>3. CASE CallStart(w)
  <2>1. CASE disks = <<>>
    BY <1>0, <1>2, <1>3, <2>1 DEF CallStart, IInv, TypeOK
  <2>2. CASE disks # <<>>
    <3>1. Len(disks) \in Nat \ {0}
      BY <1>1, <2>2, EmptySeq
    <3> DEFINE first == Row(disks[1])
    <3>2. first.device = disks[1].name
      BY DEF Row
    <3> HIDE DEF first
    <3>3. RowsOf([pc |-> "rows", copy |-> disks, next |-> 2, rows |-> <<first>>])
      BY <3>1, <3>2 DEF RowsOf
    <3>. QED  BY <1>0, <1>3, <2>2, <3>3 DEF CallStart, IInv, TypeOK, first
  <2>. QED  BY <2>1, <2>2
<1>4. CASE CallRaces(w)
  BY <1>0, <1>2, <1>4 DEF CallRaces, IInv, TypeOK
<1>5. CASE CallRow(w)
  <2> DEFINE c == call[w]
             row == Row(c.copy[c.next])
  <2>1. c.pc = "rows" /\ c.next = Len(c.rows) + 1 /\ c.next <= Len(c.copy)
    BY <1>1, <1>5 DEF CallRow, RowsOf
  <2>2. row.device = c.copy[c.next].name
    BY DEF Row
  <2>3. /\ call'[w].pc = "rows" /\ call'[w].copy = c.copy
        /\ call'[w].next = c.next + 1 /\ call'[w].rows = Append(c.rows, row)
    BY <1>1, <1>5, <2>1 DEF CallRow, CallType, IInv, TypeOK
  <2> DEFINE Row0 == [device : Names, speed : Speeds]
  <2>4. c.rows \in Seq(Row0) /\ Len(c.rows) \in Nat /\ Len(c.copy) \in Nat
    BY <1>1, LenProperties DEF CallType
  <2>5. row \in Row0
    BY <1>1, <2>1, <2>4, ElementOfSeq, RowType DEF CallType
  <2> HIDE DEF row, Row0
  <2>6. /\ Len(Append(c.rows, row)) = Len(c.rows) + 1
        /\ \A i \in 1..Len(c.rows) : Append(c.rows, row)[i] = c.rows[i]
        /\ Append(c.rows, row)[Len(c.rows) + 1] = row
    BY <2>4, <2>5
  <2>7. Append(c.rows, row) # <<>>
    <3>1. Len(Append(c.rows, row)) # 0
      BY <2>4, <2>6
    <3>. QED  BY <3>1, EmptySeq
  <2> DEFINE rows == Append(c.rows, row)
  <2>8. \A i \in 1..Len(rows) : rows[i].device = c.copy[i].name
    BY <1>1, <2>1, <2>2, <2>4, <2>6 DEF RowsOf
  <2>9. Len(rows) <= Len(c.copy) /\ call'[w].next = Len(rows) + 1
    BY <2>1, <2>3, <2>4, <2>6
  <2> HIDE DEF rows, c
  <2>10. call'[w].rows = rows
    BY <2>3 DEF rows
  <2>. QED  BY <1>0, <1>1, <2>3, <2>7, <2>8, <2>9, <2>10 DEF RowsOf, rows, c
<1>6. CASE CallEnd(w)
  <2> DEFINE c == call[w]
  <2>1. /\ call'[w].pc = "done" /\ call'[w].copy = c.copy
        /\ call'[w].rows = c.rows
    BY <1>1, <1>6 DEF CallEnd, CallType, IInv, TypeOK
  <2>2. Len(c.rows) = Len(c.copy) /\ c.rows # <<>>
    BY <1>1, <1>6, LenProperties DEF CallEnd, CallType, RowsOf
  <2>. QED  BY <1>0, <1>1, <2>1, <2>2 DEF RowsOf
<1>. QED  BY <1>0, <1>3, <1>4, <1>5, <1>6 DEF Call

\* No other step disturbs the rows of a call.
LEMMA RowsStep ==
  ASSUME IInv, Next
  PROVE  RowsInv'
<1> SUFFICES ASSUME NEW v \in Callers
             PROVE  RowsOf(call[v])'
  BY DEF RowsInv, RowsOf
<1>1. RowsOf(call[v]) /\ disks \in Seq(DataType) /\ call[v] \in CallType
  BY DEF IInv, RowsInv, RowsOf, TypeOK
<1>2. CASE \E w \in Callers : CallStart(w) \/ CallRaces(w) \/ Call(w)
  <2>1. PICK w \in Callers : CallStart(w) \/ CallRaces(w) \/ Call(w)
    BY <1>2
  <2>2. CASE v = w
    BY <2>1, <2>2, CallStep DEF RowsOf
  <2>3. CASE v # w
    BY <1>1, <2>1, <2>3, CallStep DEF RowsOf
  <2>. QED  BY <2>2, <2>3
<1>3. CASE Kernel \/ Configure \/ Construct \/ TimerFires \/ Refresh
  <2>1. UNCHANGED call
    BY <1>3 DEF Kernel, Plug, Unplug, Transfer, Configure, BuildRefused,
       BuildStart, Construct, CheckAccess, ResolvePath, PushKnown, PushNew,
       Setup, BuildThrows, NextUnit, TimerFires, Refresh, RefreshOne, TimerDone
  <2>2. CASE UNCHANGED disks
    BY <1>1, <2>1, <2>2 DEF RowsOf
  <2>3. CASE Grows
    <3>1. Len(call[v].copy) \in Nat
      BY <1>1, LenProperties DEF CallType
    <3>. QED  BY <1>1, <2>1, <2>3, <3>1, AppendFacts DEF RowsOf
  <2>. QED  BY <2>2, <2>3, VectorStep
<1>. QED  BY <1>2, <1>3 DEF Next

-----------------------------------------------------------------------------
\* The whole invariant holds at first,
LEMMA InitInv == Init => IInv
<1> SUFFICES ASSUME Init  PROVE IInv
  OBVIOUS
<1>1. TypeOK
  BY TypeInit
<1>2. HandlerInv /\ ScanInv
  BY ControllerAssumption DEF Init, HandlerInv, ScanInv, Building
<1>3. RowsInv
  BY EmptySeq DEF Init, RowsInv
<1>4. NoDuplicateDisks /\ OnlyPhysicalDisks /\ TimerServesActions
  BY DEF Init, NoDuplicateDisks, OnlyPhysicalDisks, TimerServesActions, Ready
<1>. QED  BY <1>1, <1>2, <1>3, <1>4 DEF IInv

\* and every step keeps it.
LEMMA NextInv == IInv /\ [Next]_vars => IInv'
<1>1. IInv /\ Next => IInv'
  BY TypeStep, HandlerStep, ScanStep, RowsStep, DisksStep, TimerStep DEF IInv
<1>. QED  BY <1>1, Stutter

\* The inductive invariant holds in every state the controller reaches.
THEOREM Invariance == Spec => []IInv
BY InitInv, NextInv, PTL DEF Spec

\* Every variable keeps the type of the C++ object it stands for.
THEOREM TypeCorrect == Spec => []TypeOK
<1>1. IInv => TypeOK
  BY DEF IInv
<1>. QED  BY <1>1, Invariance, PTL

(***************************************************************************)
(* However many actions scan however many devices, no device is watched    *)
(* twice (push_back).                                                      *)
(***************************************************************************)
THEOREM DisksAreDistinct == Spec => []NoDuplicateDisks
<1>1. IInv => NoDuplicateDisks
  BY DEF IInv
<1>. QED  BY <1>1, Invariance, PTL

(***************************************************************************)
(* What is watched is physical, whatever the kernel does between the calls *)
(* of physical() and push_back().                                          *)
(***************************************************************************)
THEOREM DisksArePhysical == Spec => []OnlyPhysicalDisks
<1>1. IInv => OnlyPhysicalDisks
  BY DEF IInv
<1>. QED  BY <1>1, Invariance, PTL

\* A constructor that reaches setup() watches every steady physical disk.
THEOREM ScansAreComplete == Spec => []ScanIsComplete
<1>1. IInv => ScanIsComplete
  <2>1. ASSUME IInv, pc = "scan", todo = {},
               NEW n \in steady, Kind[n] = "physical"
        PROVE  n \in Watched
    <3>1. unit = None /\ n # None
      BY <2>1, ControllerAssumption DEF IInv, HandlerInv, TypeOK
    <3>. QED  BY <2>1, <3>1 DEF IInv, ScanInv, Building
  <2>. QED  BY <2>1 DEF ScanIsComplete
<1>. QED  BY <1>1, Invariance, PTL

\* The timer runs at the shortest interval the ready actions asked for.
THEOREM TimerIsShortest == Spec => []TimerServesActions
<1>1. IInv => TimerServesActions
  BY DEF IInv
<1>. QED  BY <1>1, Invariance, PTL

(***************************************************************************)
(* The rows of a report are the watched disks, from the first on, and all  *)
(* the copy held once the report is done.                                  *)
(***************************************************************************)
THEOREM ReportsAreFaithful == Spec => []ReportsWatchedDisks
<1>1. IInv => ReportsWatchedDisks
  <2>1. ASSUME IInv, NEW w \in Callers
        PROVE  LET c == call[w]
               IN  /\ Len(c.rows) <= Len(disks)
                   /\ \A i \in DOMAIN c.rows : c.rows[i].device = disks[i].name
                   /\ c.pc = "done" => Len(c.rows) = Len(c.copy) /\ c.rows # <<>>
    <3> DEFINE c == call[w]
    <3>1. c \in CallType /\ disks \in Seq(DataType) /\ RowsOf(c)
      BY <2>1 DEF IInv, TypeOK, RowsInv, RowsOf
    <3>2. /\ DOMAIN c.rows = 1..Len(c.rows) /\ Len(c.rows) \in Nat
          /\ Len(c.copy) \in Nat /\ Len(disks) \in Nat
      BY <3>1, LenProperties DEF CallType
    <3> HIDE DEF c
    <3>3. /\ Len(c.rows) <= Len(disks)
          /\ \A i \in DOMAIN c.rows : c.rows[i].device = disks[i].name
          /\ c.pc = "done" => Len(c.rows) = Len(c.copy) /\ c.rows # <<>>
      BY <3>1, <3>2 DEF RowsOf
    <3>. QED  BY <3>3 DEF c
  <2>. QED  BY <2>1 DEF ReportsWatchedDisks
<1>. QED  BY <1>1, Invariance, PTL

\* No step moves, renames or resizes a watched disk.
THEOREM WatchedDisksStay == Spec => EntriesStay
<1>1. IInv /\ [Next]_vars =>
        [\A i \in DOMAIN disks :
           /\ i \in DOMAIN disks'
           /\ disks'[i].name = disks[i].name
           /\ disks'[i].blocksize = disks[i].blocksize]_vars
  <2>1. ASSUME IInv, Next, NEW i \in DOMAIN disks
        PROVE  /\ i \in DOMAIN disks'
               /\ disks'[i].name = disks[i].name
               /\ disks'[i].blocksize = disks[i].blocksize
    <3>1. CASE UNCHANGED disks
      BY <2>1, <3>1
    <3>2. CASE Grows
      BY <2>1, <3>2, AppendFacts DEF IInv, TypeOK
    <3>. QED  BY <2>1, <3>1, <3>2, VectorStep
  <2>. QED  BY <2>1
<1>. QED  BY <1>1, Invariance, PTL DEF Spec, EntriesStay

(***************************************************************************)
(* The controller implements the abstract watch: inserting a disk is its   *)
(* Watch, setup() its Serve, and every other step changes nothing it sees. *)
(***************************************************************************)
THEOREM Refinement == Spec => ImplementsDiskWatch
<1> USE DEF Watch!Wishes
<1>1. Init => Watch!Init
  BY DEF Init, Watch!Init, Watched, Ready
<1>2. IInv /\ [Next]_vars => [Watch!Next]_Watch!vars
  <2> SUFFICES ASSUME IInv, [Next]_vars
               PROVE  [Watch!Next]_Watch!vars
    OBVIOUS
  <2>1. CASE UNCHANGED vars
    BY <2>1 DEF vars, Watch!vars, Watched, Ready
  <2>2. ASSUME UNCHANGED <<disks, interval>>, Ready' = Ready
        PROVE  [Watch!Next]_Watch!vars
    BY <2>2 DEF Watch!vars, Watched
  <2>3. CASE Next /\ Grows
    <3>1. PushNew /\ unit \in Names /\ NextUnit /\ Watched' = Watched \union {unit}
      BY <2>3, VectorStep, AppendFacts DEF IInv, TypeOK
    <3>2. Kind[unit] = "physical" /\ unit \notin Watched
      BY <3>1 DEF PushNew, IInv, HandlerInv
    <3>3. Ready' = Ready /\ UNCHANGED interval
      BY <3>1 DEF NextUnit, Ready
    <3>. QED  BY <3>1, <3>2, <3>3 DEF Watch!Next, Watch!Watch
  <2>4. CASE Setup
    <3>1. building \in Actions /\ action[building] = "building"
      BY <2>4 DEF Setup, IInv, HandlerInv, Building
    <3>2. Ready' = Ready \union {building} /\ building \notin Ready
      BY <2>4, <3>1 DEF Setup, Ready, IInv, TypeOK
    <3>3. TimerServesActions' /\ Ready' # {}
      BY <2>4, <3>2, TimerStep DEF Next, Construct
    <3>4. UNCHANGED Watched
      BY <2>4 DEF Setup, Watched
    <3>. QED  BY <3>1, <3>2, <3>3, <3>4
              DEF TimerServesActions, Wishes, Watch!Next, Watch!Serve
  <2>5. CASE Next /\ ~Grows /\ ~Setup
    <3>1. UNCHANGED disks
      BY <2>5, VectorStep
    <3>2. UNCHANGED interval
      BY <2>5 DEF Next, Kernel, Plug, Unplug, Transfer, Configure, BuildRefused,
         BuildStart, Construct, CheckAccess, ResolvePath, PushKnown, PushNew,
         BuildThrows, NextUnit, TimerFires, Refresh, RefreshOne, TimerDone,
         CallStart, CallRaces, Call, CallRow, CallEnd, controller
    <3>3. Ready' = Ready
      <4>1. CASE Configure
        BY <4>1 DEF Configure, BuildRefused, BuildStart, Ready, IInv, TypeOK
      <4>2. CASE BuildThrows /\ Construct
        <5>1. building \in Actions /\ action[building] = "building"
          BY <2>5, <4>2 DEF Construct, CheckAccess, ResolvePath, PushKnown,
                            PushNew, IInv, HandlerInv, Building
        <5>. QED  BY <4>2, <5>1 DEF BuildThrows, Ready, IInv, TypeOK
      <4>3. CASE UNCHANGED action
        BY <4>3 DEF Ready
      <4>. QED  BY <2>5, <4>1, <4>2, <4>3
                DEF Next, Kernel, Plug, Unplug, Transfer, Construct,
                    CheckAccess, ResolvePath, PushKnown, PushNew, NextUnit,
                    TimerFires, Refresh, RefreshOne, TimerDone, CallStart,
                    CallRaces, Call, CallRow, CallEnd
    <3>. QED  BY <2>2, <2>5, <3>1, <3>2, <3>3
  <2>. QED  BY <2>1, <2>3, <2>4, <2>5 DEF Next, Construct
<1>. QED  BY <1>1, <1>2, Invariance, PTL DEF Spec, ImplementsDiskWatch, Watch!Spec

=============================================================================
