-------------------------- MODULE StorageController --------------------------
(***************************************************************************)
(* The storage controller of the module: the one vector of watched disks,  *)
(* filled by the constructors of the storage actions, refreshed by a timer *)
(* of the main loop, reported by the calls of the actions, while disks are *)
(* plugged and unplugged underneath.                                       *)
(*                                                                         *)
(*   controller.cc   push_back, setup, on_timer                            *)
(*   action.cc       the constructor and call() of a storage action        *)
(*   diskstats.cc    what they ask the kernel: get, physical, blocksize    *)
(*                                                                         *)
(* One thread, the main loop, builds the actions and runs the timer, one   *)
(* handler at a time; every system call a handler makes is a step, since   *)
(* the kernel may change its answer in between.  Calls run on threads of   *)
(* their own (the web module of test.xml serves them).                     *)
(***************************************************************************)
EXTENDS DiskSpeed, Sequences

CONSTANTS
  Names,          \* the block device names of the machine
  Kind,           \* [Names -> {"physical", "virtual", "partition"}]
  BlockSizes,     \* the logical block sizes of disks
  Actions,        \* the storage action nodes of the configuration
  UnitIsValid,    \* [Actions -> BOOLEAN]: is the node's size-unit a known one
  TimerInterval,  \* [Actions -> Nat]: the node's timer-interval, 0 if absent
  Callers,        \* the threads that call an action
  MaxBlocks,      \* bound on the sectors a disk moves in each direction
  NoDisk, None    \* no disk under a name; no value

ASSUME ControllerAssumption ==
  /\ Kind \in [Names -> {"physical", "virtual", "partition"}]
  /\ BlockSizes \subseteq Nat \ {0}
  /\ UnitIsValid \in [Actions -> BOOLEAN]
  /\ TimerInterval \in [Actions -> Nat]
  /\ MaxBlocks \in Nat
  /\ NoDisk \notin [openable : BOOLEAN, blocksize : BlockSizes,
                    stat : [Directions -> [blocks : Nat, time : Nat]]]
  /\ None \notin Names \union Actions

VARIABLES
  disk,      \* the kernel: the disk under each name, or NoDisk
  disks,     \* the controller's vector of Data
  interval,  \* its timer: the interval in ms ...
  enabled,   \* ... and whether the main loop runs it
  action,    \* [Actions -> "declared" | "building" | "ready" | "failed"]
  pc,        \* the main loop: where its current handler is
  building,  \* the action under construction, or None
  todo,      \* the devices its constructor has yet to look at
  unit,      \* the device it is looking at, or None
  copy,      \* on_timer's copy of the vector
  next,      \* on_timer's position in the copy
  call,      \* [Callers -> [pc, copy, next, rows]]: the calls in progress
  steady     \* history: disks plugged in all along this construction

kernel == <<disk, steady>>
controller == <<disks, interval, enabled>>
handler == <<pc, building, todo, unit, copy, next>>
vars == <<disk, disks, interval, enabled, action, pc, building, todo, unit,
          copy, next, call, steady>>

-----------------------------------------------------------------------------
\* The block layer of the kernel.

ZeroStat == [d \in Directions |-> [blocks |-> 0, time |-> 0]]

Present == {n \in Names : disk[n] # NoDisk}

\* A disk appears; an optical drive without a medium cannot be opened.
Plug(n) ==
  /\ disk[n] = NoDisk
  /\ \E b \in BlockSizes, o \in BOOLEAN :
       disk' = [disk EXCEPT ![n] = [openable |-> o, blocksize |-> b,
                                    stat |-> ZeroStat]]
  /\ UNCHANGED <<controller, action, handler, call, steady>>

Unplug(n) ==
  /\ disk[n] # NoDisk
  /\ disk' = [disk EXCEPT ![n] = NoDisk]
  /\ steady' = steady \ {n}
  /\ UNCHANGED <<controller, action, handler, call>>

Transfer(n, d) ==
  /\ disk[n] # NoDisk
  /\ disk[n].stat[d].blocks < MaxBlocks
  /\ disk' = [disk EXCEPT ![n].stat[d] =
                [blocks |-> @.blocks + 1, time |-> (@.time + 1) % TimeModulus]]
  /\ UNCHANGED <<controller, action, handler, call, steady>>

-----------------------------------------------------------------------------
(***************************************************************************)
(* The constructor of a storage action.  Its unit is parsed first, then it *)
(* lists /proc/diskstats, once; the order of that list is the kernel's, so *)
(* "todo" is a set and any of its devices comes next.                      *)
(***************************************************************************)
Watched == {disks[i].name : i \in DOMAIN disks}

\* Either throws before the controller is touched: UnitFactory(), as it must
\* of an invalid unit, or Stat::get(), of any action, when parse() finds a line
\* with other than 15 numbers, which is up to the kernel.
BuildRefused(a) ==
  /\ pc = "idle" /\ action[a] = "declared"
  /\ action' = [action EXCEPT ![a] = "failed"]
  /\ UNCHANGED <<kernel, controller, handler, call>>

BuildStart(a) ==
  /\ pc = "idle" /\ action[a] = "declared" /\ UnitIsValid[a]
  /\ action' = [action EXCEPT ![a] = "building"]
  /\ pc' = "scan"
  /\ building' = a
  /\ todo' = Present
  /\ steady' = Present
  /\ UNCHANGED <<disk, controller, unit, copy, next, call>>

\* An exception leaves the constructor; what it has watched stays watched.
BuildThrows ==
  /\ action' = [action EXCEPT ![building] = "failed"]
  /\ pc' = "idle"
  /\ building' = None
  /\ todo' = {}
  /\ unit' = None
  /\ UNCHANGED <<kernel, controller, copy, next, call>>

\* Back to the loop over the listed devices.
NextUnit ==
  /\ pc' = "scan"
  /\ unit' = None
  /\ UNCHANGED <<kernel, action, building, todo, interval, enabled,
                 copy, next, call>>

\* physical(): access() finds /sys/block/<name> only while the disk is
\* there, and never for a partition.
CheckAccess(n) ==
  /\ pc = "scan" /\ n \in todo
  /\ todo' = todo \ {n}
  /\ IF n \in Present /\ Kind[n] # "partition"
     THEN pc' = "realpath" /\ unit' = n
     ELSE UNCHANGED <<pc, unit>>
  /\ UNCHANGED <<kernel, controller, action, building, copy, next, call>>

\* Mutant of ResolvePath: the path is not searched for "virtual".
ResolvePathOfAny ==
  /\ pc = "realpath"
  /\ \/ unit \notin Present /\ BuildThrows
     \/ unit \in Present /\ pc' = "push"
        /\ UNCHANGED <<kernel, controller, action, building, todo, unit,
                       copy, next, call>>

\* physical(): realpath() throws if the disk has gone since; otherwise the
\* path tells a virtual device from a physical one.
ResolvePath ==
  /\ pc = "realpath"
  /\ \/ unit \notin Present /\ BuildThrows
     \/ unit \in Present /\ Kind[unit] = "virtual"
        /\ NextUnit /\ UNCHANGED disks
     \/ unit \in Present /\ Kind[unit] # "virtual" /\ pc' = "push"
        /\ UNCHANGED <<kernel, controller, action, building, todo, unit,
                       copy, next, call>>

\* Mutant of PushKnown: a known device ends the loop of the constructor.
PushKnownBreaks ==
  /\ pc = "push" /\ unit \in Watched
  /\ pc' = "scan" /\ unit' = None /\ todo' = {}
  /\ UNCHANGED <<kernel, controller, action, building, copy, next, call>>

\* push_back() of a device that is already watched.
PushKnown ==
  /\ pc = "push" /\ unit \in Watched
  /\ NextUnit /\ UNCHANGED disks

\* blocksize(): /dev/<name> opens, and tells.
Opens(n) == n \in Present /\ disk[n].openable

\* Mutant of PushNew: the vector is not searched for the device.
PushNewUnchecked ==
  /\ pc = "push"
  /\ IF Opens(unit)
     THEN /\ disks' = Append(disks, NewData(unit, disk[unit].blocksize))
          /\ NextUnit
     ELSE BuildThrows

\* Mutant of PushNew: the device is inserted at the front.
PushNewInFront ==
  /\ pc = "push" /\ unit \notin Watched
  /\ IF Opens(unit)
     THEN /\ disks' = <<NewData(unit, disk[unit].blocksize)>> \o disks
          /\ NextUnit
     ELSE BuildThrows

\* Mutant of PushNew: a device that cannot be opened is tried again.
PushNewRetries ==
  /\ pc = "push" /\ unit \notin Watched
  /\ IF Opens(unit)
     THEN /\ disks' = Append(disks, NewData(unit, disk[unit].blocksize))
          /\ NextUnit
     ELSE /\ pc' = "scan" /\ unit' = None /\ todo' = todo \union {unit}
          /\ UNCHANGED <<kernel, controller, action, building, copy, next,
                         call>>

\* push_back() of a new one: the Data constructor opens /dev/<name> for the
\* block size, and throws before the vector changes.
PushNew ==
  /\ pc = "push" /\ unit \notin Watched
  /\ IF Opens(unit)
     THEN /\ disks' = Append(disks, NewData(unit, disk[unit].blocksize))
          /\ NextUnit
     ELSE BuildThrows

\* Controller::setup(), last statement of the constructor.
DefaultInterval == 60000

\* Mutant of NewInterval: an interval of zero is taken from the node.
NewIntervalOrZero(old, requested) ==
  LET saved == IF old = 0 THEN DefaultInterval ELSE old
  IN  IF saved < requested THEN saved ELSE requested

\* Mutant of NewInterval: the comparison is the wrong way round.
NewIntervalLongest(old, requested) ==
  LET saved == IF old = 0 THEN DefaultInterval ELSE old
  IN  IF saved > requested \/ requested = 0 THEN saved ELSE requested

NewInterval(old, requested) ==
  LET saved == IF old = 0 THEN DefaultInterval ELSE old
  IN  IF saved < requested \/ requested = 0 THEN saved ELSE requested

Setup ==
  /\ pc = "scan" /\ todo = {}
  /\ interval' = NewInterval(interval, TimerInterval[building])
  /\ enabled' = TRUE
  /\ action' = [action EXCEPT ![building] = "ready"]
  /\ pc' = "idle"
  /\ building' = None
  /\ UNCHANGED <<kernel, disks, todo, unit, copy, next, call>>

-----------------------------------------------------------------------------
(***************************************************************************)
(* on_timer(): the loop runs over "(std::vector<Data>) *this", a copy, and *)
(* its results are the copy's.                                             *)
(***************************************************************************)
TimerFires ==
  /\ pc = "idle" /\ enabled
  /\ pc' = "refresh"
  /\ copy' = disks
  /\ next' = 1
  /\ UNCHANGED <<kernel, controller, action, building, todo, unit, call>>

\* Mutant of RefreshOne: the first error leaves the handler.
RefreshOneOrLeave ==
  /\ pc = "refresh" /\ next <= Len(copy)
  /\ LET data == copy[next]
     IN  IF data.name \in Present
         THEN /\ copy' = [copy EXCEPT ![next] =
                            [Refreshed(data, disk[data.name].stat)
                               EXCEPT !.error = FALSE]]
              /\ next' = next + 1
              /\ UNCHANGED pc
         ELSE copy' = <<>> /\ next' = 1 /\ pc' = "idle"
  /\ UNCHANGED <<kernel, controller, action, building, todo, unit, call>>

\* The error of a disk that cannot be loaded is kept, and the loop goes on.
RefreshOne ==
  /\ pc = "refresh" /\ next <= Len(copy)
  /\ LET data == copy[next]
     IN  copy' = [copy EXCEPT ![next] =
                    IF data.name \in Present
                    THEN [Refreshed(data, disk[data.name].stat)
                            EXCEPT !.error = FALSE]
                    ELSE [data EXCEPT !.error = TRUE]]
  /\ next' = next + 1
  /\ UNCHANGED <<kernel, controller, action, pc, building, todo, unit, call>>

TimerDone ==
  /\ pc = "refresh" /\ next > Len(copy)
  /\ pc' = "idle"
  /\ copy' = <<>>
  /\ next' = 1
  /\ UNCHANGED <<kernel, controller, action, building, todo, unit, call>>

-----------------------------------------------------------------------------
(***************************************************************************)
(* call() of a ready action: copies the controller, fails with ENODATA if  *)
(* it watches nothing, and otherwise writes a row for each disk.  Nothing  *)
(* locks the vector: a copy taken while push_back() may be growing it is   *)
(* undefined, and the model promises nothing of that call any more.        *)
(***************************************************************************)
Row(data) == [device |-> data.name, speed |-> data.speed]

CallStart(w) ==
  /\ call[w].pc \in {"idle", "done", "nodata"}
  /\ \E a \in Actions : action[a] = "ready"
  /\ call' = [call EXCEPT ![w] =
                IF disks = <<>>
                THEN [pc |-> "nodata", copy |-> <<>>, next |-> 1, rows |-> <<>>]
                ELSE [pc |-> "rows", copy |-> disks, next |-> 2,
                      rows |-> <<Row(disks[1])>>]]
  /\ UNCHANGED <<kernel, controller, action, handler>>

CallRaces(w) ==
  /\ call[w].pc \in {"idle", "done", "nodata"}
  /\ \E a \in Actions : action[a] = "ready"
  /\ pc = "push" /\ unit \notin Watched
  /\ call' = [call EXCEPT ![w] =
                [pc |-> "undefined", copy |-> <<>>, next |-> 1, rows |-> <<>>]]
  /\ UNCHANGED <<kernel, controller, action, handler>>

\* Mutant of CallRow: the row is the whole Data.
CallRowOfData(w) ==
  /\ call[w].pc = "rows" /\ call[w].next <= Len(call[w].copy)
  /\ call' = [call EXCEPT ![w].rows = Append(@, call[w].copy[call[w].next]),
                          ![w].next = @ + 1]
  /\ UNCHANGED <<kernel, controller, action, handler>>

CallRow(w) ==
  /\ call[w].pc = "rows" /\ call[w].next <= Len(call[w].copy)
  /\ call' = [call EXCEPT
                ![w].rows = Append(@, Row(call[w].copy[call[w].next])),
                ![w].next = @ + 1]
  /\ UNCHANGED <<kernel, controller, action, handler>>

\* Mutant of CallEnd: the last row is not written.
CallEndEarly(w) ==
  /\ call[w].pc = "rows" /\ call[w].next >= Len(call[w].copy)
  /\ call' = [call EXCEPT ![w].pc = "done"]
  /\ UNCHANGED <<kernel, controller, action, handler>>

\* Mutant of CallEnd: the end is the one of the live vector.
CallEndOfLive(w) ==
  /\ call[w].pc = "rows" /\ call[w].next > Len(disks)
  /\ call' = [call EXCEPT ![w].pc = "done"]
  /\ UNCHANGED <<kernel, controller, action, handler>>

CallEnd(w) ==
  /\ call[w].pc = "rows" /\ call[w].next > Len(call[w].copy)
  /\ call' = [call EXCEPT ![w].pc = "done"]
  /\ UNCHANGED <<kernel, controller, action, handler>>

-----------------------------------------------------------------------------
Init ==
  /\ disk \in [Names -> {NoDisk} \union
                 [openable : BOOLEAN, blocksize : BlockSizes, stat : {ZeroStat}]]
  /\ disks = <<>> /\ interval = 0 /\ enabled = FALSE
  /\ action = [a \in Actions |-> "declared"]
  /\ pc = "idle" /\ building = None /\ todo = {} /\ unit = None
  /\ copy = <<>> /\ next = 1
  /\ call = [w \in Callers |->
               [pc |-> "idle", copy |-> <<>>, next |-> 1, rows |-> <<>>]]
  /\ steady = {}

Kernel == \E n \in Names : \/ Plug(n)
                           \/ Unplug(n)
                           \/ \E d \in Directions : Transfer(n, d)

\* The statements of a constructor or of on_timer once it has begun.
Construct == \/ \E n \in Names : CheckAccess(n)
             \/ ResolvePath
             \/ PushKnown
             \/ PushNew
             \/ Setup

Refresh == RefreshOne \/ TimerDone

Configure == \E a \in Actions : BuildRefused(a) \/ BuildStart(a)

Call(w) == CallRow(w) \/ CallEnd(w)

Next == \/ Kernel
        \/ Configure
        \/ Construct
        \/ TimerFires
        \/ Refresh
        \/ \E w \in Callers : CallStart(w) \/ CallRaces(w) \/ Call(w)

(***************************************************************************)
(* A handler that has begun runs on; the main loop keeps firing an enabled *)
(* timer and a caller's thread is scheduled.  Nothing is assumed of the    *)
(* kernel's events, of the configuration, or of the requests.              *)
(***************************************************************************)
Fairness == /\ WF_vars(Construct)
            /\ WF_vars(TimerFires)
            /\ WF_vars(Refresh)
            /\ \A w \in Callers : WF_vars(Call(w))

Spec == Init /\ [][Next]_vars

FairSpec == Spec /\ Fairness

-----------------------------------------------------------------------------

Speeds == [Directions -> [bytes : Nat, ms : Nat]]

DataType == [name : Names, blocksize : BlockSizes, speed : Speeds,
             saved : [Directions -> [bytes : Nat, time : Nat]], error : BOOLEAN]

CallType == [pc : {"idle", "rows", "done", "nodata", "undefined"},
             copy : Seq(DataType), next : Nat \ {0},
             rows : Seq([device : Names, speed : Speeds])]

DiskType == [openable : BOOLEAN, blocksize : BlockSizes,
             stat : [Directions -> [blocks : Nat, time : Nat]]]

TypeOK ==
  /\ disk \in [Names -> DiskType \union {NoDisk}]
  /\ disks \in Seq(DataType) /\ copy \in Seq(DataType)
  /\ interval \in Nat /\ enabled \in BOOLEAN /\ next \in Nat \ {0}
  /\ action \in [Actions -> {"declared", "building", "ready", "failed"}]
  /\ pc \in {"idle", "scan", "realpath", "push", "refresh"}
  /\ building \in Actions \union {None} /\ unit \in Names \union {None}
  /\ todo \subseteq Names /\ steady \subseteq Names
  /\ call \in [Callers -> CallType]

(***************************************************************************)
(* However many actions scan the disks, and whatever is plugged and        *)
(* unplugged meanwhile, no device is watched twice (push_back,             *)
(* controller.cc:41-54).                                                   *)
(***************************************************************************)
NoDuplicateDisks ==
  \A i, j \in DOMAIN disks : disks[i].name = disks[j].name => i = j

(***************************************************************************)
(* Only physical disks are watched, although the kernel may take a device  *)
(* away, and give it back, between the checks of physical() and the        *)
(* insertion (action.cc:46-50, diskstats.cc:216-234).                      *)
(***************************************************************************)
OnlyPhysicalDisks ==
  \A i \in DOMAIN disks : Kind[disks[i].name] = "physical"

(***************************************************************************)
(* A constructor that reaches setup() has missed nothing: each physical    *)
(* disk plugged in all along is watched by then, whether it inserted the   *)
(* disk or found it there, and however other disks came and went           *)
(* (action.cc:46-52).                                                      *)
(***************************************************************************)
ScanIsComplete ==
  pc = "scan" /\ todo = {} =>
    \A n \in steady : Kind[n] = "physical" => n \in Watched

(***************************************************************************)
(* The one timer serves every action constructed: it is armed as soon as   *)
(* there is one, at the shortest interval any of them asked for, and at    *)
(* 60 seconds at most; a constructor that throws leaves it alone           *)
(* (Controller::setup, controller.cc:56-82).                               *)
(***************************************************************************)
Ready == {a \in Actions : action[a] = "ready"}

Wishes == {DefaultInterval} \union ({TimerInterval[a] : a \in Ready} \ {0})

TimerServesActions ==
  IF Ready = {} THEN ~enabled /\ interval = 0
  ELSE enabled /\ interval \in Wishes /\ \A p \in Wishes : interval <= p

(***************************************************************************)
(* A report, written while constructors and the timer go on, lists the     *)
(* watched disks from the first on, in their order; when it ends it holds  *)
(* every disk there was when the call began, and at least one              *)
(* (Action::call, action.cc:63-95).                                        *)
(***************************************************************************)
ReportsWatchedDisks ==
  \A w \in Callers :
    LET c == call[w]
    IN  /\ Len(c.rows) <= Len(disks)
        /\ \A i \in DOMAIN c.rows : c.rows[i].device = disks[i].name
        /\ c.pc = "done" => Len(c.rows) = Len(c.copy) /\ c.rows # <<>>

(***************************************************************************)
(* A watched disk keeps its place, its name and its block size for good:   *)
(* what a report has shown as its n-th row stays the n-th (emplace_back,   *)
(* controller.cc:50).                                                      *)
(***************************************************************************)
EntriesStay ==
  [][\A i \in DOMAIN disks :
       /\ i \in DOMAIN disks'
       /\ disks'[i].name = disks[i].name
       /\ disks'[i].blocksize = disks[i].blocksize]_vars

\* The controller implements the abstract watch (controller.cc, action.cc).
Watch == INSTANCE DiskWatch WITH
           Disks <- {n \in Names : Kind[n] = "physical"},
           LongestInterval <- DefaultInterval,
           watched <- Watched, served <- Ready, period <- interval

ImplementsDiskWatch == Watch!Spec

(***************************************************************************)
(* A constructor that has begun ends, and so does a call, whatever the     *)
(* kernel does to the disks (action.cc:43-54, 63-95).                      *)
(***************************************************************************)
ConstructorEnds ==
  \A a \in Actions :
    action[a] = "building" ~> action[a] \in {"ready", "failed"}

CallEnds == \A w \in Callers : call[w].pc = "rows" ~> call[w].pc = "done"

(***************************************************************************)
(* Once an action is ready, a watched disk that stays plugged in is        *)
(* sampled again and again, even if another watched disk is gone for good  *)
(* (the inner try of on_timer, controller.cc:92-105).                      *)
(***************************************************************************)
Sampled(n) == \E i \in 1..(next - 1) : copy[i].name = n /\ ~copy[i].error

DisksAreSampled ==
  \A n \in Names :
    <>[](enabled /\ n \in Watched /\ n \in Present) => []<>Sampled(n)

(***************************************************************************)
(* "Update disk speed." (storagecontroller.h, on_timer): when the timer    *)
(* handler ends, the vector the calls report holds the sample it took of   *)
(* each disk it could load.                                                *)
(***************************************************************************)
TimerUpdatesDisks ==
  [][TimerDone =>
       \A i \in DOMAIN copy : ~copy[i].error => disks'[i] = copy[i]]_vars

=============================================================================
