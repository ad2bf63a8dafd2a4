# libudjatsysinfo in TLA+

TLA+ modules, TLC models and TLAPS proofs about `libudjatsysinfo`, the library
and udjat module that report disk speeds, load average, memory and swap usage
of a machine. Paths below are relative to the root of the repository.

## 1. The system

The module registers six factories with the udjat framework (which is not part
of the repository). The framework reads an XML configuration, lets the
factories build *agents* and *actions* from its nodes, runs timers on a main
loop, and serves calls of the actions (`test.xml` puts the `storage` action
behind a web interface).

| component | source | state | operations |
|---|---|---|---|
| storage controller | `src/library/storage/controller.cc`, `src/include/private/storagecontroller.h` | one process-wide vector of `Data`, one `MainLoop::Timer` | `push_back`, `setup`, `on_timer`, iteration |
| disk speed (`Storage::Data`) | `src/library/storage/data.cc` | block size, read and write speed, last sample, error | constructor, `refresh` |
| storage action | `src/library/storage/action.cc` | its unit | constructor, `call` |
| disk statistics (`Storage::Stat`) | `src/library/os/linux/diskstats.cc` | counters of one disk | `get`, `load`, `physical`, `blocksize`, `Stat(name)`, `+=` |
| units, device names | `storage/unit.cc`, `os/linux/namefactories.cc` | none | parsing, scaling |
| load average agent | `src/library/loadavg.cc` | cores, which average, value, state | `setup`, `start`, `refresh`, `computeState` |
| memory and swap agents | `os/linux/memoryusage.cc`, `swapusage.cc` | value, state | `start`, `refresh`, `computeState` |
| CPU statistics, `System::Info` | `os/linux/sysstats.cc`, `os/linux/sysinfo.cc` | one sample | constructors, field lookup, sums, differences |
| up time, system time | `uptime.cc`, `systime.cc` | none | read the clock |

How they interact:

* The constructor of each storage action lists `/proc/diskstats`, asks the
  kernel whether each device is physical, pushes the physical ones into the
  controller's vector (which opens `/dev/<name>` for the block size), and then
  calls `setup`, which merges the action's `timer-interval` into that of the
  one timer. Each of these is a system call, and disks come and go between them.
* The timer's handler refreshes every `Data`: it loads the counters of the disk
  from `/sys/block/<name>/stat` and turns two samples into a speed.
* `call` copies the controller and writes one row per disk, on a thread of the
  caller's; nothing in the library takes a lock.
* The agents read the kernel and hand a value between 0 and 1 to the framework,
  which asks them for the state of that value.

Hard to get right, and to test: the gaps between the system calls of a
constructor; a constructor that throws half way; several actions that share a
timer; a report written while the vector grows; disks that vanish, return, or
are replaced under the same name; 32-bit counters that wrap and floats that
lose bits; and, in the agents, the boundary values. `PROJECT.json` lists each
of these as a hazard at the line where it bites, with the property that would
catch it.

What makes the components correct:

* controller and action: no disk watched twice, only physical ones, none
  missed; the timer serves every action; reports show the watched disks in a
  stable order; every handler ends; one bad disk does not stop the others; what
  the timer measures is what the reports show;
* speed: the bytes moved between two samples over the time spent on them,
  across wraps, failures and swapped disks, and a bounded error beyond the
  float's precision;
* statistics: what is parsed is what the kernel counted; sums count each disk
  once;
* agents: the value is the one configured, on the scale documented, and the
  state grows with the value up to and including the maximum;
* CPU statistics: the difference of two samples is what went by between them,
  across wraps, and the tables that go by the same positions agree.

## 2. What is modelled

| module | models | how |
|---|---|---|
| `DiskSpeed` | the arithmetic of `Data` | operators; floats and counters are integers with explicit rounding and wrap |
| `StorageUnit` | the float a speed is kept in, and the units of a report | operators: the nearest float of a quotient, the table, from the attribute to an index, from a speed to the number and the name in a row |
| `SpeedCycle` | one `Data`, the disk it names and the row it is shown in | one action per event: transfer, unplug, plug, refresh |
| `SpeedMeter` | what the speed is meant to be | abstract specification, implemented by `SpeedCycle` |
| `StorageController` | controller, action and the kernel around them | see below |
| `DiskWatch` | what the controller promises its actions | abstract specification, implemented by `StorageController` |
| `DiskStats` | `Storage::Stat`, the names it takes and the kernel's two files of counters | lines of text as sequences of fields; `get`, `Stat("")` line by line, `Stat(path)` through `NameFactory`, `load`, beside a kernel that counts |
| `UsageAgent` | one agent of the load, the memory or the swap, and its kernel | constructor, `start`, `refresh`, `computeState`; values are fractions |
| `SystemStat` | `System::Stat`: its tables, its reading of `/proc/stat`, sums and differences | operators on functions from members to words |
| `SystemInfo` | `System::Info` and the agent of the up time | operators on the kernel's `struct sysinfo` |
| `SystemSampler` | a kernel that counts ticks, and a caller that samples it | `Sample`, `GetInfo`, `GetUpTime` beside the kernel's actions |
| `MCStorageController`, `MCDiskStats`, `MCUsageAgent`, `MCSystemSampler` | instances for TLC | names, actions, intervals; devices; configured states; what `sysinfo` gives |
| `Sums` | the sum of a function over a finite set | the fold of the community modules, shared by `DiskStats` and `SystemStat` |
| `StorageControllerProofs`, `SpeedCycleProofs`, `DiskStatsProofs`, `UsageAgentProofs`, `SystemSamplerProofs` | theorems about each model | TLAPS |
| `Remainders`, `SumProofs`, `DiskSpeedProofs` | the lemmas they share: remainders, sums, floats and powers of two | TLAPS |

`StorageController` is the core. Its variables are the kernel's disks (`disk`),
the vector (`disks`), the timer (`interval`, `enabled`), the life of each
action (`action`), the handler the main loop is in and its locals (`pc`,
`building`, `todo`, `unit`, `copy`, `next`), the calls in progress (`call`), and
a history variable (`steady`, the disks plugged in since the current
constructor began). The correspondence with the code:

| action | code |
|---|---|
| `BuildRefused` | `UnitFactory` throws, or `Stat::get` does, of a line with other than 15 numbers |
| `BuildStart` | the constructor lists `/proc/diskstats` |
| `CheckAccess`, `ResolvePath` | the two system calls of `physical()`; the second throws if the device has gone |
| `PushKnown`, `PushNew` | `push_back`: found, or inserted after opening the device; `Opens` is the open in `blocksize()`, and if it fails it throws before the vector changes |
| `Setup` | `setup`; `NewInterval` is its choice of interval |
| `TimerFires`, `RefreshOne`, `TimerDone` | `on_timer`: the copy, one iteration with its inner `try`, the end |
| `CallStart`, `CallRow`, `CallEnd` | `call`: the copy and first row (or `ENODATA`), a further row, the return |
| `CallRaces` | a copy taken while `emplace_back` may be moving the vector: undefined, nothing is promised of that call |
| `Plug`, `Unplug`, `Transfer` | the kernel, external; a disk appears with a block size, openable or not |

`DiskStats` reads a file the way the code does: `NextField` is `next()`, `Scan`
the `sscanf` of both readers, `Parse` and `LoadResult` what they make of a line
of `/proc/diskstats` (`ProcLine`) and of `/sys/block/<name>/stat` (`SysLine`).
`Open`, `ReadLine`, `ReadEnd` and `ReadFails` are the loop over the lines, with
the list of `get()` or the sum of `Stat("")`; `Stat(path)` is the constructor
from a name, which `NameFactory` takes from the path of a device; `Complete` is the kernel completing a request on a device, and on the disk it is a part of.
`HasFile` is what `load` finds under `/sys/block`: the file of a disk, or below it
that of a partition, if the name has both. `Padding` stands for 10,000,000, the
count that fills the eight columns.

In `UsageAgent` a behaviour is the life of one agent: `SetupLoad` or
`Construct`, `Start`, `Refresh` with the external `Set` (the framework takes the
value and asks for its state, `ComputeState`); `Kernel` is everything that moves
behind it, the loss of `/proc` included.

`SystemSampler` keeps two samples (`now`, `last`) with the lines of `/proc/stat`
they were made of, as the agent that `sysstat.cc` keeps in a comment would: that
caller is external, the constructor, the sums and `operator-=` it uses are the
library's (`SystemStat`). Its kernel, external too, counts a tick of a guest also
as one of the host (`Tick`), may take ticks of iowait back (`IowaitFalls`, what
proc(5) says and the source's comment refers to), and may lose `/proc`.

Abstractions, all of them on the data:

* A disk's request counts, merges, discards and in-flight fields are left out:
  only sectors and milliseconds reach a speed. The controller and the speed take
  `load()` to return what the kernel counts, so a disk is one with fewer than
  10,000,000 reads; beyond, `DiskStats` shows what `load()` reads.
* A speed is kept as the pair the code divides, bytes and milliseconds, and
  becomes the float of the quotient, in bytes per second, where a row reads it
  (`SpeedFloat`): nothing else does. The double in which the code divides by 1000
  and by the time is exact in the model; the bound of `RowsTellTheSpeed` is twice
  the one proved of the float alone, which leaves a hundred million times the room
  that double needs. In `SpeedCycle` a row has its number of hundredths and the
  name of its unit, with 4 in place of 1024 and of the 1000 ms of a second so that
  small speeds meet every unit; in `StorageController` a row is the name of its
  disk.
* The direction is a constant, `Directions`: the code does the same for both.
* Names are the kernel's plain ones. No two differ in case only, so
  `strcasecmp` is equality. A path of a device is the sequence of its parts
  between slashes; other texts are model values.
* `File::Path::realpath()` of the framework throws when realpath(3) fails.
* In `DiskStats` a line is read at one moment, devices stay, 64-bit counters do
  not wrap, majors and minors fit their members; requests in flight are 0.
* In `UsageAgent` fractions are exact: of the floats only the one that is not a
  number is kept. A read that fails (`getloadavg`, `sysinfo`, a file of `/proc`,
  for which the framework's classes throw) is no step, for the code sets nothing
  before it. Labels and texts are left out.
* In `SystemStat` the line of `/proc/stat` is the sequence of its numbers.
  Labels are kept for their places in the table, their translation and the
  summaries are left out.
* Opening `/proc/diskstats` or running out of descriptors or memory is assumed
  not to fail.
* The main loop is one thread: constructors and the timer handler exclude each
  other. Calls run beside them.
* `MainLoop::Timer` is external: `Timer::set(node)` takes the node's interval,
  or leaves the timer's alone if there is none; with either reading `setup`
  gives the same result. `call` also copies the timer base of the controller;
  what the framework does on the destruction of such a copy is not in this
  repository and not modelled.

## 3. What is checked

Every property but the deliberate violations holds; each is also shown to be
sensitive, by a plausible bug (an operator marked *Mutant of ...* in the
module) under which the same run finds it violated.

| run | question | bounds |
|---|---|---|
| `controller_watch` | do interleaved scans and hot-plugging leave the vector and the timer right, and implement `DiskWatch`? | two physical disks, a loop device and a partition; actions asking for 90 s, 1 s and nothing |
| `controller_live` | are reports right while the vector grows, does everything that begins end, and is every disk sampled? | two disks, two good actions and one with a bad unit, one caller, one transfer per disk |
| `speed_exact` | is the speed the true one, implementing `SpeedMeter`, and does the row tell it? | both directions, counters of 2 bits that wrap, 5 ms, 2 sectors, floats of 6 significant bits |
| `speed_rounded` | how wrong can rounding be? | floats of 3 significant bits, totals to 48 bytes, six times what they can hold exactly |
| `disk_stats` | does a list, a sum or a `Stat` of a path have the counters it should, or fail, and is every disk found by its path? | three requests on a SCSI disk and an NVMe disk with a partition; eight paths, of each of them and of none; kernels that print 11 or 15 counters; a first column of one digit that is full from 2 on; times of 2 bits |
| `usage_agent` | does the value stay a share and follow the kernel, and the state follow the value? | loads of 0, 50, 80, 95 and 250 on 0, 1 or 2 processors, shares in twentieths; the memory has two configured states that overlap, load and swap the default ones; five values of the attribute, of which one is refused and one narrowed to an allowed one |
| `system_sampler` | is a difference of samples what the columns went on by, do the tables agree, do an `Info`'s sizes become bytes uncut? | three ticks of four members, words of 3 bits, idle beginning at 0 or near the wrap, lines of 8 or 10 numbers, more memory than a word counts |
| `speed_native_4k` | *violated*: sectors are multiplied by the block size | block of 8 sectors |
| `timer_updates` | *violated*: the timer's results reach the reports | one disk |
| `load_shift` | *violated*: `load()` reads each counter for itself | kernels that print 17 counters |
| `load_documented` | *violated*: the average shown is the one configured, and full at one per processor | an agent of 5 minutes, loads of 0, 1 and 50 |
| `sum_all_disks` | *violated*: a `Stat` of no name is that of all the disks | as `disk_stats` |

Why the bounds are enough. Two physical disks are what a duplicate, an order,
a failure of one beside the other and a vector that grows under a call need; a
third device stands for all that must be refused. Three actions cover the two
ways `setup` keeps an interval and the one it changes it, in every order. A
modulus of 4 with 5 milliseconds wraps within one cycle, and 5/4 of a unit in
the last place is attained in `speed_rounded` (the same formula with one unit
fails), so totals there do reach the rounding cases; so do the speeds of
`speed_exact`, where 16/3 and 16/5 are no floats and the bound of a row without the
last place of the float fails. Three
requests fill the column, wrap the times, and fall before, between and after the
lines of a file; a fourth brings no new order. The loads, on one
processor, give the value at each limit of the default states, 0.5, 0.8, 0.95 and 1,
and with two or the twentieths of swap both sides of it; the default states of the
memory, a table of the same form, are behind configured ones in this run, and are
covered by the theorem. Three ticks after an idle
of 6 wrap the total of a sample in 3 bits, and make a number that does not fit;
an iowait taken back makes the difference of a member wrap; three also leave
ticks on both sides of a sample. `MaxBlocks`, `MaxMs`, `MaxCycle`, `MaxIo` and
`MaxTicks` bound the kernel's counters, nothing else is bounded. The deadlock check is on.

Fairness, in `controller_live`: weak fairness of the steps of a
constructor, of the timer's firing, of its handler and of each call, because
each is straight-line code on a thread that is scheduled and the main loop fires
an enabled timer. None is assumed of the kernel's events, of the configuration
or of requests. In `usage_agent`: weak fairness of
the constructor, of `start` and of `refresh`, which the framework calls for ever;
that the kernel can be read is not assumed, so `ValueFollows` speaks of a kernel
that has settled and can be.

The five violations are disagreements between the code and its own words:

1. `on_timer` (controller.cc:88) iterates over a copy of the vector. Reports
   show zero for every disk for ever; "Update disk speed" does not happen. This
   is why `SpeedCycle` studies `refresh` on its own: it states what the reports
   would show once the handler works on the vector.
2. `refresh` (data.cc:46) multiplies sectors by the logical block size, while the
   kernel's sectors have 512 bytes on every disk: eight times too much on 4Kn
   disks.
3. `load` (diskstats.cc:137) skips a field to get rid of blanks. From 10,000,000
   reads on there are none, and every counter is taken for the one before it. On
   kernels that print 15 counters or fewer the load fails instead, which is what
   `disk_stats` checks; 17 are printed since Linux 5.5.
4. An agent of the load shows what neither its label nor the comment before it
   says (`load_documented`): `setup` (loadavg.cc:156) assigns a variable to itself,
   so every agent shows the one-minute average, and `refresh` (loadavg.cc:88)
   divides by 100 what it never multiplied.
5. `Stat("")` (diskstats.cc:178), "empty to all disks" (storage/stat.h:103), adds up
   the devices of major 259: no SCSI disk, and the partitions of NVMe disks besides
   the disks. `disk_stats` checks, and `SumsAreOfExtended` proves, that it does that
   much right.

Further disagreements with the repository's words, which no run is spent on; the
properties that hold are stated so as not to speak of them:

* a share of exactly 1, a full swap for one, is below no maximum and gets the
  framework's state, while the last default state, "full" or "critical", has 1.0 for
  its "State max value" (loadavg.cc:192 and 220, swapusage.cc:101 and 136).
  `StateIsOfInterval` and `WorseIsNotBetter` stop below 1;
* `Info::uptime`, "Seconds since boot" (system/info.h:31), is never set; the model
  gives it any value (`Garbage`);
* a tick of a guest is in `user` too, so `getUsage()`, "total number of ticks"
  (system/stat.h:74), counts it twice. `TotalIsOfColumns` is over the columns, "the
  sum of all fields" (system/stat.h:85).

Seen in the models and left as they are, for no word of the repository says
otherwise:

* a machine without swap has a usage that is no number and gets the framework's
  state;
* a disk plugged in under the name of another is accounted with the block size of
  the other (`EntriesStay`, and the `blocksize` of an entry that is never read again);
* the attribute 261 is taken for 5 minutes (`Narrow`);
* a `System::Stat` of a file that cannot be read is zeros, and nobody is told
  (`FailureLeavesZeros`); the next difference then wraps;
* `to_string(11)` reads one past the table: the model gives it any value
  (`ToString`).

## 4. What is proved

Every safety property that the passing runs check is a theorem too, invariant,
action property or refinement: for every set of names, devices, actions, callers
and block sizes, every configuration, every number of requests and ticks, and
every width of floats, counters and words. A hypothesis is named where there is
one.

| module | theorem | says |
|---|---|---|
| `StorageControllerProofs` | `TypeCorrect` | `Spec => []TypeOK`, float arithmetic included |
| | `DisksAreDistinct`, `DisksArePhysical` | the vector holds each physical device at most once and no other |
| | `ScansAreComplete` | a scan that ends has missed no steady physical disk |
| | `TimerIsShortest` | the timer runs at the shortest wish, once there is a ready action |
| | `ReportsAreFaithful` | rows follow the vector, for any number of concurrent calls |
| | `WatchedDisksStay` | the action property `EntriesStay` |
| | `Refinement` | `Spec => ImplementsDiskWatch` |
| `SpeedCycleProofs` | `TypeCorrect` | speeds and samples are naturals that fit their counters |
| | `ExactSpeedIsTrue` | under `Exact`, `Spec => MeasuresTrueSpeed`: a `Data` implements `SpeedMeter` |
| | `RoundedSpeedIsNear` | under `Rounding`, which sets totals no bound, the action property `RoundingIsBounded`: at most 5/4 of a unit in the last place |
| | `RowsAreTrue` | `RowsTellTheSpeed`: a row is right to half a hundredth of its unit and the last place of a float |
| `DiskStatsProofs` | `TypeCorrect` | every `Stat` that is listed, summed or loaded fits its members |
| | `ListsAreFaithful` | `get()` lists the devices in order, with counters from while it read |
| | `SumsAreOfExtended` | `Stat("")` adds up the devices of the extended major, across wraps |
| | `LoadsAreFaithful` | on kernels that do not print 17 counters, the action property `LoadIsFaithful` |
| | `EarlyLoadsAreFaithful` | on every kernel, the same until the reads of the disk fill their column |
| | `DisksAreFoundByName` | the action property `DisksAreFound`, for every path: a load of a disk does not fail until its reads fill their column |
| `UsageAgentProofs` | `TypeCorrect` | the value is a share or no number |
| | `StateFitsValue` | the state is the first of the configuration that matches, else, below 1, that of the interval the value lies in |
| | `SeverityFollowsValue` | the action property `WorseIsNotBetter` |
| `SystemSamplerProofs` | `TypeCorrect` | samples and differences fit their words |
| | `TotalsAreOfColumns`, `SharesAreOfTotal` | the total of a difference of whole samples is what the columns went on by, and each member, while none falls, a share of it |
| | `RunningAndIdleAreUsage` | `RunningIsUsageLessIdle`, through words that wrap |
| | `FailuresLeaveZeros` | what is in a sample after the first failure |
| | `ListsAgree` | `FieldsAgree`: each name leads to its type, to the label that says what it is, and to its member |
| | `InfosKeepShares` | `InfoKeepsShares`, whatever `sysinfo` gives |

### The controller

Its theorems rest on one inductive invariant, `IInv`. None of the properties is
inductive alone: that only physical devices enter the vector needs to know that
`unit` was found physical when `pc = "push"` (`HandlerInv`); that a scan is
complete needs where each steady disk is on its way from `todo` through `unit`
into the vector (`ScanInv`); that `setup` finds the shortest interval needs that
the action it serves was not yet ready; and that rows follow the vector needs
that a call's copy is a prefix of it (`RowsInv`). `VectorStep` is the lemma they
share: the vector changes by the append of one new physical device or not at
all. `DiskSpeedProofs` has the types of the arithmetic. This invariant, like those
of the other components, was first checked with TLC on the instances of the runs.

### The speed

`IInv` of `SpeedCycleProofs` adds three facts to the types. `SavedIsLastSample`: what
is saved is a sample of the disk that is there, with its totals at `mark`.
`MarkIsBehind`: since the last refresh a disk has only moved on, by less than its
counter of milliseconds holds. `NothingInNoTime`: a speed without time has no bytes,
or a row would tell nothing of it, and one with time has some, or it would have no
nearest float.

*Exact totals.* `WrappedDifference` gives that the difference of the two wrapped
counters, wrapped, is the time that went by, by the uniqueness of quotient and
remainder (`Remainders`); `CycleIsTrue` makes a speed of it. `Exact` has three
conditions: blocks are sectors, the total of a disk's bytes is below `FloatExact`,
and so is the time of a cycle (`MaxCycle`). With 2^24 in the build these are a disk
of 512-byte blocks, totals below 16 MiB and cycles of less than four and a half
hours of I/O. Without the first the code is wrong (`speed_native_4k`).

*Rounded totals.* Without the second, `Rounding` asks that blocks are sectors and
their size a power of two, that `FloatExact` is even and that `MaxCycle` is at most
`FloatExact`: what every disk of 512-byte blocks and the build's 2^24 are. The
argument is the one of numerical analysis, on integers:

1. Of two powers of two the smaller divides the larger (`PowerDivides`), their
   product is one (`PowerProduct`), and none lies between another and its double
   (`PowerBelow`). The definition is by odd divisors, so each takes a smallest
   counterexample.
2. The unit in the last place is the largest power with `FloatExact * u <= 2 * n`,
   and `n` is less than `FloatExact` of them (`UlpBounds`). So a float is at most
   `FloatExact` units, half a unit off (`FloatIsNear`), and any such number is a
   float (`FloatOfMultiple`; here an odd `FloatExact` would fail).
3. The product with the block size is exact, so the saved bytes are half a unit off
   and not a whole one (`BytesAreNear`).
4. With the same unit in both totals their difference is exact, and 1/2 + 1/2 of a
   unit off; with a smaller one in the earlier total its error is at most 1/4, and
   the difference rounds by 1/2 again (`GainIsNear`): hence 5/4.

*Rows.* A power of two that gives a quotient the digits of a float exists
(`ScaleIsFound`), and the float of so many parts is half a unit of its last place off
(`SpeedFloatIsNear`). The nearest multiple is within half of its unit
(`MultipleIsNear`), whence `HundredthsAreNear` of the float, and `AmountIsNear` adds the
two errors up. The rest of `RowsAreTrue` is the table of units, value by value.

### The disk statistics

The properties speak of a finished list and a finished sum; `IInv` of
`DiskStatsProofs` says the same of the lines read so far (`LinesAreListed`,
`LinesAreSummed` over `Extended(line - 1)`), and that the kernel only counts up
(`SeenIsBehind`), so that what lay between `seen` and `counters` stays there while
the kernel counts on. That a loaded `Stat` fits its members is `LoadFits`. `ParseIsFaithful` is `parse()` on a line of the kernel, field
by field through `next()`. `AddIsWithin` is the step of the sum: two numbers of
which each was cut to its width add up, cut again, to one between the sums of
the bounds. `LoadsAreFaithful` and `DisksAreFoundByName` need `MeantIsLast` and
`FileIsMeant`, that `NameFactory` leaves the last part of a path and that the file
opened is that of the disk meant, and `SysLineIsScanned`, that the shift by the
skipped field is undone by the leading blanks. The hypothesis of `LoadsAreFaithful`,
`17 \notin Printings`, is where the code is right for ever: `load_shift` shows it
wrong beyond, and `EarlyLoadsAreFaithful` that only a full column makes it so.

The community modules' sum is a fold, a `CHOOSE` of a recursive function on the
subsets of the set. `SumProofs` shows that there is exactly one (`SolutionIsUnique`,
`SolutionExists`, each by a smallest set that is none) and from it what sums do:
`SumAdd`, `SumRemove`, `SumMonotone`, and `SumWraps`, that members cut to a word
and members that are not have the same sum, cut.

### The samples

`IInv` of `SystemSamplerProofs` says that a sample is what `Stat()` makes of the line
it was taken from, and that lines are as long as the kernel's, or empty. A whole
sample then has the kernel's own numbers (`WholeStat`), a member of a difference is
the ticks of its column, cut to a word (`DiffIsElapsed`), and `SumWraps` makes the
total of the difference that of the ticks although both totals may have wrapped.
`FirstFailure` gives the `n` that `FailureLeavesZeros` asks for. That an `Info` has the
kernel's sizes times their unit, whole, is a conjunct of `IInv` (`SizesAreBytes`).

### The agents

`IInv` of `UsageAgentProofs` is `TypeOK`, the types of the kernel's variables, and
that the state is `computeState()` of the value, which `StateIsOfInterval` says in
other terms. That the first of some indices exists takes the
well-foundedness of the naturals; that a table of states rises to 1 (`TablesRise`)
makes the first state above a value the one of its interval; that fractions
compare crosswise (`BelowIsMonotone`) makes severity follow the value.

### Assumptions and limits

The theorems rest on the assumptions about constants that the modules declare, which
TLC evaluates on every run: `WidthsAssumption`, `UnitAssumption`, `CycleAssumption`,
`ControllerAssumption`, `DiskStatsAssumption`, `UsageAgentAssumption`,
`SystemStatAssumption` and `SamplerAssumption`. They say that moduli are positive,
that tables of the kernel have the types of their entries, that a device is listed
once, and that a result that means failure is no proper one.

Only model-checked: the liveness properties `ConstructorEnds`, `CallEnds`,
`DisksAreSampled` and `ValueFollows`, because fairness and `ENABLED` are beyond the
prover. The properties of the runs that expect a violation are false of the code.

## 5. Plan

The proofs of the safety properties are done. Left: `SpeedCycle` over `DiskStats`,
what a speed is across the 10,000,000th read.

## 6. Not modelled

* `src/library/sysstat.cc`, `src/library/storage/stat.cc`,
  `src/module/private.h` and the second half of `data.cc` are commented out;
  `logicaldisk.h` declares an agent nothing implements.
* The Windows resources, the test program, packaging and translations.
* The texts of the up time agent, and the system time agent, which hands on the
  framework's `TimeStamp()`.
* `logical()` and `operator==` of `Storage::Stat`, which nothing uses; the first
  is false for `sda` and true for `sdb`.
* The agents that the configuration can ask for CPU statistics: the repository has
  none that is compiled, so `SystemSampler` stands for a caller.
