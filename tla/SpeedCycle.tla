------------------------------ MODULE SpeedCycle ------------------------------
(***************************************************************************)
(* One Storage::Data object and the disk it names, cycle after cycle: the  *)
(* kernel counts, the disk may be unplugged and another one plugged under  *)
(* the same name, and refresh() turns two successive samples into a speed. *)
(*                                                                         *)
(* The kernel keeps whole totals; what refresh() reads of "ms" is its low  *)
(* bits, the unsigned int that /sys/block/<name>/stat prints.              *)
(***************************************************************************)
EXTENDS StorageUnit

CONSTANTS
  BlockSize,    \* what blocksize() returned when the Data was created
  SectorBytes,  \* bytes in the sectors the kernel counts
  MaxBlocks,    \* bound on the sectors a disk moves in each direction
  MaxMs,        \* bound on the milliseconds it spends in each direction
  MaxCycle,     \* bound on those it spends between two refreshes
  Unknown       \* no measurement yet on the disk that is plugged in

ASSUME CycleAssumption == /\ {BlockSize, SectorBytes} \subseteq Nat \ {0}
                          /\ {MaxBlocks, MaxMs} \subseteq Nat
                          /\ MaxCycle \in 1..TimeModulus
                          /\ Unknown \notin [Directions -> [blocks : Nat, ms : Nat]]

VARIABLES
  total,    \* the kernel's counters of the disk that is plugged in
  plugged,  \* is there a disk under this name
  data,     \* the Data object
  mark      \* history: total at the last refresh of this disk, or Unknown

vars == <<total, plugged, data, mark>>

Counter == [blocks : 0..MaxBlocks, ms : 0..MaxMs]

Speeds == [bytes : Nat, ms : Nat]

TypeOK ==
  /\ total \in [Directions -> Counter]
  /\ plugged \in BOOLEAN
  /\ data.name = "disk" /\ data.blocksize = BlockSize
  /\ data.speed \in [Directions -> Speeds]
  /\ data.saved \in [Directions -> [bytes : Nat, time : 0..(TimeModulus - 1)]]
  /\ mark \in [Directions -> Counter] \union {Unknown}

\* The disk was there long before the program, with any history.
Init == /\ total \in [Directions -> Counter]
        /\ plugged = TRUE
        /\ data = NewData("disk", BlockSize)
        /\ mark = Unknown

(***************************************************************************)
(* The kernel completes a request of one or more sectors, in no time or in *)
(* some.  Between two refreshes of a disk its ms grow by less than         *)
(* MaxCycle; the modulus is 49 days of I/O time at 32 bits.                *)
(***************************************************************************)
Transfer(d) ==
  /\ plugged
  /\ \E b \in (total[d].blocks + 1)..MaxBlocks, t \in total[d].ms..MaxMs :
       /\ mark # Unknown => t - mark[d].ms < MaxCycle
       /\ total' = [total EXCEPT ![d] = [blocks |-> b, ms |-> t]]
  /\ UNCHANGED <<plugged, data, mark>>

Unplug == /\ plugged
          /\ plugged' = FALSE
          /\ UNCHANGED <<total, data, mark>>

\* A disk under the same name, the same one or another: its counters begin
\* anew, in the kernel's device_add_disk().
Plug == /\ ~plugged
        /\ plugged' = TRUE
        /\ total' = [d \in Directions |-> [blocks |-> 0, ms |-> 0]]
        /\ mark' = Unknown
        /\ UNCHANGED data

\* Mutant of Loaded: the whole counter is read, whatever its width.
LoadedWide == [d \in Directions |-> [blocks |-> total[d].blocks,
                                     time   |-> total[d].ms]]

\* What Stat::load() reads of the kernel's counters.
Loaded == [d \in Directions |-> [blocks |-> total[d].blocks,
                                 time   |-> total[d].ms % TimeModulus]]

\* Data::refresh().  Without a disk, load() throws before any assignment,
\* and the object stays as it is.
Refresh == /\ plugged
           /\ data' = Refreshed(data, Loaded)
           /\ mark' = total
           /\ UNCHANGED <<total, plugged>>

Next == \/ \E d \in Directions : Transfer(d)
        \/ Unplug
        \/ Plug
        \/ Refresh

Spec == Init /\ [][Next]_vars

-----------------------------------------------------------------------------

Meter == INSTANCE SpeedMeter WITH speed <- data.speed

(***************************************************************************)
(* The speeds of a Data object are the true ones: from the second refresh  *)
(* of a disk on, each direction shows exactly the bytes moved since the    *)
(* previous refresh over the time spent moving them, whatever refreshes    *)
(* failed in between, and across a wrap of the millisecond counter; the    *)
(* first refresh, of a new object or of a disk plugged in under the name   *)
(* of another, never shows more than that disk has moved (Data::refresh,   *)
(* data.cc:32-65).                                                         *)
(***************************************************************************)
MeasuresTrueSpeed == Meter!Spec

Distance(a, b) == IF a >= b THEN a - b ELSE b - a

(***************************************************************************)
(* When the totals have outgrown the float's significant bits, a cycle is  *)
(* off by at most 5/4 of a unit in the last place of the total, a disk     *)
(* that moved nothing shows no speed at all, and no time is invented       *)
(* (float bytes_read, data.cc:37-40).                                      *)
(***************************************************************************)
RoundingIsBounded ==
  [][Refresh /\ mark # Unknown =>
       \A d \in Directions :
         LET true == Meter!TrueSpeed(total[d], mark[d])
             shown == data'.speed[d]
         IN  /\ 4 * Distance(shown.bytes, true.bytes)
                  <= 5 * Ulp(total[d].blocks * BlockSize)
             /\ true.bytes = 0 => shown = NoSpeed
             /\ shown # NoSpeed => shown.ms = true.ms]_vars

\* What a unit is worth: Kilo times the one before.
Worth ==
  [B  |-> 1, KB |-> Kilo, MB |-> Kilo * Kilo, GB |-> Kilo * (Kilo * Kilo),
   TB |-> Kilo * (Kilo * (Kilo * Kilo))]

(***************************************************************************)
(* Whatever unit an action is configured with, the amount and the unit its *)
(* row names make the speed, to half a hundredth of that unit and to the   *)
(* last place of a float, 2 / FloatExact of the speed: a speed of more     *)
(* digits than a float has is not told to the hundredth.  Without the      *)
(* attribute the unit is "KB", and an unknown one is refused (UnitFactory, *)
(* to_string, unit.cc:32-68; the float, data.cc:53-63).                    *)
(***************************************************************************)
RowsTellTheSpeed ==
  /\ UnitFactory(UnknownUnit) = Refused
  /\ \A unit \in DOMAIN Worth \cup { NoUnit }, d \in Directions :
       LET bytes == Second * data.speed[d].bytes
           ms == data.speed[d].ms
           row == ReportedSpeed(data.speed[d], UnitFactory(unit))
           worth == Worth[row.unit]
       IN  /\ row.unit = IF unit = NoUnit THEN "KB" ELSE unit
           /\ 2 * FloatExact * Distance(row.amount * worth * ms, 100 * bytes)
                <= FloatExact * worth * ms + 400 * bytes

=============================================================================
