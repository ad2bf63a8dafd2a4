------------------------------ MODULE SpeedMeter ------------------------------
(***************************************************************************)
(* What the "bytes/second" of a watched disk is meant to be, without the   *)
(* program's floats, wrapping counters and cycle bookkeeping: the bytes    *)
(* moved since the previous measurement over the time the disk took to     *)
(* move them.  A measurement that has no predecessor on the same disk may  *)
(* show anything up to all the bytes the disk has ever moved: those of its *)
(* past, or what they exceed those of another disk by, but no more.        *)
(***************************************************************************)
EXTENDS Integers

CONSTANTS
  Directions,   \* the directions measured, each on its own
  SectorBytes,  \* bytes in the sectors the counters count
  Unknown       \* mark of a disk never measured before

VARIABLES
  total,  \* [Directions -> [blocks, ms]]: what the disk has done so far
  mark,   \* total at the previous measurement, or Unknown
  speed   \* [Directions -> [bytes, ms]]: the last speed measured

vars == <<total, mark, speed>>

Counter == [blocks : Nat, ms : Nat]

\* The true speed of one direction between two totals of the same disk.
TrueSpeed(now, before) ==
  IF now.blocks > before.blocks /\ now.ms > before.ms
  THEN [bytes |-> (now.blocks - before.blocks) * SectorBytes,
        ms    |-> now.ms - before.ms]
  ELSE [bytes |-> 0, ms |-> 0]

Init == /\ total \in [Directions -> Counter]
        /\ mark = Unknown
        /\ speed = [d \in Directions |-> [bytes |-> 0, ms |-> 0]]

\* The disk works: its totals only grow.
Transfer == /\ total' \in [Directions -> Counter]
            /\ \A d \in Directions : /\ total'[d].blocks >= total[d].blocks
                                     /\ total'[d].ms >= total[d].ms
            /\ UNCHANGED <<mark, speed>>

\* Another disk takes its place.
Replace == /\ total' \in [Directions -> Counter]
           /\ mark' = Unknown
           /\ UNCHANGED speed

Measure == /\ mark' = total
           /\ IF mark # Unknown
              THEN speed' = [d \in Directions |-> TrueSpeed(total[d], mark[d])]
              ELSE \A d \in Directions :
                     speed'[d].bytes \in 0..(total[d].blocks * SectorBytes)
           /\ UNCHANGED total

Next == Transfer \/ Replace \/ Measure

Spec == Init /\ [][Next]_vars

=============================================================================
