------------------------------ MODULE DiskSpeed ------------------------------
(***************************************************************************)
(* The arithmetic of Storage::Data (src/src/library/storage/data.cc): from *)
(* two samples of a disk's counters, the speed of the cycle between them.  *)
(*                                                                         *)
(* A counter sample gives, for each direction, the sectors transferred and *)
(* the milliseconds spent.  Integers stand for the C types with their      *)
(* width: "time" is an unsigned int, which wraps at TimeModulus, "blocks"  *)
(* an unsigned long, never close to its limit, "bytes" a float, which is   *)
(* exact up to FloatExact.                                                 *)
(***************************************************************************)
EXTENDS Integers, FiniteSetsExt

CONSTANTS
  Directions,  \* "read" and "write", each computed from its own counters
  FloatExact,  \* first integer whose successor no float is: 2^24 in the build
  TimeModulus  \* number of values of an unsigned int: 2^32 in the build

ASSUME WidthsAssumption == {FloatExact, TimeModulus} \subseteq Nat \ {0}

(***************************************************************************)
(* Conversion of a natural number to float: to the nearest multiple of the *)
(* unit in the last place, ties to the even one.  That unit is the largest *)
(* power of two u with FloatExact * u <= 2 * n, and 1 for small numbers.   *)
(***************************************************************************)
IsPowerOfTwo(u) == \A d \in 2..u : u % d = 0 => d % 2 = 0

Units(n) == {1} \union {u \in 1..((2 * n) \div FloatExact) : IsPowerOfTwo(u)}

Ulp(n) == Max(Units(n))

\* Mutant of NearestMultiple: the conversion truncates.
MultipleBelow(n, u) == (n \div u) * u

NearestMultiple(n, u) ==
  LET q == n \div u
      r == n % u
  IN  IF 2 * r < u \/ (2 * r = u /\ q % 2 = 0) THEN q * u ELSE (q + 1) * u

Float(n) == IF n < FloatExact THEN n ELSE NearestMultiple(n, Ulp(n))

\* a - b in float arithmetic, where only a positive result is looked at.
Gain(a, b) == IF a > b THEN Float(a - b) ELSE 0

\* ((float) blocks) * blocksize: the conversion rounds, then the product.
Bytes(blocks, blocksize) == Float(Float(blocks) * blocksize)

(***************************************************************************)
(* A speed is kept as what the code divides, bytes and ms spent; the float *)
(* that the quotient is rounded to is that of StorageUnit, where it is     *)
(* read.                                                                   *)
(***************************************************************************)
NoSpeed == [bytes |-> 0, ms |-> 0]

\* "if(bytes > 0 && time > 0)": a direction that moved nothing, or that
\* took no time, has speed zero.
Quotient(bytes, ms) ==
  IF bytes > 0 /\ ms > 0 THEN [bytes |-> bytes, ms |-> ms] ELSE NoSpeed

NoSample == [bytes |-> 0, time |-> 0]

Sample(counter, blocksize) ==
  [bytes |-> Bytes(counter.blocks, blocksize), time |-> counter.time]

\* Mutant of Elapsed: the difference is taken in floats.
ElapsedFloat(now, before) == Gain(now, before)

\* unsigned int - unsigned int wraps, then converts to float.
Elapsed(now, before) == Float((now - before) % TimeModulus)

CycleSpeed(now, saved) ==
  Quotient(Gain(now.bytes, saved.bytes), Elapsed(now.time, saved.time))

\* Data(const Stat &): nothing saved yet, whatever the counters read.
NewData(device, blocksize) ==
  [name      |-> device,
   blocksize |-> blocksize,
   speed     |-> [d \in Directions |-> NoSpeed],
   saved     |-> [d \in Directions |-> NoSample],
   error     |-> FALSE]

\* Data::refresh() once the counters of the disk, stat, have been loaded.
Refreshed(data, stat) ==
  [data EXCEPT
    !.speed = [d \in Directions |->
                 CycleSpeed(Sample(stat[d], data.blocksize), data.saved[d])],
    !.saved = [d \in Directions |-> Sample(stat[d], data.blocksize)]]

=============================================================================
