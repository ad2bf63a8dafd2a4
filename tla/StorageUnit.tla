----------------------------- MODULE StorageUnit -----------------------------
(***************************************************************************)
(* The units a speed is reported in (src/library/storage/unit.cc): from    *)
(* the attribute of an action to an index, and from a speed, the float of  *)
(* its quotient, and the index to what the row of the report says, a       *)
(* number of hundredths and a name.                                        *)
(***************************************************************************)
EXTENDS DiskSpeed, Sequences

CONSTANTS
  Kilo,     \* 1024 in the build
  Second,   \* milliseconds in one: 1000 in the build
  NoUnit,   \* an action without the attribute "size-unit"
  Refused   \* the result of a function that threw

\* The name of no unit.
UnknownUnit == "EB"

ASSUME UnitAssumption == {Kilo, Second} \subseteq Nat \ {0} /\ NoUnit # UnknownUnit

\* Mutant of UnitValues: a line of the table was copied and not changed.
UnitValuesCopied ==
  << 1, Kilo, Kilo * Kilo, Kilo * Kilo, Kilo * Kilo * Kilo * Kilo >>

\* The values of the table, and its names.
UnitValues ==
  << 1, Kilo, Kilo * Kilo, Kilo * Kilo * Kilo, Kilo * Kilo * Kilo * Kilo >>

UnitNames == << "B", "KB", "MB", "GB", "TB" >>

\* UnitFactory(): the index, from 0.
UnitFactory(attribute) ==
  LET text == IF attribute = NoUnit THEN "KB" ELSE attribute
  IN  IF \E i \in DOMAIN UnitNames : UnitNames[i] = text
      THEN (CHOOSE i \in DOMAIN UnitNames : UnitNames[i] = text) - 1
      ELSE Refused

(***************************************************************************)
(* The float nearest to n / d, as a number of parts and how many of them   *)
(* make one: a power of two, enough for the parts to reach FloatExact, and *)
(* any of those does.  The double that the code divides in is taken as     *)
(* exact.                                                                  *)
(***************************************************************************)
Scale(n, d) ==
  CHOOSE k \in 1..(2 * FloatExact * d) : k * n >= FloatExact * d /\ IsPowerOfTwo(k)

SpeedFloat(n, d) ==
  LET k == Scale(n, d)
  IN  [parts |-> NearestMultiple(k * n, Ulp((k * n) \div d) * d) \div d, scale |-> k]

\* The quotient n / d in hundredths, as it is printed: the nearest, ties to even.
Hundredths(n, d) == NearestMultiple(100 * n, d) \div d

\* std::to_string(value, unit): the value is a float, in bytes per second; the
\* units are powers of two, and a float divided by one is exact.
ReportedSpeed(speed, unit) ==
  LET value == SpeedFloat(Second * speed.bytes, speed.ms)
  IN  [amount |-> IF speed.ms = 0 THEN 0
                  ELSE Hundredths(value.parts, value.scale * UnitValues[unit + 1]),
       unit   |-> UnitNames[unit + 1]]
=============================================================================
