------------------------------ MODULE SystemStat ------------------------------
(***************************************************************************)
(* System::Stat (src/library/os/linux/sysstats.cc): the ticks of all       *)
(* processors, read from the first line of /proc/stat, their names, sums   *)
(* and differences.  A Stat is a function on its members; the line is the  *)
(* sequence of its numbers, empty if the file cannot be opened.            *)
(***************************************************************************)
EXTENDS Sequences, Sums

CONSTANTS
  ULongModulus,  \* one more than the largest unsigned long
  Absent,        \* a configuration that does not name a field
  Refused,       \* the result of a function that threw
  Undefined      \* what is read past the end of a table

-----------------------------------------------------------------------------
(***************************************************************************)
(* The four lists that go by the same positions: the values of the enum,   *)
(* the names, the labels (and a null one), and the members as Stat() reads *)
(* them.  The indices of the enum and of the tables begin with 0.          *)
(***************************************************************************)
Enum ==
  << "USER", "NICE", "SYSTEM", "IDLE", "IOWAIT", "IRQ", "SOFTIRQ", "STEAL",
     "GUEST", "GUEST_NICE", "TOTAL" >>

\* Mutant of TypeNames: two names are in each other's place.
TypeNamesSwapped ==
  << "user", "nice", "system", "iowait", "idle", "irq", "softirq", "steal",
     "guest", "guest_nice", "total" >>

TypeNames ==
  << "user", "nice", "system", "idle", "iowait", "irq", "softirq", "steal",
     "guest", "guest_nice", "total" >>

Null == "nullptr"

Labels ==
  << "Normal processes", "Niced processes", "Kernel mode", "IDLE",
     "Waiting for I/O", "Interrupts", "Soft IRQS", "Involuntary wait",
     "Running a normal guest", "Running a niced guest", "Total use of CPU", Null >>

\* Mutant of Members: iowait is read before idle.
MembersSwapped ==
  << "user", "nice", "system", "iowait", "idle", "irq", "softirq", "steal",
     "guest", "guest_nice" >>

Members ==
  << "user", "nice", "system", "idle", "iowait", "irq", "softirq", "steal",
     "guest", "guest_nice" >>

Member == { Members[i] : i \in DOMAIN Members }

TypeSet == 0 .. (Len(Enum) - 1)

\* A name that a configuration may give and no member has.
Unknown == "cpu"

\* What is no field, no index and no label differs from those that are.
ASSUME SystemStatAssumption ==
  /\ ULongModulus \in Nat \ {0}
  /\ \A i \in DOMAIN TypeNames : Absent # TypeNames[i]
  /\ Absent # Unknown
  /\ Refused \notin TypeSet
  /\ \A i \in DOMAIN Labels : Undefined # Labels[i]

\* TypeFactory() of a text, and of a node with the attribute "field-name".
TypeFactory(text) ==
  IF \E i \in DOMAIN TypeNames : TypeNames[i] = text
  THEN (CHOOSE i \in DOMAIN TypeNames : TypeNames[i] = text) - 1
  ELSE Refused

TypeOfNode(attribute) ==
  TypeFactory(IF attribute = Absent THEN "total" ELSE attribute)

\* std::to_string(Type): what it may give; the index one above the last name
\* passes its check.
ToString(ix) ==
  CASE ix > Len(TypeNames) -> "undefined"
    [] ix = Len(TypeNames) -> Undefined
    [] OTHER -> TypeNames[ix + 1]

\* getLabel(), which takes any index.
GetLabel(ix) == IF ix < Len(Labels) THEN Labels[ix + 1] ELSE Undefined

-----------------------------------------------------------------------------
Word(n) == n % ULongModulus

(***************************************************************************)
(* Stat().  The extraction of a number that is not there, or that does not *)
(* fit, fails: it gives 0 or the largest number, and from then on nothing  *)
(* more is read.  Nobody looks at the state of the stream.                 *)
(***************************************************************************)
Fits(text, i) == i \in DOMAIN text /\ text[i] < ULongModulus

\* Mutant of Extracted: what does not fit is cut, and the reading goes on.
ExtractedCut(text, i) == IF i \in DOMAIN text THEN Word(text[i]) ELSE 0

Extracted(text, i) ==
  IF \E j \in 1..(i - 1) : ~Fits(text, j) THEN 0
  ELSE IF Fits(text, i) THEN text[i]
  ELSE IF i \in DOMAIN text THEN ULongModulus - 1
  ELSE 0

Position(f) == CHOOSE i \in DOMAIN Members : Members[i] = f

Stat(text) == [f \in Member |-> Extracted(text, Position(f))]

\* total() and getUsage(), which are the same, getRunning() and getIdle().
Total(stat) == Word(Sum(stat, Member))
GetUsage(stat) == Word(Sum(stat, Member))

\* Mutant of GetRunning: waiting for I/O is not counted as running.
GetRunningBusy(stat) == Word(Sum(stat, Member \ { "idle", "iowait" }))

GetRunning(stat) == Word(Sum(stat, Member \ { "idle" }))
GetIdle(stat) == stat["idle"]

\* Mutant of Minus: the members are signed.
MinusSigned(s, t) == [f \in Member |-> s[f] - t[f]]

\* Mutant of Minus: a counter that went back counts as one that stood.
MinusClamped(s, t) == [f \in Member |-> IF s[f] > t[f] THEN s[f] - t[f] ELSE 0]

\* operator-=, member by member.
Minus(s, t) == [f \in Member |-> Word(s[f] - t[f])]

\* operator[] of a type: the switch; and of a name.
MemberOf ==
  [USER |-> "user", NICE |-> "nice", SYSTEM |-> "system", IDLE |-> "idle",
   IOWAIT |-> "iowait", IRQ |-> "irq", SOFTIRQ |-> "softirq", STEAL |-> "steal",
   GUEST |-> "guest", GUEST_NICE |-> "guest_nice"]

ValueOf(stat, ix) ==
  CASE ix \notin TypeSet -> Refused
    [] Enum[ix + 1] = "TOTAL" -> Total(stat)
    [] OTHER -> stat[MemberOf[Enum[ix + 1]]]

ValueOfName(stat, name) ==
  IF TypeFactory(name) = Refused THEN Refused ELSE ValueOf(stat, TypeFactory(name))
=============================================================================
