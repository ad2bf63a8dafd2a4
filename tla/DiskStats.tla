------------------------------ MODULE DiskStats ------------------------------
(***************************************************************************)
(* How the counters of the disks get from the kernel into a Storage::Stat  *)
(* (src/library/os/linux/diskstats.cc).  The kernel shows them twice, one  *)
(* line per device in /proc/diskstats and one file per device, the latter  *)
(* right-aligned: its first counter has leading blanks only while it is    *)
(* short.  A line of text is the sequence of its fields and whether blanks *)
(* come before them; a device name is the sequence of what its slashes     *)
(* part.  The kernel goes on counting while a file is read.                *)
(***************************************************************************)
EXTENDS SequencesExt, Sums

CONSTANTS
  Devices,      \* the devices, in the order of /proc/diskstats
  Major,        \* the major number of each
  Minor,        \* the minor number of each
  Whole,        \* the disk each is a part of, itself if it is one
  ExtMajor,     \* BLOCK_EXT_MAJOR
  Padding,      \* from this count on the first counter fills its column
  Printings,    \* how many counters a kernel may print: 11, 15 or 17
  IntModulus,   \* one more than the largest unsigned int
  MaxIo,        \* how many requests the kernel completes at most
  Paths,        \* the names a Stat is asked for, with or without directories
  Failed        \* the result of a constructor that threw

VARIABLES
  printed,      \* how many counters this kernel prints
  counters,     \* the kernel's: device -> counter -> number
  pc,           \* what the program is reading, or has read last
  line,         \* the line of /proc/diskstats it reads next
  list,         \* the list get() builds
  sum,          \* the Stat that Stat("") adds to
  seen,         \* history: the counters when the reading began
  loaded        \* the last Stat(name) and its name, none at first

vars == <<printed, counters, pc, line, list, sum, seen, loaded>>

StatFields ==
  << "read.count", "read.merged", "read.blocks", "read.time",
     "write.count", "write.merged", "write.blocks", "write.time",
     "io.inprogress", "io.time", "io.weighted",
     "discards.count", "discards.merged", "discards.blocks", "discards.time" >>

KernelFields == StatFields \o << "flush.count", "flush.time" >>

Names(fields) == { fields[i] : i \in DOMAIN fields }

\* The members of a Stat that are unsigned int; the others are unsigned long,
\* which no counter outgrows.
IntFields ==
  { "read.time", "write.time", "io.inprogress", "io.time", "io.weighted" }

TimeFields == (IntFields \ { "io.inprogress" }) \cup { "discards.time", "flush.time" }

Store(f, n) == IF f \in IntFields THEN n % IntModulus ELSE n

Device == Names(Devices)

\* A part of a name in which there is nothing, as before a first slash.
NoPart == ""
Empty == [f \in Names(StatFields) |-> 0]

ASSUME DiskStatsAssumption ==
  /\ Devices \in Seq(STRING) /\ IsInjective(Devices) /\ NoPart \notin Device
  /\ Padding \in Nat
  /\ IntModulus \in Nat \ {0}
  /\ Printings \subseteq { 11, 15, 17 }
  /\ MaxIo \in Nat
  /\ Major \in [Device -> Nat]
  /\ Minor \in [Device -> Nat]
  /\ Whole \in [Device -> Device]
  /\ Paths \subseteq Seq(STRING) \ { << >> }
  /\ Failed \notin [Names(StatFields) -> Nat]

-----------------------------------------------------------------------------
\* What the kernel prints; it keeps milliseconds in 32 bits.
Shown(f, n) == IF f \in TimeFields THEN n % IntModulus ELSE n

Numbers(d) ==
  [i \in 1..printed |-> Shown(KernelFields[i], counters[d][KernelFields[i]])]

\* Majors have at most three digits of a column of four: blanks come first.
ProcLine(d) == [blank |-> TRUE, text |-> << Major[d], Minor[d], d >> \o Numbers(d)]

SysLine(d) ==
  [blank |-> counters[d]["read.count"] < Padding, text |-> Numbers(d)]

-----------------------------------------------------------------------------
\* next(): beyond the current field, if there is one, to the next.  It throws
\* at the end of the text, which no line of the kernel lets it reach.
NextField(l) ==
  [blank |-> FALSE, text |-> IF l.blank THEN l.text ELSE Tail(l.text)]

\* sscanf(): one field of text for each field of a Stat, which are in order.
ScanFails(l) == Len(l.text) < Len(StatFields)

Column(f) == CHOOSE i \in DOMAIN StatFields : StatFields[i] = f

\* Mutant of Scan: the sectors go where the time belongs, and the time nowhere.
ScanTimeOfBlocks(l) ==
  [f \in Names(StatFields) |->
     Store(f, l.text[IF f = "read.time" THEN 3 ELSE Column(f)])]

Scan(l) == [f \in Names(StatFields) |-> Store(f, l.text[Column(f)])]

\* parse(): the two numbers, the name, and the counters.
Rest(l) == NextField(NextField(NextField(NextField(l))))
ParseFails(l) == ScanFails(Rest(l))
Parse(l) ==
  LET major == NextField(l)
      minor == NextField(major)
      from == NextField(minor)
  IN  [major |-> Head(major.text), minor |-> Head(minor.text),
       device |-> Head(from.text), fields |-> Scan(NextField(from))]

\* operator+=, for the counters; it clears the name and the numbers.
\* Mutant of Add: the sum is as wide as it needs to be.
AddWide(s, t) == [f \in Names(StatFields) |-> s[f] + t[f]]

Add(s, t) == [f \in Names(StatFields) |-> Store(f, s[f] + t[f])]

-----------------------------------------------------------------------------
\* Mutant of NameFactory: what follows the first slash.
NameFactoryFirst(path) == IF Len(path) > 1 THEN Tail(path) ELSE path

\* Device::NameFactory(), of a name that need not be there: what follows the
\* last slash, or the whole of a name that ends with it.
NameFactory(path) == IF Last(path) # NoPart THEN << Last(path) >> ELSE path

NoName == << NoPart >>

-----------------------------------------------------------------------------
Reading == pc \in { "get", "sum" }

Init ==
  /\ printed \in Printings
  /\ counters = [d \in Device |-> [f \in Names(KernelFields) |-> 0]]
  /\ pc = "idle"
  /\ line = 1
  /\ list = << >>
  /\ sum = Empty
  /\ seen = counters
  /\ loaded = << >>

\* The kernel completes a request: a merge, two sectors, three milliseconds.
\* It counts for the device and for the disk the device is a part of.
Counted(op) ==
  [f \in Names(KernelFields) |->
     CASE f = op \o ".count"  -> 1
       [] f = op \o ".merged" -> 1
       [] f = op \o ".blocks" -> 2
       [] f \in { op \o ".time", "io.time", "io.weighted" } -> 3
       [] OTHER -> 0]

Requests == Sum([d \in Device |-> counters[d]["read.count"]
                                 + counters[d]["write.count"]
                                 + counters[d]["discards.count"]],
                { d \in Device : Whole[d] = d })

Complete(d, op) ==
  /\ Requests < MaxIo
  /\ counters' = [e \in Device |->
                    IF e \in { d, Whole[d] }
                    THEN [f \in Names(KernelFields) |->
                            counters[e][f] + Counted(op)[f]]
                    ELSE counters[e]]
  /\ UNCHANGED << printed, pc, line, list, sum, seen, loaded >>

\* get() and Stat(name) of no name open /proc/diskstats.
Open(what) ==
  /\ ~Reading
  /\ pc' = what
  /\ line' = 1
  /\ list' = << >>
  /\ sum' = Empty
  /\ seen' = counters
  /\ UNCHANGED << printed, counters, loaded >>

\* The devices Stat("") adds up.
\* Mutant of Counts: the test is the other way round.
CountsOther(st) == st.major # ExtMajor
Counts(st) == st.major = ExtMajor

\* One line is parsed; get() lists it, Stat("") adds it if it counts.
ReadLine ==
  /\ Reading
  /\ line <= Len(Devices)
  /\ ~ParseFails(ProcLine(Devices[line]))
  /\ LET st == Parse(ProcLine(Devices[line]))
     IN  /\ list' = IF pc = "get" THEN Append(list, st) ELSE list
         /\ sum' = IF pc = "sum" /\ Counts(st) THEN Add(sum, st.fields) ELSE sum
  /\ line' = line + 1
  /\ UNCHANGED << printed, counters, pc, seen, loaded >>

\* parse() throws: the caller gets neither list nor object.
ReadFails ==
  /\ Reading
  /\ line <= Len(Devices)
  /\ ParseFails(ProcLine(Devices[line]))
  /\ pc' = "idle"
  /\ list' = << >>
  /\ sum' = Empty
  /\ UNCHANGED << printed, counters, line, seen, loaded >>

ReadEnd ==
  /\ Reading
  /\ line > Len(Devices)
  /\ pc' = IF pc = "get" THEN "listed" ELSE "summed"
  /\ UNCHANGED << printed, counters, line, list, sum, seen, loaded >>

\* /sys/block/<disk>/stat is there for a disk, and below it
\* /sys/block/<disk>/<part>/stat for a partition; the kernel takes any number of
\* slashes for one.
HasFile(name, d) ==
  \E i \in DOMAIN name :
    /\ name[i] = d
    /\ IF Whole[d] = d
       THEN \A j \in DOMAIN name \ { i } : name[j] = NoPart
       ELSE \E h \in 1..(i - 1) :
              /\ name[h] = Whole[d]
              /\ \A j \in DOMAIN name \ { h, i } : name[j] = NoPart

\* load(): no object if there is no such file, or if the scan fails.
\* Mutant of LoadResult: what sscanf() did not find is not noticed.
LoadUnchecked(name) ==
  LET d == CHOOSE e \in Device : HasFile(name, e)
      l == NextField(SysLine(d))
  IN  IF \A e \in Device : ~HasFile(name, e) THEN Failed
      ELSE [f \in Names(StatFields) |->
              IF Column(f) \in DOMAIN l.text THEN Store(f, l.text[Column(f)]) ELSE 0]

LoadResult(name) ==
  LET d == CHOOSE e \in Device : HasFile(name, e)
      l == NextField(SysLine(d))
  IN  IF (\A e \in Device : ~HasFile(name, e)) \/ ScanFails(l) THEN Failed
      ELSE Scan(l)

\* Stat(name): loads the device of that name, or adds all up if there is none.
Stat(path) ==
  LET name == NameFactory(path)
  IN  \/ name = NoName /\ Open("sum")
      \/ /\ ~Reading
         /\ name # NoName
         /\ loaded' = << path, LoadResult(name) >>
         /\ UNCHANGED << printed, counters, pc, line, list, sum, seen >>

Next ==
  \/ \E d \in Device : \E op \in { "read", "write", "discards" } : Complete(d, op)
  \/ Open("get")
  \/ ReadLine
  \/ ReadFails
  \/ ReadEnd
  \/ \E path \in Paths : Stat(path)

Spec == Init /\ [][Next]_vars

-----------------------------------------------------------------------------
\* A counter of a Stat fits the width of its member.
Fitting(fields) ==
  /\ fields \in [Names(StatFields) -> Nat]
  /\ \A f \in IntFields : fields[f] < IntModulus

Entries ==
  [major : Nat, minor : Nat, device : Device, fields : [Names(StatFields) -> Nat]]

\* The types; every Stat that is listed, summed or loaded fits its members.
TypeOK ==
  /\ printed \in Printings
  /\ counters \in [Device -> [Names(KernelFields) -> Nat]]
  /\ seen \in [Device -> [Names(KernelFields) -> Nat]]
  /\ pc \in { "idle", "get", "sum", "listed", "summed" }
  /\ line \in 1..(Len(Devices) + 1)
  /\ Fitting(sum)
  /\ \A i \in DOMAIN list : list[i] \in Entries /\ Fitting(list[i].fields)
  /\ loaded # << >> => loaded[2] = Failed \/ Fitting(loaded[2])

\* A counter of the Stat is one that the kernel's went through while the file
\* was read, as wide as the member that holds it.
Within(n, f, low, high) == n \in { Store(f, Shown(f, m)) : m \in low..high }

\* The list of get() has one Stat for each device, in the kernel's order, with
\* its name and its numbers, and every counter is one the device had between the
\* opening of the file and now: parse() takes each field for what it is.
ListIsFaithful ==
  pc = "listed" =>
    /\ Len(list) = Len(Devices)
    /\ \A i \in DOMAIN list :
         LET d == Devices[i]
         IN  /\ list[i].device = d
             /\ <<list[i].major, list[i].minor>> = <<Major[d], Minor[d]>>
             /\ \A f \in Names(StatFields) :
                  Within(list[i].fields[f], f, seen[d][f], counters[d][f])

Total(c, f, ds) == Sum([d \in ds |-> c[d][f]], ds)

\* The time of discards is left out: an unsigned long member that adds up
\* unsigned int numbers of the kernel, it does not wrap when they do.
SumWithin(ds) ==
  pc = "summed" =>
    \A f \in Names(StatFields) \ { "discards.time" } :
      Within(sum[f], f, Total(seen, f, ds), Total(counters, f, ds))

\* Stat("") adds each device of the set it sums up once, and each counter to its
\* own, across the wrap of an unsigned int, whatever the kernel counts between
\* one line and the next.  The set is that of the extended major, as the code
\* has it; that it is not the one the header promises is SumIsOfAllDisks.
SumIsOfExtended == SumWithin({ d \in Device : Major[d] = ExtMajor })

\* A Stat of no name is that of all the disks: "Device name (ex: sda) or empty to
\* all disks." (stat.h:103).  The code leaves out the disks of other majors and
\* adds the partitions of the extended one to their disk.
SumIsOfAllDisks == SumWithin({ d \in Device : Whole[d] = d })

\* The device a name is for, whoever gives it.
Meant(path) == path[Max({ i \in DOMAIN path : path[i] # NoPart })]

\* Stat(name) has the counters of the device the name is for or does not exist:
\* never those of other columns ("read I/Os ... number of read I/Os processed"),
\* and never those of another device.
LoadIsFaithful ==
  [][loaded' # loaded /\ loaded'[2] # Failed =>
       \A f \in Names(StatFields) :
         loaded'[2][f] = Store(f, Shown(f, counters[Meant(loaded'[1])][f]))]_vars

\* A disk is found by its name with any directories before it, on every kernel
\* that prints the counters, until its reads fill their column.
DisksAreFound ==
  [][loaded' # loaded /\ printed >= Len(StatFields) /\ Last(loaded'[1]) # NoPart =>
       LET d == Meant(loaded'[1])
       IN  d \in Device /\ Whole[d] = d /\ counters[d]["read.count"] < Padding
             => loaded'[2] # Failed]_vars
=============================================================================
