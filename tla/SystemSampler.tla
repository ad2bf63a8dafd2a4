---------------------------- MODULE SystemSampler ----------------------------
(***************************************************************************)
(* A caller that reads the processors' ticks again and again and takes     *)
(* differences of its samples, as the agent that sysstat.cc keeps in a     *)
(* comment would, and the system's information; and the kernel behind it.  *)
(* The kernel counts a tick of a guest twice, and may take ticks of iowait *)
(* back (the page sysstats.cc:20 refers to).                               *)
(***************************************************************************)
EXTENDS SystemStat

CONSTANTS
  ULongLongModulus, \* one more than the largest unsigned long long
  Garbage,          \* what a member nobody sets may be
  Active,           \* the members this machine's kernel counts ticks in
  Uptimes,          \* the ticks of idle it may have counted before
  Printings,        \* how many numbers the kernel's line may have
  MaxTicks,         \* how many ticks the kernel counts at most
  Sysinfos          \* what sysinfo() may give

INSTANCE SystemInfo

VARIABLES
  ticks,      \* the kernel's: member -> ticks
  spent,      \* how many ticks it has counted since
  printed,    \* how many numbers its line has
  readable,   \* whether /proc/stat can be opened
  sys,        \* its struct sysinfo
  now,        \* the last sample, and what the kernel showed it
  last,       \* the one before
  info        \* the last Info or up time, and what the kernel gave it

kernel == << ticks, spent, printed, readable, sys >>
vars == << kernel, now, last, info >>

ASSUME SamplerAssumption ==
  /\ Active \subseteq Member
  /\ Uptimes \subseteq Nat
  /\ Printings \subseteq 8..10
  /\ MaxTicks \in Nat
  /\ ULongLongModulus \in Nat \ {0}
  /\ \A s \in Sysinfos : s.loads \in [1..3 -> Nat]
  /\ \A s \in Sysinfos : \A f \in Sizes :
       /\ s.sizes[f] \in 0..(ULongModulus - 1)
       /\ s.mem_unit \in Nat
       /\ s.sizes[f] * s.mem_unit < ULongLongModulus

-----------------------------------------------------------------------------
\* The line of /proc/stat, in the kernel's order.
Columns ==
  << "user", "nice", "system", "idle", "iowait", "irq", "softirq", "steal",
     "guest", "guest_nice" >>

Line == IF readable THEN [i \in 1..printed |-> ticks[Columns[i]]] ELSE << >>

Empty == [stat |-> Stat(<< >>), line |-> << >>]

Init ==
  /\ \E idle \in Uptimes :
       ticks = [f \in Member |-> IF f = "idle" THEN idle ELSE 0]
  /\ spent = 0
  /\ printed \in Printings
  /\ readable = TRUE
  /\ sys \in Sysinfos
  /\ now = Empty
  /\ last = Empty
  /\ info = [what |-> "none"]

\* A tick is counted, one of a guest also as the host's.
Counts(f) ==
  { f } \cup (CASE f = "guest" -> { "user" } [] f = "guest_nice" -> { "nice" }
                [] OTHER -> {})

Tick(f) ==
  /\ spent < MaxTicks
  /\ ticks' = [g \in Member |-> IF g \in Counts(f) THEN ticks[g] + 1 ELSE ticks[g]]
  /\ spent' = spent + 1
  /\ UNCHANGED << printed, readable, sys, now, last, info >>

IowaitFalls ==
  /\ ticks["iowait"] > 0
  /\ ticks' = [ticks EXCEPT !["iowait"] = @ - 1]
  /\ UNCHANGED << spent, printed, readable, sys, now, last, info >>

ReadableChanges ==
  /\ readable' = ~readable
  /\ UNCHANGED << ticks, spent, printed, sys, now, last, info >>

SysinfoChanges ==
  /\ sys' \in Sysinfos
  /\ UNCHANGED << ticks, spent, printed, readable, now, last, info >>

\* The caller builds a Stat and keeps the one before.
Sample ==
  /\ now' = [stat |-> Stat(Line), line |-> Line]
  /\ last' = now
  /\ UNCHANGED << kernel, info >>

\* The caller builds an Info.
GetInfo ==
  /\ \E before \in Garbage :
       info' = [what |-> "info", got |-> Info(sys, before), given |-> sys]
  /\ UNCHANGED << kernel, now, last >>

\* The framework asks the agent of the up time for its value.
GetUpTime ==
  /\ info' = [what |-> "uptime", got |-> UpTime(sys), given |-> sys]
  /\ UNCHANGED << kernel, now, last >>

Next ==
  \/ \E f \in Active : Tick(f)
  \/ IowaitFalls
  \/ ReadableChanges
  \/ SysinfoChanges
  \/ Sample
  \/ GetInfo
  \/ GetUpTime

Spec == Init /\ [][Next]_vars

-----------------------------------------------------------------------------
\* The types: whatever is read or taken from it, a member fits its width.
TypeOK ==
  /\ ticks \in [Member -> Nat]
  /\ spent \in 0..MaxTicks
  /\ printed \in Printings
  /\ readable \in BOOLEAN
  /\ \A s \in { now.stat, last.stat, Minus(now.stat, last.stat) } :
       s \in [Member -> 0..(ULongModulus - 1)]

\* A sample that took every number the kernel shows.
IsWhole(sample) ==
  /\ sample.line # << >>
  /\ \A i \in DOMAIN sample.line : sample.line[i] < ULongModulus

Diff == Minus(now.stat, last.stat)

\* The ticks that each of the kernel's counters went on by, none for those it
\* does not print.
Column(f) == CHOOSE i \in DOMAIN Columns : Columns[i] = f

Elapsed ==
  [f \in Member |-> IF Column(f) <= printed
                    THEN now.line[Column(f)] - last.line[Column(f)] ELSE 0]

Forward == \A f \in Member : Elapsed[f] >= 0
AllElapsed == Sum(Elapsed, Member)

\* Between two whole samples the total of the difference, "the sum of all fields"
\* (stat.h:85), is what all the columns that are printed went on by, although the
\* totals themselves may have wrapped and a counter may have gone back.  That is
\* more than the ticks that went by, if some were of a guest: those are in two
\* columns (operator-=, total(), sysstats.cc:183-209).
TotalIsOfColumns ==
  IsWhole(now) /\ IsWhole(last) => Total(Diff) = Word(AllElapsed)

\* While no counter goes back, and fewer ticks go by than a word holds, each
\* member of the difference has the ticks of its own counter and is a share of
\* the total; members an old kernel does not print have none.
SharesAreTrue ==
  IsWhole(now) /\ IsWhole(last) /\ Forward /\ AllElapsed < ULongModulus =>
    \A f \in Member : Diff[f] = Elapsed[f] /\ Diff[f] <= Total(Diff)

\* "'active' tickes (usage - idle)" (stat.h:77): running and idle make up the
\* usage, and the usage the total, of a sample and of a difference that wrapped.
RunningIsUsageLessIdle ==
  \A s \in { now.stat, Diff } :
    /\ GetRunning(s) = Word(GetUsage(s) - GetIdle(s))
    /\ GetUsage(s) = Total(s)

\* A sample never has a number the kernel did not show: a failure that nobody
\* looks at leaves zeros, and before them at most the largest number for the one
\* that did not fit (Stat(), sysstats.cc:101-116).
FailureLeavesZeros ==
  \E n \in 0..Len(Members) :
    \A i \in DOMAIN Members :
      LET value == now.stat[Members[i]]
      IN  \/ i <= n /\ value = now.line[i]
          \/ /\ i = n + 1
             /\ value = IF i \in DOMAIN now.line THEN ULongModulus - 1 ELSE 0
          \/ i > n + 1 /\ value = 0

\* The label that says what a member is, by the comments of the members
\* (stat.h:51-60) and the names of the two that have none.
LabelOf ==
  [user |-> "Normal processes", nice |-> "Niced processes", system |-> "Kernel mode",
   idle |-> "IDLE", iowait |-> "Waiting for I/O", irq |-> "Interrupts",
   softirq |-> "Soft IRQS", steal |-> "Involuntary wait",
   guest |-> "Running a normal guest", guest_nice |-> "Running a niced guest",
   total |-> "Total use of CPU"]

\* The lists that go by the same positions agree: whatever field is asked for,
\* by its name or by the type the configuration gives, it is the member of that
\* name, under that name and the label of that member; an unknown field is
\* refused, and none asked for is the total.
FieldsAgree ==
  /\ \A text \in Member \cup { "total" } :
       LET ix == TypeOfNode(text)
       IN  /\ ix \in TypeSet
           /\ ToString(ix) = text
           /\ GetLabel(ix) = LabelOf[text]
           /\ ValueOfName(now.stat, text)
                = IF text = "total" THEN Total(now.stat) ELSE now.stat[text]
  /\ TypeOfNode(Absent) = TypeFactory("total")
  /\ TypeOfNode(Unknown) = Refused
  /\ \A ix \in TypeSet : TypeFactory(ToString(ix)) = ix

\* What is free or total in an Info, in bytes, is the share of the other that it
\* is in the kernel's units, although the bytes outgrow the type the kernel gives
\* its numbers in (sysinfo.cc:42-49).
InfoKeepsShares ==
  info.what = "info" =>
    \A f, g \in Sizes :
      info.got.sizes[f] * info.given.sizes[g] = info.given.sizes[f] * info.got.sizes[g]
=============================================================================
