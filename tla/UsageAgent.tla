----------------------------- MODULE UsageAgent -----------------------------
(***************************************************************************)
(* An agent of the load average, of the memory or of the swap, and the     *)
(* kernel behind it (src/library/loadavg.cc, os/linux/memoryusage.cc,      *)
(* swapusage.cc).  The framework builds it, starts it and refreshes it on  *)
(* a timer; each refresh reads the kernel and sets a value between 0 and   *)
(* 1, of which computeState() makes a state.  A value is the fraction the  *)
(* code divides, [n, d]; d = 0 is the float that is not a number.  A read  *)
(* that fails throws before anything is set, so it is no step.             *)
(***************************************************************************)
EXTENDS Integers, Sequences

CONSTANTS
  Loads,         \* the averages the kernel may show, in hundredths
  CoreCounts,    \* how many processors may be on line
  MinutesValues, \* the values the attribute "minutes" may have
  MemTotal,      \* the size of the memory
  SwapTotals,    \* the sizes the swap may have
  StatesOf       \* the states the configuration gives an agent of each kind

Kinds == { "load", "memory", "swap" }
Levels == << "none", "unimportant", "ready", "warning", "error", "critical" >>
LevelSet == { Levels[i] : i \in DOMAIN Levels }
Severity(level) == CHOOSE i \in DOMAIN Levels : Levels[i] = level

VARIABLES
  kind,      \* what the agent measures
  minutes,   \* its attribute
  loads,     \* the kernel's averages of 1, 5 and 15 minutes
  cores,     \* the processors on line
  total,     \* the size of the memory or of the swap
  free,      \* what of it is available
  readable,  \* whether the kernel's files and calls can be read
  phase,     \* the life of the agent
  type,      \* LoadAverage::type, the index of its average
  counted,   \* LoadAverage::cores
  value,     \* the value the framework shows
  state      \* the level of the state it shows

kernel == << loads, cores, total, free, readable >>
agent == << phase, type, counted, value, state >>
vars == << kind, minutes, kernel, agent >>

ASSUME UsageAgentAssumption ==
  /\ Loads \subseteq Nat
  /\ CoreCounts \subseteq Nat
  /\ MinutesValues \subseteq Nat
  /\ MemTotal \in Nat \ {0}
  /\ SwapTotals \subseteq Nat
  /\ StatesOf \in [Kinds -> Seq([from : Nat, to : Nat, level : LevelSet])]

-----------------------------------------------------------------------------
\* The averages that setup() knows, in the order of getloadavg().
Averages == << 1, 5, 15 >>

\* The parameter of setup() has eight bits.
Narrow(m) == m % 256

\* The default states of the three agents: a value below max, in per cent, is of
\* that level.
LoadStates ==
  << [max |-> 50,  level |-> "ready"],
     [max |-> 80,  level |-> "warning"],
     [max |-> 95,  level |-> "error"],
     [max |-> 100, level |-> "critical"] >>

MemoryStates ==
  << [max |-> 80,  level |-> "ready"],
     [max |-> 90,  level |-> "warning"],
     [max |-> 100, level |-> "error"] >>

\* Mutant of SwapStates: two levels are in each other's place.
SwapStatesSwapped ==
  << [max |-> 10,  level |-> "ready"],
     [max |-> 50,  level |-> "warning"],
     [max |-> 80,  level |-> "ready"],
     [max |-> 90,  level |-> "error"],
     [max |-> 100, level |-> "critical"] >>

SwapStates ==
  << [max |-> 10,  level |-> "ready"],
     [max |-> 50,  level |-> "ready"],
     [max |-> 80,  level |-> "warning"],
     [max |-> 90,  level |-> "error"],
     [max |-> 100, level |-> "critical"] >>

DefaultStates ==
  [k \in Kinds |-> CASE k = "load" -> LoadStates
                     [] k = "memory" -> MemoryStates
                     [] k = "swap" -> SwapStates]

\* Comparisons with a value that is not a number are false.
Below(v, percent) == v.d # 0 /\ 100 * v.n < percent * v.d

\* compare() of a state of the configuration, whose bounds belong to it.
Matches(s, v) == v.d # 0 /\ ~Below(v, s.from) /\ 100 * v.n <= s.to * v.d

First(indices) == CHOOSE i \in indices : \A j \in indices : i <= j

\* computeState(): the first state of the configuration that matches, else the
\* first default state whose maximum is above the value, else the framework's.
\* Mutant of ComputeState: the maximum belongs to the state below.
ComputeStateUpTo(k, v) ==
  LET own == { i \in DOMAIN StatesOf[k] : Matches(StatesOf[k][i], v) }
      above == { i \in DOMAIN DefaultStates[k] :
                   v.d # 0 /\ 100 * v.n <= DefaultStates[k][i].max * v.d }
  IN  IF own # {} THEN StatesOf[k][First(own)].level
      ELSE IF above # {} THEN DefaultStates[k][First(above)].level
      ELSE "none"

ComputeState(k, v) ==
  LET own == { i \in DOMAIN StatesOf[k] : Matches(StatesOf[k][i], v) }
      above == { i \in DOMAIN DefaultStates[k] :
                   Below(v, DefaultStates[k][i].max) }
  IN  IF own # {} THEN StatesOf[k][First(own)].level
      ELSE IF above # {} THEN DefaultStates[k][First(above)].level
      ELSE "none"

\* LoadAverage::refresh(): the load per core, at most 100, over 100.
\* Mutant of LoadValue: the load per core is not limited.
LoadValueUnlimited(load, n) == [n |-> load, d |-> 10000 * n]

LoadValue(load, n) ==
  IF load > 10000 * n THEN [n |-> 1, d |-> 1] ELSE [n |-> load, d |-> 10000 * n]

\* get_scaled(): a number of /proc/meminfo and the letter of its unit.
Scaled(n, unit) ==
  n * (CASE unit = "k" -> 1024 [] unit = "M" -> 1048576 [] OTHER -> 1)

\* MemoryUsage::refresh(); meminfo is in kilobytes.
MemoryValue(all, available) ==
  [n |-> Scaled(all, "k") - Scaled(available, "k"), d |-> Scaled(all, "k")]

\* SwapUsage::refresh().
SwapValue(all, rest) == [n |-> all - rest, d |-> all]

\* What refresh() sets.
Reading ==
  CASE kind = "load"   -> LoadValue(loads[type + 1], counted)
    [] kind = "memory" -> MemoryValue(total, free)
    [] kind = "swap"   -> SwapValue(total, free)

-----------------------------------------------------------------------------
Init ==
  /\ kind \in Kinds
  /\ minutes \in IF kind = "load" THEN MinutesValues ELSE { 5 }
  /\ loads \in [1..3 -> { 0 }]
  /\ cores \in IF kind = "load" THEN CoreCounts ELSE { 1 }
  /\ total \in CASE kind = "load" -> { 0 }
                 [] kind = "memory" -> { MemTotal }
                 [] kind = "swap" -> SwapTotals
  /\ free = total
  /\ readable = TRUE
  /\ phase = "configured"
  /\ type = 0
  /\ counted = 0
  /\ value = [n |-> 0, d |-> 1]
  /\ state = "none"

\* setup(): the processors are counted; the assignment of the index of the
\* average is to the loop's own variable.
SetupLoad ==
  /\ phase = "configured"
  /\ kind = "load"
  /\ readable
  /\ counted' = cores
  /\ phase' = IF \E i \in DOMAIN Averages : Averages[i] = Narrow(minutes)
              THEN "built" ELSE "refused"
  /\ UNCHANGED << kind, minutes, kernel, type, value, state >>

\* The constructors of the others, and of an agent whose /proc/cpuinfo cannot
\* be read.
Construct ==
  /\ phase = "configured"
  /\ \/ kind # "load" /\ phase' = "built"
     \/ kind = "load" /\ ~readable /\ phase' = "refused"
  /\ UNCHANGED << kind, minutes, kernel, type, counted, value, state >>

\* set(), in the framework: the value is shown, and its state.
Set(v) ==
  /\ value' = v
  /\ state' = ComputeState(kind, v)

\* start(): a refresh, then the framework's start.
Start ==
  /\ phase = "built"
  /\ readable
  /\ Set(Reading)
  /\ phase' = "started"
  /\ UNCHANGED << kind, minutes, kernel, type, counted >>

\* Mutant of Refresh: a value once shown is not replaced by a smaller one.
RefreshRises ==
  /\ phase = "started"
  /\ readable
  /\ Reading.n * value.d >= value.n * Reading.d
  /\ Set(Reading)
  /\ UNCHANGED << kind, minutes, kernel, phase, type, counted >>

Refresh ==
  /\ phase = "started"
  /\ readable
  /\ Set(Reading)
  /\ UNCHANGED << kind, minutes, kernel, phase, type, counted >>

\* The kernel: averages move, processors come and go, memory and swap fill,
\* the swap is turned on or off, and /proc is there or not.
LoadChanges ==
  /\ kind = "load"
  /\ \E i \in 1..3 : \E l \in Loads : loads' = [loads EXCEPT ![i] = l]
  /\ UNCHANGED << kind, minutes, cores, total, free, readable, agent >>

CoresChange ==
  /\ kind = "load"
  /\ cores' \in CoreCounts
  /\ UNCHANGED << kind, minutes, loads, total, free, readable, agent >>

FreeChanges ==
  /\ kind # "load"
  /\ free' \in 0..total
  /\ UNCHANGED << kind, minutes, loads, cores, total, readable, agent >>

SwapChanges ==
  /\ kind = "swap"
  /\ total' \in SwapTotals
  /\ free' = total'
  /\ UNCHANGED << kind, minutes, loads, cores, readable, agent >>

ReadableChanges ==
  /\ readable' = ~readable
  /\ UNCHANGED << kind, minutes, loads, cores, total, free, agent >>

Kernel ==
  LoadChanges \/ CoresChange \/ FreeChanges \/ SwapChanges \/ ReadableChanges

Next == SetupLoad \/ Construct \/ Start \/ Refresh \/ Kernel

Spec == Init /\ [][Next]_vars

\* The framework builds and starts the agents and refreshes them for ever.
FairSpec == Spec /\ WF_vars(SetupLoad \/ Construct) /\ WF_vars(Start) /\ WF_vars(Refresh)

-----------------------------------------------------------------------------
\* A share of a whole, or no number.
IsShare(v) == v.n \in Nat /\ v.d \in Nat /\ v.n <= v.d

\* The types; the value shown never leaves 0 to 1, whatever the load is.
TypeOK ==
  /\ kind \in Kinds
  /\ phase \in { "configured", "refused", "built", "started" }
  /\ type \in 0..2
  /\ counted \in Nat
  /\ free \in 0..total
  /\ IsShare(value)
  /\ state \in LevelSet

Started == phase = "started"

\* The value lies in the interval of the i-th default state.
InInterval(i) ==
  LET table == DefaultStates[kind]
  IN  Below(value, table[i].max) /\ (i > 1 => ~Below(value, table[i - 1].max))

\* The state shown is that of the value shown, whatever failed since: the first
\* state of the configuration that matches, as the loop of computeState() finds
\* it; if none does, that of the one interval of the default states that the
\* value lies in, its lower bound included.  Of a value that is 1, or no number,
\* without a matching state it says nothing: there the code finds no default
\* state, although the last has 1 for its "State max value" (loadavg.cc:192).
StateIsOfInterval ==
  Started =>
    LET own == { i \in DOMAIN StatesOf[kind] : Matches(StatesOf[kind][i], value) }
    IN  IF own # {}
        THEN \E i \in own : /\ \A j \in own : i <= j
                            /\ state = StatesOf[kind][i].level
        ELSE Below(value, 100) =>
               \E i \in DOMAIN DefaultStates[kind] :
                 InInterval(i) /\ state = DefaultStates[kind][i].level

\* A value that grows does not become less severe, as long as it is below its
\* maximum and the configuration has no states of its own.
WorseIsNotBetter ==
  [][/\ Started /\ StatesOf[kind] = << >>
     /\ Below(value', 100) /\ value'.n * value.d >= value.n * value'.d
     /\ Below(value, 100)
     => Severity(state') >= Severity(state)]_vars

\* Once the kernel has settled, can be read and the agent is started, the value
\* is the kernel's, whatever it was before.
ValueFollows ==
  []<><<Kernel>>_vars \/ <>[](phase = "refused" \/ ~readable \/ value = Reading)

\* A load agent that shows a load shows the one it is configured with and
\* labelled for ("Average system load in the last five minutes", loadavg.cc:142),
\* as a share of the processors that is full when the average is one for each:
\* "multiply it by 100 (to convert to percents), divide by number of CPU/cores.
\* If the value is greater than 100, truncate it to 100" (loadavg.cc:25-26).
LoadIsAsDocumented ==
  [][kind = "load" /\ phase' = "started" /\ value'.n > 0 /\ counted > 0 =>
       \E i \in DOMAIN Averages :
         /\ Averages[i] = minutes
         /\ IF loads[i] >= 100 * counted
            THEN value'.n = value'.d
            ELSE value'.n * 100 * counted = loads[i] * value'.d]_<< value, state >>
=============================================================================
