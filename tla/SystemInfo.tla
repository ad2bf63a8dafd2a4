------------------------------ MODULE SystemInfo ------------------------------
(***************************************************************************)
(* System::Info (src/library/os/linux/sysinfo.cc) and the agent of the up  *)
(* time (src/library/uptime.cc), what they make of the kernel's struct     *)
(* sysinfo: the sizes, which the kernel gives in units that make them fit  *)
(* an unsigned long, become bytes in a wider type; the up time is the      *)
(* agent's value, but is left in an Info as the memory happens to be.      *)
(***************************************************************************)
EXTENDS Integers

CONSTANTS
  ULongModulus,     \* one more than the largest unsigned long
  ULongLongModulus  \* one more than the largest unsigned long long

Sizes ==
  { "totalram", "freeram", "sharedram", "bufferram", "totalswap", "freeswap" }

\* Mutant of InBytes: the product is as narrow as its factors.
InBytesNarrow(n, unit) == (n * unit) % ULongModulus

InBytes(n, unit) == (n * unit) % ULongLongModulus

\* Info(), of the struct and what its own memory held before.
Info(sys, before) ==
  [procs  |-> sys.procs,
   loads  |-> [ix \in 1..3 |-> sys.loads[ix]],
   sizes  |-> [f \in Sizes |-> InBytes(sys.sizes[f], sys.mem_unit)],
   uptime |-> before]

\* UpTime::get().
UpTime(sys) == sys.uptime
=============================================================================
