-------------------------- MODULE MCSystemSampler --------------------------
(***************************************************************************)
(* An instance of SystemSampler for TLC: words of three bits, and a        *)
(* machine with more bytes than such a word counts.                        *)
(***************************************************************************)
EXTENDS SystemSampler

MCSysinfo(free, unit) ==
  [uptime |-> 10 + free, procs |-> free, loads |-> << 3, 2, 1 >>, mem_unit |-> unit,
   sizes |-> [f \in Sizes |-> CASE f \in { "totalram", "totalswap" } -> 7
                                [] f = "freeram" -> free
                                [] OTHER -> 2]]

MCSysinfos == { MCSysinfo(5, 4), MCSysinfo(6, 4) }

=============================================================================
