---------------------------- MODULE MCUsageAgent ----------------------------
(***************************************************************************)
(* An instance of UsageAgent for TLC: only the agent of the memory has     *)
(* states of its own.                                                      *)
(***************************************************************************)
EXTENDS UsageAgent

MCStatesOf ==
  [k \in Kinds |-> IF k = "memory"
                   THEN << [from |-> 30, to |-> 60, level |-> "unimportant"],
                           [from |-> 50, to |-> 85, level |-> "critical"] >>
                   ELSE << >>]

=============================================================================
