------------------------------ MODULE DiskWatch ------------------------------
(***************************************************************************)
(* What the storage controller promises the actions it serves, without its *)
(* vector, its constructors' steps and its timer handler: disks come under *)
(* watch one by one and stay, and from the first action served on, a timer *)
(* ticks at the shortest interval any of them asked for, a minute at most. *)
(***************************************************************************)
EXTENDS Integers

CONSTANTS
  Disks,          \* the disks that may come under watch
  Actions,        \* the actions that may be served
  TimerInterval,  \* [Actions -> Nat]: what each asks for, 0 for no wish
  LongestInterval

VARIABLES
  watched,  \* the disks under watch
  served,   \* the actions served
  period    \* the timer's interval, 0 while it is off

vars == <<watched, served, period>>

Wishes(as) == {LongestInterval} \union ({TimerInterval[a] : a \in as} \ {0})

Init == watched = {} /\ served = {} /\ period = 0

Watch == \E n \in Disks \ watched :
           /\ watched' = watched \union {n}
           /\ UNCHANGED <<served, period>>

Serve == \E a \in Actions \ served :
           /\ served' = served \union {a}
           /\ period' \in Wishes(served')
           /\ \A p \in Wishes(served') : period' <= p
           /\ UNCHANGED watched

Next == Watch \/ Serve

Spec == Init /\ [][Next]_vars

=============================================================================
