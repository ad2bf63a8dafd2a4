--------------------------------- MODULE Sums ---------------------------------
(***************************************************************************)
(* The sum of the values of a function on a finite set.                    *)
(***************************************************************************)
EXTENDS Integers, FiniteSetsExt

Sum(f, S) == MapThenSumSet(LAMBDA x : f[x], S)
=============================================================================
