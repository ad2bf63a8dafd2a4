------------------------- MODULE MCStorageController -------------------------
(***************************************************************************)
(* Instances of StorageController for TLC: two physical disks, a loop      *)
(* device, a partition, and actions with and without an interval of their  *)
(* own.                                                                    *)
(***************************************************************************)
EXTENDS StorageController

CONSTANTS sda, sdb, sda1, loop0, slow, fast, silent, badUnit

MCKind == [n \in Names |-> IF n = loop0 THEN "virtual"
                           ELSE IF n = sda1 THEN "partition"
                           ELSE "physical"]

MCUnitIsValid == [a \in Actions |-> a # badUnit]

MCTimerInterval == [a \in Actions |-> IF a = slow THEN 90000
                                      ELSE IF a = fast THEN 1000
                                      ELSE 0]

=============================================================================
