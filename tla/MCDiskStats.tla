----------------------------- MODULE MCDiskStats -----------------------------
(***************************************************************************)
(* An instance of DiskStats for TLC: a SCSI disk, and an NVMe disk with a  *)
(* partition, both of the extended major; names plain, with directories,   *)
(* with a slash at the end, of no device, and none.                        *)
(***************************************************************************)
EXTENDS DiskStats

MCDevices == << "sda", "nvme0n1", "nvme0n1p1" >>

MCMajor == [d \in { "sda", "nvme0n1", "nvme0n1p1" } |-> IF d = "sda" THEN 8 ELSE 259]

MCMinor == [d \in { "sda", "nvme0n1", "nvme0n1p1" } |-> IF d = "nvme0n1p1" THEN 1 ELSE 0]

MCWhole == [d \in { "sda", "nvme0n1", "nvme0n1p1" } |->
              IF d = "nvme0n1p1" THEN "nvme0n1" ELSE d]

MCPaths == { << "" >>, << "sda" >>, << "", "dev", "nvme0n1" >>, << "sda", "" >>,
             << "", "dev", "" >>, << "", "dev", "sda", "" >>,
             << "dev", "nvme0n1p1" >>, << "nvme0n1", "nvme0n1p1", "" >> }

=============================================================================
