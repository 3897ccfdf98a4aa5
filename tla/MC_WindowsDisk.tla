---------------------------- MODULE MC_WindowsDisk ----------------------------
(* A system drive, a CD drive that may be empty and a network drive; the   *)
(* io counters list one physical disk.  Sizes are distinct so that every   *)
(* set of partitions has its own total.                                    *)
EXTENDS WindowsDisk, TLC

CONSTANTS c, d, z

MCPartSeq == <<c, d, z>>
MCDevice == (c :> "C:/") @@ (d :> "D:/") @@ (z :> "Z:/")
MCMount == (c :> "C:/") @@ (d :> "D:/") @@ (z :> "Z:/")
MCFsType == (c :> "NTFS") @@ (d :> "CDFS") @@ (z :> "NTFS")
MCCapacity == (c :> 4 * 1048576) @@ (d :> 2 * 1048576) @@ (z :> 1048576 + 7)
MCUsed == (c :> 3 * 1048576) @@ (d :> 2 * 1048576) @@ (z :> 5)
MCIoDevices == {"PhysicalDrive0"}
\* No instance (the defaults), all statistics, and a filtered instance.
MCConfigs ==
    {[useMount |-> TRUE, sendIo |-> TRUE, sendRollup |-> FALSE,
      ignoreFs |-> {}, blacklisted |-> {}],
     [useMount |-> TRUE, sendIo |-> TRUE, sendRollup |-> TRUE,
      ignoreFs |-> {}, blacklisted |-> {}],
     [useMount |-> FALSE, sendIo |-> FALSE, sendRollup |-> TRUE,
      ignoreFs |-> {"CDFS"}, blacklisted |-> {z}]}

=============================================================================
