----------------------------- MODULE WindowsDisk -----------------------------
(***************************************************************************)
(* The Windows disk check (checks_d/windows_disk.py, Disk.check), called   *)
(* again and again by the collector.  One call walks the partitions psutil *)
(* lists, in order, and emits a usage gauge per accessible partition, then *)
(* io rates per physical disk, then the rolled-up totals.  The dimensions  *)
(* dict of the call is shared by all of these; the set of logged partition *)
(* errors lives as long as the check object.                               *)
(*                                                                         *)
(* Data abstraction.  A partition is a model value with its device, mount  *)
(* point, file system type and sizes given by constants; a sample is a     *)
(* record of its metric, device_name, mount_point dimension and value.     *)
(* The six io.* rates of a disk are one sample: they share their           *)
(* dimensions.                                                             *)
(***************************************************************************)
EXTENDS Naturals, Sequences, FiniteSets

CONSTANTS
    PartSeq,      \* psutil.disk_partitions(all=True), in its order
    Device,       \* partition.device, with '\' replaced by '/'
    Mount,        \* partition.mountpoint, with '\' replaced by '/'
    FsType,       \* partition.fstype
    Capacity,     \* disk_usage(mountpoint).total, in bytes
    Used,         \* disk_usage(mountpoint).used, in bytes
    IoDevices,    \* the keys of psutil.disk_io_counters(perdisk=True)
    Configs,      \* the instances the check may be configured with
    NoMount,      \* no mount_point dimension
    MaxDay        \* the days the model lets pass

Partitions == {PartSeq[i] : i \in DOMAIN PartSeq}

\* instance.get("use_mount"/"send_io_stats"/"send_rollup_stats"), the
\* file system types _get_fs_exclusions returns and the partitions whose
\* device device_blacklist_re matches; None gives the defaults of 52-57.
Config == [useMount : BOOLEAN, sendIo : BOOLEAN, sendRollup : BOOLEAN,
           ignoreFs : SUBSET {FsType[p] : p \in Partitions},
           blacklisted : SUBSET Partitions]
NoneConfig == [useMount |-> TRUE, sendIo |-> TRUE, sendRollup |-> FALSE,
               ignoreFs |-> {}, blacklisted |-> {}]

ASSUME DiskAssumption ==
    /\ PartSeq \in Seq(Partitions)
    /\ \A i, j \in DOMAIN PartSeq : PartSeq[i] = PartSeq[j] => i = j
    /\ \A p, q \in Partitions : Device[p] = Device[q] => p = q
    /\ \A p \in Partitions : Capacity[p] \in Nat /\ Used[p] \in Nat
    /\ NoMount \notin {Mount[p] : p \in Partitions}
    /\ Configs \subseteq Config \cup {NoneConfig}
    /\ MaxDay \in Nat

MiB == 1048576

VARIABLES
    cfg,        \* the instance of this check
    pc,         \* "idle" between calls, else the loop the call is in
    i,          \* the index of the next partition of the loop
    mount,      \* dimensions['mount_point'] of the running call
    totalCap,   \* total_capacity
    totalUsed,  \* total_used
    samples,    \* the samples the running (or last) call emitted
    partErr,    \* self._partition_error
    day,        \* the current day
    failDays,   \* the days on which a partition could not be accessed
    logDays     \* the days on which that error was logged

vars == <<cfg, pc, i, mount, totalCap, totalUsed, samples, partErr, day,
          failDays, logDays>>

Sample == [metric : {"disk.space_used_perc", "io", "disk.total_space_mb",
                     "disk.total_used_space_mb"},
           device : {Device[p] : p \in Partitions} \cup IoDevices \cup {NoMount},
           mount : {Mount[p] : p \in Partitions} \cup {NoMount},
           value : Seq(Nat)]

\* A partition is skipped without a word when its type is ignored or its
\* device is blacklisted (66-68).
Selected(p) == FsType[p] \notin cfg.ignoreFs /\ p \notin cfg.blacklisted

\* x / 1048576 under Python 3: kept as the fraction it denotes; the io
\* counters are not modelled (an empty value).
InMiB(x) == <<x, MiB>>

Init ==
    /\ cfg \in Configs
    /\ pc = "idle"
    /\ i = 1
    /\ mount = NoMount
    /\ totalCap = 0 /\ totalUsed = 0
    /\ samples = {}
    /\ partErr = {}
    /\ day = 0
    /\ failDays = [p \in Partitions |-> {}]
    /\ logDays = [p \in Partitions |-> {}]

\* Mutants of Start: totals kept from the last call; a 0-based index.
StartKeepTotals ==
    /\ pc = "idle"
    /\ pc' = "parts"
    /\ i' = 1
    /\ mount' = NoMount
    /\ samples' = {}
    /\ UNCHANGED <<cfg, totalCap, totalUsed, partErr, day, failDays, logDays>>
StartZeroIndex ==
    /\ pc = "idle"
    /\ pc' = "parts"
    /\ i' = 0
    /\ mount' = NoMount
    /\ totalCap' = 0 /\ totalUsed' = 0
    /\ samples' = {}
    /\ UNCHANGED <<cfg, partErr, day, failDays, logDays>>

\* check() starts: fresh dimensions without mount_point, zero totals.
Start ==
    /\ pc = "idle"
    /\ pc' = "parts"
    /\ i' = 1
    /\ mount' = NoMount
    /\ totalCap' = 0 /\ totalUsed' = 0
    /\ samples' = {}
    /\ UNCHANGED <<cfg, partErr, day, failDays, logDays>>

\* A partition that is filtered out.
SkipPartition ==
    /\ pc = "parts" /\ i <= Len(PartSeq)
    /\ ~Selected(PartSeq[i])
    /\ i' = i + 1
    /\ UNCHANGED <<cfg, pc, mount, totalCap, totalUsed, samples, partErr, day,
                   failDays, logDays>>

\* _log_once_per_day(message): the message of partition p is logged unless
\* it is in _partition_error, and put there.
LogOncePerDay(p) ==
    IF p \in partErr
    THEN UNCHANGED <<partErr, logDays>>
    ELSE /\ partErr' = partErr \cup {p}
         /\ logDays' = [logDays EXCEPT ![p] = @ \cup {day}]

\* disk_usage(mountpoint) raises (a drive that is not ready, no access):
\* _log_once_per_day logs the message unless it is in _partition_error.
PartitionFails ==
    /\ pc = "parts" /\ i <= Len(PartSeq)
    /\ LET p == PartSeq[i] IN
       /\ Selected(p)
       /\ failDays' = [failDays EXCEPT ![p] = @ \cup {day}]
       /\ LogOncePerDay(p)
    /\ i' = i + 1
    /\ UNCHANGED <<cfg, pc, mount, totalCap, totalUsed, samples, day>>

\* disk_usage succeeds: the totals grow, the shared dimensions get this
\* partition's mount_point (if use_mount) and the usage gauge is sent.
PartitionGauge ==
    /\ pc = "parts" /\ i <= Len(PartSeq)
    /\ LET p == PartSeq[i] IN
       /\ Selected(p)
       /\ totalCap' = totalCap + Capacity[p]
       /\ totalUsed' = totalUsed + Used[p]
       /\ mount' = IF cfg.useMount THEN Mount[p] ELSE mount
       /\ samples' = samples \cup
             {[metric |-> "disk.space_used_perc", device |-> Device[p],
               mount |-> mount', value |-> <<Used[p] * 100, Capacity[p]>>]}
    /\ i' = i + 1
    /\ UNCHANGED <<cfg, pc, partErr, day, failDays, logDays>>

\* After the partitions: the io rates of every disk, with the dimensions
\* the partition loop left behind.
IoRates ==
    /\ pc = "parts" /\ i > Len(PartSeq)
    /\ samples' = IF cfg.sendIo
                  THEN samples \cup
                        {[metric |-> "io", device |-> d, mount |-> mount,
                          value |-> <<>>] : d \in IoDevices}
                  ELSE samples
    /\ pc' = "rollup"
    /\ UNCHANGED <<cfg, i, mount, totalCap, totalUsed, partErr, day,
                   failDays, logDays>>

\* The two rolled-up gauges, with the dimensions copied before the loop.
Rollup ==
    /\ pc = "rollup"
    /\ samples' = IF cfg.sendRollup
                  THEN samples \cup
                        {[metric |-> "disk.total_space_mb", device |-> NoMount,
                          mount |-> NoMount, value |-> InMiB(totalCap)],
                         [metric |-> "disk.total_used_space_mb", device |-> NoMount,
                          mount |-> NoMount, value |-> InMiB(totalUsed)]}
                  ELSE samples
    /\ pc' = "idle"
    /\ UNCHANGED <<cfg, i, mount, totalCap, totalUsed, partErr, day,
                   failDays, logDays>>

\* Time passes between two calls.
NewDay ==
    /\ pc = "idle" /\ day < MaxDay
    /\ day' = day + 1
    /\ UNCHANGED <<cfg, pc, i, mount, totalCap, totalUsed, samples, partErr,
                   failDays, logDays>>

Next ==
    \/ Start \/ SkipPartition \/ PartitionFails \/ PartitionGauge
    \/ IoRates \/ Rollup \/ NewDay

Spec == Init /\ [][Next]_vars

-----------------------------------------------------------------------------

TypeOK ==
    /\ cfg \in Config \cup {NoneConfig}
    /\ pc \in {"idle", "parts", "rollup"}
    /\ i \in 1 .. Len(PartSeq) + 1
    /\ mount \in {Mount[p] : p \in Partitions} \cup {NoMount}
    /\ totalCap \in Nat /\ totalUsed \in Nat
    /\ samples \subseteq Sample
    /\ partErr \subseteq Partitions
    /\ day \in 0 .. MaxDay
    /\ failDays \in [Partitions -> SUBSET (0 .. MaxDay)]
    /\ logDays \in [Partitions -> SUBSET (0 .. MaxDay)]

\* The partitions whose usage gauge the call sent, and the mount point the
\* device of a sample really has (none for a physical disk of io counters).
Gauged == {p \in Partitions :
             \E s \in samples : s.metric = "disk.space_used_perc" /\ s.device = Device[p]}
MountOf(dev) == IF \E p \in Partitions : Device[p] = dev
                THEN Mount[CHOOSE p \in Partitions : Device[p] = dev]
                ELSE NoMount

\* The sum of w over the finite set S.
SumOver(w, S) ==
    LET sum[T \in SUBSET S] ==
            IF T = {} THEN 0
            ELSE LET p == CHOOSE q \in T : TRUE IN w[p] + sum[T \ {p}]
    IN  sum[S]

\* The rolled-up gauges of a call (send_rollup_stats) add up capacity and
\* use over exactly the partitions whose usage gauge the same call sent: not
\* the filtered ones, not those disk_usage failed on, not an earlier call's.
RollupMatchesGauges ==
    \A s \in samples :
        /\ s.metric = "disk.total_space_mb" =>
              s.value = InMiB(SumOver(Capacity, Gauged))
        /\ s.metric = "disk.total_used_space_mb" =>
              s.value = InMiB(SumOver(Used, Gauged))

\* Every sample the call sends carries, if any, the mount_point of its own
\* device -- the io.* rates included (dimensions must not leak between the
\* samples of a call).
SampleMountOwn ==
    \A s \in samples : s.mount # NoMount => s.mount = MountOf(s.device)

\* What the name _log_once_per_day promises: an inaccessible partition is
\* logged on every day it fails, once.
LoggedEachDay == \A p \in Partitions : failDays[p] \subseteq logDays[p]

=============================================================================
