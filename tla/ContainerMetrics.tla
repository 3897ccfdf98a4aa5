--------------------------- MODULE ContainerMetrics ---------------------------
(***************************************************************************)
(* The stats loop of a Kubernetes check cycle in detail                    *)
(* (checks_d/kubernetes.py, _process_containers after the two cAdvisor     *)
(* GETs, with _parse_memory, _parse_filesystem, _parse_network,            *)
(* _parse_cpu, _add_pod_metric, _send_metrics and the two pod flushes),    *)
(* over the tables CADVISOR_METRICS and METRIC_TYPES_UNITS.                *)
(*                                                                         *)
(* The correlation of a container with its pod is KubernetesCheck's; here  *)
(* each container comes with the pod_key and the dimensions it gives.  The *)
(* dimension dicts are objects: cdims is the container_dimensions of the   *)
(* container in hand, which _send_metrics changes in place, and the copies *)
(* made for a device or an interface live only inside their section.       *)
(*                                                                         *)
(* Data abstraction.  A value is a fraction <<numerator, denominator>>: a  *)
(* counter is <<n, 1>>, Python 3's ns / 1000000000 is <<ns, 10^9>>, and    *)
(* the float += of _add_pod_metric is AddFrac, exact.  Python's floats     *)
(* round both to double precision; the model idealizes them as exact       *)
(* rationals, so it can show Python 2's truncation but no rounding error.  *)
(* Python 2's division is <<ns \div 10^9, 1>>.  The 10^9 is the constant   *)
(* NsPerSecond, which TLC's 32-bit integers take smaller.                  *)
(* Every sample and pod sum carries, as a ghost, the raw counter it stands *)
(* for.                                                                    *)
(***************************************************************************)
EXTENDS Naturals, Sequences, FiniteSets

CONSTANTS
    Containers,     \* the keys of the stats document
    PodKeyOf,       \* the pod_key _get_container_dimensions gives, or NoPod
    CtrDims,        \* the container_dimensions it gives
    PodDims,        \* pod_dimension_map
    Snapshots,      \* the first stats entries a container may have
    EmptySeries,    \* a stats entry whose series is empty
    ReportContainerMetrics,
    Python3,
    NsPerSecond,    \* the 1000000000 of _parse_cpu
    NoPod,
    NoFault

\* The values of a function (a dict's values()).
Range(f) == {f[x] : x \in DOMAIN f}

\* list.index(x): the first position of x in the list.
Index(seq, x) == CHOOSE j \in DOMAIN seq : seq[j] = x /\ \A i \in 1 .. j - 1 : seq[i] # x

\* CADVISOR_METRICS.
CpuTable == [x \in {"system", "total", "user"} |->
               CASE x = "system" -> "cpu.system_time" [] x = "total" -> "cpu.total_time"
                 [] x = "user" -> "cpu.user_time"]
MemoryTable == [x \in {"rss", "swap", "cache", "usage", "failcnt"} |->
               CASE x = "rss" -> "mem.rss_bytes" [] x = "swap" -> "mem.swap_bytes"
                 [] x = "cache" -> "mem.cache_bytes" [] x = "usage" -> "mem.used_bytes"
                 [] x = "failcnt" -> "mem.fail_count"]
FilesystemTable == [x \in {"capacity", "usage", "writes_completed", "reads_completes",
                           "io_in_progress"} |->
               CASE x = "capacity" -> "fs.total_bytes" [] x = "usage" -> "fs.usage_bytes"
                 [] x = "writes_completed" -> "fs.writes"
                 [] x = "reads_completes" -> "fs.reads"
                 [] x = "io_in_progress" -> "fs.io_current"]
NetworkTable == [x \in {"rx_bytes", "tx_bytes", "rx_packets", "tx_packets"} |->
               CASE x = "rx_bytes" -> "net.in_bytes" [] x = "tx_bytes" -> "net.out_bytes"
                 [] x = "rx_packets" -> "net.in_packets" [] x = "tx_packets" -> "net.out_packets"]

\* METRIC_TYPES_UNITS: (types, units) of each canonical name.
GR == <<"gauge", "rate">>
G == <<"gauge">>
METRIC_TYPES_UNITS ==
    [m \in Range(CpuTable) \cup Range(MemoryTable) \cup Range(FilesystemTable)
           \cup Range(NetworkTable) |->
        CASE m \in Range(CpuTable) -> <<GR, <<"core_seconds", "cores_seconds_per_second">>>>
          [] m = "mem.fail_count" -> <<G, <<"count">>>>
          [] m \in (Range(MemoryTable) \ {"mem.fail_count"})
                  \cup {"fs.total_bytes", "fs.usage_bytes", "fs.io_current"} -> <<G, <<"bytes">>>>
          [] m \in {"fs.writes", "fs.reads", "net.in_bytes", "net.out_bytes"} ->
                <<GR, <<"bytes", "bytes_per_second">>>>
          [] OTHER -> <<GR, <<"packets", "packets_per_second">>>>]

\* The counters of a stats entry are naturals, as cAdvisor reports them.
IsNatDict(f) == \A x \in DOMAIN f : f[x] \in Nat
IsSnapshot(s) ==
    /\ IsNatDict(s.memory) /\ IsNatDict(s.cpu)
    /\ \A j \in DOMAIN s.fs : IsNatDict(s.fs[j].fields)
    /\ \A j \in DOMAIN s.net : IsNatDict(s.net[j].fields)

ASSUME MetricsAssumption ==
    /\ ReportContainerMetrics \in BOOLEAN
    /\ Python3 \in BOOLEAN
    /\ NsPerSecond \in Nat \ {0}
    /\ \A c \in Containers : Snapshots[c] # {}
    /\ \A c \in Containers : \A s \in Snapshots[c] \ {EmptySeries} : IsSnapshot(s)

VARIABLES
    pending,   \* the stats entries the loop has still to process
    sec,       \* "loop", the section of the entry in hand, or "done"
    snap,      \* cadvisor_metrics[0] of the entry in hand
    cur,       \* its container
    cdims,     \* its container_dimensions (a dict changed in place)
    podAcc,    \* pod_metrics: pod_key -> metric -> [value, raw]
    netAcc,    \* pod_network_metrics: pod_key -> interface -> metric -> [value, raw]
    samples,   \* what the cycle sent: container and pod samples
    fault      \* the exception that escaped the loop

vars == <<pending, sec, snap, cur, cdims, podAcc, netAcc, samples, fault>>

Put(d, k, v) == [x \in DOMAIN d \cup {k} |-> IF x = k THEN v ELSE d[x]]
AddFrac(a, b) == IF a[2] = b[2] THEN <<a[1] + b[1], a[2]>>
                ELSE <<a[1] * b[2] + b[1] * a[2], a[2] * b[2]>>

\* Mutant of SendMetrics: the unit is never set.
SendMetricsNoUnit(name, m, value, raw, dims) ==
    {[name |-> IF t = "rate" THEN name \o "_sec" ELSE name, metric |-> m, kind |-> t,
      dims |-> dims, value |-> value, raw |-> raw] : t \in Range(METRIC_TYPES_UNITS[m][1])}

\* _send_metrics: one sample per kind of the metric, name + "_sec" for the
\* rate, with dimensions['unit'] set to units[types.index(kind)].
SendMetrics(name, m, value, raw, dims) ==
    LET types == METRIC_TYPES_UNITS[m][1]
        units == METRIC_TYPES_UNITS[m][2]
    IN  {[name |-> IF t = "rate" THEN name \o "_sec" ELSE name, metric |-> m, kind |-> t,
          dims |-> Put(dims, "unit", units[Index(types, t)]),
          value |-> value, raw |-> raw] : t \in Range(types)}

\* The unit _send_metrics leaves in the dict: that of the last kind.
LastUnit(m) == METRIC_TYPES_UNITS[m][2][Len(METRIC_TYPES_UNITS[m][2])]

\* The fields of data that a table names, as canonical name -> raw value.
Fields(data, table) == [m \in {table[k] : k \in DOMAIN data \cap DOMAIN table} |->
                          data[CHOOSE k \in DOMAIN data \cap DOMAIN table : table[k] = m]]

\* Mutant of Merge: a metric already summed is overwritten, not added to.
MergeOverwrite(old, vals) ==
    [m \in DOMAIN old \cup DOMAIN vals |->
        IF m \notin DOMAIN vals THEN old[m]
        ELSE IF m \notin DOMAIN old THEN vals[m]
        ELSE [value |-> vals[m].value, raw |-> old[m].raw + vals[m].raw]]

\* The metrics of one dict of sums with a section's values added: each is
\* set when new and added to otherwise.
Merge(old, vals) ==
    [m \in DOMAIN old \cup DOMAIN vals |->
        IF m \notin DOMAIN vals THEN old[m]
        ELSE IF m \notin DOMAIN old THEN vals[m]
        ELSE [value |-> AddFrac(old[m].value, vals[m].value),
              raw |-> old[m].raw + vals[m].raw]]

\* Mutant of AddPodMetrics: pod_metrics[pod_key] = {} without the check
\* that the pod_key is new.
AddPodMetricsReset(acc, key, vals) ==
    IF key = NoPod \/ DOMAIN vals = {} THEN acc
    ELSE Put(acc, key, Merge([m \in {} |-> key], vals))

\* _add_pod_metric for all the metrics of a section at once (their names
\* are distinct); nothing when pod_key is None or no field is present.
AddPodMetrics(acc, key, vals) ==
    IF key = NoPod \/ DOMAIN vals = {} THEN acc
    ELSE Put(acc, key, Merge(IF key \in DOMAIN acc THEN acc[key] ELSE [m \in {} |-> key],
                             vals))

\* ns / NsPerSecond under the interpreter the agent runs on.
CpuSeconds(ns) == IF Python3 THEN <<ns, NsPerSecond>> ELSE <<ns \div NsPerSecond, 1>>

Init ==
    /\ pending = Containers
    /\ sec = "loop"
    /\ snap = EmptySeries
    /\ cur = NoPod
    /\ cdims = [x \in {} |-> NoPod]
    /\ podAcc = [x \in {} |-> NoPod]
    /\ netAcc = [x \in {} |-> NoPod]
    /\ samples = {}
    /\ fault = NoFault

\* The next entry of containers_metrics.items(); cadvisor_metrics[0] of an
\* empty series raises IndexError, which ends the cycle.
NextContainer ==
    /\ sec = "loop"
    /\ \E c \in pending : \E s \in Snapshots[c] :
          IF s = EmptySeries
          THEN /\ fault' = "IndexError"
               /\ sec' = "done"
               /\ UNCHANGED <<pending, snap, cur, cdims>>
          ELSE /\ cur' = c
               /\ snap' = s
               /\ cdims' = CtrDims[c]
               /\ sec' = "memory"
               /\ UNCHANGED <<pending, fault>>
    /\ UNCHANGED <<podAcc, netAcc, samples>>

\* _parse_memory, if has_memory and memory.
ParseMemory ==
    /\ sec = "memory"
    /\ LET vals == [m \in DOMAIN Fields(snap.memory, MemoryTable) |->
                      [value |-> <<Fields(snap.memory, MemoryTable)[m], 1>>,
                       raw |-> Fields(snap.memory, MemoryTable)[m]]]
       IN  /\ samples' = IF ReportContainerMetrics
                         THEN samples \cup UNION {SendMetrics("container." \o m, m,
                                   vals[m].value, vals[m].raw, cdims) : m \in DOMAIN vals}
                         ELSE samples
           /\ \E m \in DOMAIN vals \cup {"none"} :
                 cdims' = IF ReportContainerMetrics /\ m # "none"
                          THEN Put(cdims, "unit", LastUnit(m)) ELSE cdims
           /\ podAcc' = AddPodMetrics(podAcc, PodKeyOf[cur], vals)
    /\ sec' = "fs"
    /\ UNCHANGED <<pending, snap, cur, netAcc, fault>>

\* Mutant of ParseFilesystem: no copy, the device is set on
\* container_dimensions itself.
ParseFilesystemNoCopy ==
    /\ sec = "fs"
    /\ samples' =
          IF ReportContainerMetrics
          THEN samples \cup
               UNION {LET fdims == Put(cdims, "device", snap.fs[j].device)
                          vals == Fields(snap.fs[j].fields, FilesystemTable)
                      IN  UNION {SendMetrics("container." \o m, m, <<vals[m], 1>>,
                                             vals[m], fdims) : m \in DOMAIN vals}
                      : j \in DOMAIN snap.fs}
          ELSE samples
    /\ cdims' = IF ReportContainerMetrics /\ snap.fs # <<>>
                THEN Put(cdims, "device", snap.fs[Len(snap.fs)].device) ELSE cdims
    /\ sec' = "net"
    /\ UNCHANGED <<pending, snap, cur, podAcc, netAcc, fault>>

\* _parse_filesystem (only with report_container_metrics): per device, a
\* copy of container_dimensions with 'device'.
ParseFilesystem ==
    /\ sec = "fs"
    /\ samples' =
          IF ReportContainerMetrics
          THEN samples \cup
               UNION {LET fdims == Put(cdims, "device", snap.fs[j].device)
                          vals == Fields(snap.fs[j].fields, FilesystemTable)
                      IN  UNION {SendMetrics("container." \o m, m, <<vals[m], 1>>,
                                             vals[m], fdims) : m \in DOMAIN vals}
                      : j \in DOMAIN snap.fs}
          ELSE samples
    /\ sec' = "net"
    /\ UNCHANGED <<pending, snap, cur, cdims, podAcc, netAcc, fault>>

\* _parse_network, if has_network and network: per interface, a copy of
\* container_dimensions with 'interface'; sums per pod and interface.
ParseNetwork ==
    /\ sec = "net"
    /\ LET ifs == snap.net
           vals(n) == LET f == Fields(ifs[CHOOSE j \in DOMAIN ifs : ifs[j].name = n].fields,
                                      NetworkTable)
                      IN  [m \in DOMAIN f |-> [value |-> <<f[m], 1>>, raw |-> f[m]]]
           names == {n \in {ifs[j].name : j \in DOMAIN ifs} : DOMAIN vals(n) # {}}
           key == PodKeyOf[cur]
           old == IF key \in DOMAIN netAcc THEN netAcc[key] ELSE [n \in {} |-> key]
       IN  /\ samples' = IF ReportContainerMetrics
                         THEN samples \cup
                              UNION {UNION {SendMetrics("container." \o m, m, vals(n)[m].value,
                                                        vals(n)[m].raw,
                                                        Put(cdims, "interface", n))
                                            : m \in DOMAIN vals(n)} : n \in names}
                         ELSE samples
           /\ netAcc' = IF key = NoPod \/ names = {} THEN netAcc
                        ELSE Put(netAcc, key,
                                 [n \in DOMAIN old \cup names |->
                                    IF n \notin names THEN old[n]
                                    ELSE Merge(IF n \in DOMAIN old THEN old[n]
                                               ELSE [m \in {} |-> n], vals(n))])
    /\ sec' = "cpu"
    /\ UNCHANGED <<pending, snap, cur, cdims, podAcc, fault>>

\* _parse_cpu, if has_cpu and cpu: nanoseconds to seconds; then the loop
\* goes on with the next entry.
ParseCpu ==
    /\ sec = "cpu"
    /\ LET vals == [m \in DOMAIN Fields(snap.cpu, CpuTable) |->
                      [value |-> CpuSeconds(Fields(snap.cpu, CpuTable)[m]),
                       raw |-> Fields(snap.cpu, CpuTable)[m]]]
       IN  /\ samples' = IF ReportContainerMetrics
                         THEN samples \cup UNION {SendMetrics("container." \o m, m,
                                   vals[m].value, vals[m].raw, cdims) : m \in DOMAIN vals}
                         ELSE samples
           /\ \E m \in DOMAIN vals \cup {"none"} :
                 cdims' = IF ReportContainerMetrics /\ m # "none"
                          THEN Put(cdims, "unit", LastUnit(m)) ELSE cdims
           /\ podAcc' = AddPodMetrics(podAcc, PodKeyOf[cur], vals)
    /\ pending' = pending \ {cur}
    /\ sec' = "loop"
    /\ UNCHANGED <<snap, cur, netAcc, fault>>

\* send_pod_metrics and send_network_pod_metrics.
Flush ==
    /\ sec = "loop" /\ pending = {}
    /\ samples' = samples
          \cup (UNION {UNION {SendMetrics("pod." \o m, m, podAcc[k][m].value, podAcc[k][m].raw,
                                          PodDims[k]) : m \in DOMAIN podAcc[k]}
                       : k \in DOMAIN podAcc})
          \cup (UNION {UNION {UNION {SendMetrics("pod." \o m, m, netAcc[k][n][m].value,
                                                 netAcc[k][n][m].raw,
                                                 Put(PodDims[k], "interface", n))
                                     : m \in DOMAIN netAcc[k][n]} : n \in DOMAIN netAcc[k]}
                       : k \in DOMAIN netAcc})
    /\ sec' = "done"
    /\ UNCHANGED <<pending, snap, cur, cdims, podAcc, netAcc, fault>>

\* The collector calls check() again: a new stats loop with empty sums.
NewCycle ==
    /\ sec = "done"
    /\ pending' = Containers
    /\ sec' = "loop"
    /\ podAcc' = [x \in {} |-> NoPod]
    /\ netAcc' = [x \in {} |-> NoPod]
    /\ samples' = {}
    /\ fault' = NoFault
    /\ UNCHANGED <<snap, cur, cdims>>

Next ==
    \/ NewCycle \/ NextContainer \/ ParseMemory \/ ParseFilesystem \/ ParseNetwork
    \/ ParseCpu \/ Flush

Spec == Init /\ [][Next]_vars

-----------------------------------------------------------------------------

Metrics == DOMAIN METRIC_TYPES_UNITS
Frac == Nat \X (Nat \ {0})

TypeOK ==
    /\ sec \in {"loop", "memory", "fs", "net", "cpu", "done"}
    /\ pending \subseteq Containers
    /\ \A s \in samples :
          /\ s.metric \in Metrics /\ s.kind \in {"gauge", "rate"}
          /\ "unit" \in DOMAIN s.dims
          /\ s.value \in Frac /\ s.raw \in Nat
    /\ \A k \in DOMAIN podAcc : DOMAIN podAcc[k] \subseteq Metrics
    /\ fault \in {NoFault, "IndexError"}

\* Every cpu sample, of a container or summed over a pod, is the exact
\* number of seconds in the nanoseconds it stands for (spec section 4.4:
\* divide by 1,000,000,000; section 4.5: pod values are true sums).
CpuSecondsExact ==
    \A s \in samples : s.metric \in Range(CpuTable) =>
        s.value[1] * NsPerSecond = s.raw * s.value[2]

\* A sample has a device dimension exactly when it is a filesystem metric,
\* and an interface dimension exactly when it is a network metric: the
\* copies per device and per interface never leak into each other or into
\* the container's own samples (spec section 4.3).
NoLeafLeak ==
    \A s \in samples :
        /\ ("device" \in DOMAIN s.dims) <=> s.metric \in Range(FilesystemTable)
        /\ ("interface" \in DOMAIN s.dims) <=> s.metric \in Range(NetworkTable)

\* The fraction a is at most the fraction b (positive denominators).
FracLeq(a, b) == a[1] * b[2] <= b[1] * a[2]

\* Every sum of a dict of sums is kept, and its value not made smaller.
SumsKept(old, new) ==
    \A m \in DOMAIN old : m \in DOMAIN new /\ FracLeq(old[m].value, new[m].value)

\* A step that keeps every pod sum, unless it starts a new cycle.
PodSumsGrowStep ==
    \/ sec = "done"
    \/ /\ \A k \in DOMAIN podAcc : k \in DOMAIN podAcc' /\ SumsKept(podAcc[k], podAcc'[k])
       /\ \A k \in DOMAIN netAcc : k \in DOMAIN netAcc' /\
             \A n \in DOMAIN netAcc[k] :
                n \in DOMAIN netAcc'[k] /\ SumsKept(netAcc[k][n], netAcc'[k][n])

\* Within a cycle no step loses or lowers a pod sum: a pod's metric, once
\* in pod_metrics or pod_network_metrics, stays there and the value the
\* flush will send only grows while the other sections and containers of
\* the pod add to it with += (only the next call of check() starts from
\* empty dicts).
PodSumsOnlyGrow == [][PodSumsGrowStep]_vars

\* A cycle whose stats GET succeeded is never cut short by an exception in
\* the stats loop (the pod sums of the earlier containers are then lost).
StatsLoopNeverRaises == fault = NoFault


=============================================================================
