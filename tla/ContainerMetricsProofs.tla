----------------------- MODULE ContainerMetricsProofs -----------------------
(***************************************************************************)
(* Proofs about ContainerMetrics for every value of the constants: the     *)
(* samples of the stats loop and of the pod flushes are well typed, carry  *)
(* only their own device or interface dimension and, under Python 3, the  *)
(* exact seconds, and no pod sum is lost or lowered within a cycle.        *)
(***************************************************************************)
EXTENDS ContainerMetrics, TLAPS

USE MetricsAssumption

-----------------------------------------------------------------------------
(* The unit catalog.                                                       *)

\* Each metric of the catalog is a gauge, or a gauge and a rate.
LEMMA CatalogTypes ==
    ASSUME NEW m \in Metrics PROVE METRIC_TYPES_UNITS[m][1] \in {GR, G}
BY DEF Metrics, METRIC_TYPES_UNITS

\* A sample _send_metrics sends is about the metric, value and counter it
\* was given, and is a gauge or a rate.
LEMMA SendMetricsFacts ==
    ASSUME NEW name, NEW m \in Metrics, NEW value, NEW raw, NEW dims,
           NEW s \in SendMetrics(name, m, value, raw, dims)
    PROVE  /\ s.metric = m /\ s.value = value /\ s.raw = raw
           /\ s.kind \in {"gauge", "rate"}
<1> DEFINE types == METRIC_TYPES_UNITS[m][1]
           units == METRIC_TYPES_UNITS[m][2]
<1>1. PICK t \in Range(types) :
          s = [name |-> IF t = "rate" THEN name \o "_sec" ELSE name, metric |-> m,
               kind |-> t, dims |-> Put(dims, "unit", units[Index(types, t)]),
               value |-> value, raw |-> raw]
  BY DEF SendMetrics
<1>2. t \in {"gauge", "rate"}
  BY CatalogTypes DEF Range, GR, G
<1>3. QED BY <1>1, <1>2

\* The dimensions of a sample _send_metrics sends are the given ones plus
\* 'unit' (the unit is written into the dict in place).
LEMMA SendMetricsDims ==
    ASSUME NEW name, NEW m, NEW value, NEW raw, NEW dims,
           NEW s \in SendMetrics(name, m, value, raw, dims)
    PROVE  DOMAIN s.dims = DOMAIN dims \cup {"unit"}
<1> DEFINE types == METRIC_TYPES_UNITS[m][1]
           units == METRIC_TYPES_UNITS[m][2]
<1>1. PICK t \in Range(types) :
          s.dims = Put(dims, "unit", units[Index(types, t)])
  BY DEF SendMetrics
<1>2. QED BY <1>1 DEF Put

-----------------------------------------------------------------------------
(* What each step sends.                                                   *)

\* The facts SendMetricsFacts and SendMetricsDims give about one sample.
Sent(s, m, value, raw, dims) ==
    /\ s.metric = m /\ s.value = value /\ s.raw = raw
    /\ s.kind \in {"gauge", "rate"}
    /\ DOMAIN s.dims = DOMAIN dims \cup {"unit"}

\* The canonical names of the four tables are names of the catalog.
LEMMA TablesInCatalog ==
    /\ Range(CpuTable) \subseteq Metrics
    /\ Range(MemoryTable) \subseteq Metrics
    /\ Range(FilesystemTable) \subseteq Metrics
    /\ Range(NetworkTable) \subseteq Metrics
BY DEF Metrics, METRIC_TYPES_UNITS

\* The fields a table picks out of a dict are named by the table.
LEMMA FieldsNames ==
    ASSUME NEW data, NEW table PROVE DOMAIN Fields(data, table) \subseteq Range(table)
BY DEF Fields, Range

\* The fields of a dict of naturals are naturals.
LEMMA FieldsNat ==
    ASSUME NEW data, NEW table, IsNatDict(data), NEW m \in DOMAIN Fields(data, table)
    PROVE  Fields(data, table)[m] \in Nat
BY DEF Fields, IsNatDict

\* _parse_memory sends, for each memory field, the field as a count with
\* the container's dimensions.
LEMMA MemorySamples ==
    ASSUME ParseMemory, NEW s \in samples' \ samples
    PROVE  LET F == Fields(snap.memory, MemoryTable)
           IN  \E m \in DOMAIN F : Sent(s, m, <<F[m], 1>>, F[m], cdims)
<1> DEFINE F == Fields(snap.memory, MemoryTable)
<1>1. PICK m \in DOMAIN F :
          s \in SendMetrics("container." \o m, m, <<F[m], 1>>, F[m], cdims)
  BY DEF ParseMemory
<1>2. m \in Metrics
  BY FieldsNames, TablesInCatalog
<1>3. Sent(s, m, <<F[m], 1>>, F[m], cdims)
  BY <1>1, <1>2, SendMetricsFacts, SendMetricsDims DEF Sent
<1>4. QED BY <1>3

\* _parse_filesystem sends, per device, its fields as counts with a copy of
\* the container's dimensions that has 'device'.
LEMMA FilesystemSamples ==
    ASSUME ParseFilesystem, NEW s \in samples' \ samples
    PROVE  \E j \in DOMAIN snap.fs :
              LET F == Fields(snap.fs[j].fields, FilesystemTable)
              IN  \E m \in DOMAIN F :
                     Sent(s, m, <<F[m], 1>>, F[m], Put(cdims, "device", snap.fs[j].device))
<1>1. PICK j \in DOMAIN snap.fs :
          LET F == Fields(snap.fs[j].fields, FilesystemTable)
          IN  \E m \in DOMAIN F :
                s \in SendMetrics("container." \o m, m, <<F[m], 1>>, F[m],
                                 Put(cdims, "device", snap.fs[j].device))
  BY DEF ParseFilesystem
<1> DEFINE F == Fields(snap.fs[j].fields, FilesystemTable)
<1>2. PICK m \in DOMAIN F :
          s \in SendMetrics("container." \o m, m, <<F[m], 1>>, F[m],
                           Put(cdims, "device", snap.fs[j].device))
  BY <1>1
<1>3. m \in Metrics
  BY FieldsNames, TablesInCatalog
<1>4. Sent(s, m, <<F[m], 1>>, F[m], Put(cdims, "device", snap.fs[j].device))
  BY <1>2, <1>3, SendMetricsFacts, SendMetricsDims DEF Sent
<1>5. QED BY <1>4

\* The fields _parse_network reads for the interface named n.
NetFields(n) ==
    Fields(snap.net[CHOOSE j \in DOMAIN snap.net : snap.net[j].name = n].fields, NetworkTable)

\* _parse_network sends, per interface, its fields as counts with a copy of
\* the container's dimensions that has 'interface'.
LEMMA NetworkSamples ==
    ASSUME ParseNetwork, NEW s \in samples' \ samples
    PROVE  \E n \in {snap.net[j].name : j \in DOMAIN snap.net} :
              \E m \in DOMAIN NetFields(n) :
                 Sent(s, m, <<NetFields(n)[m], 1>>, NetFields(n)[m],
                      Put(cdims, "interface", n))
<1> DEFINE NV(n) == [m \in DOMAIN NetFields(n) |->
                      [value |-> <<NetFields(n)[m], 1>>, raw |-> NetFields(n)[m]]]
           Names == {n \in {snap.net[j].name : j \in DOMAIN snap.net} : DOMAIN NV(n) # {}}
<1>0. s \in UNION {UNION {SendMetrics("container." \o m, m, NV(n)[m].value, NV(n)[m].raw,
                                     Put(cdims, "interface", n))
                         : m \in DOMAIN NV(n)} : n \in Names}
  BY DEF ParseNetwork, NetFields
<1>1. PICK n \in {snap.net[j].name : j \in DOMAIN snap.net} :
          \E m \in DOMAIN NetFields(n) :
             s \in SendMetrics("container." \o m, m, <<NetFields(n)[m], 1>>,
                              NetFields(n)[m], Put(cdims, "interface", n))
  BY <1>0
<1>2. PICK m \in DOMAIN NetFields(n) :
          s \in SendMetrics("container." \o m, m, <<NetFields(n)[m], 1>>,
                           NetFields(n)[m], Put(cdims, "interface", n))
  BY <1>1
<1>3. m \in Metrics
  BY FieldsNames, TablesInCatalog DEF NetFields
<1>4. Sent(s, m, <<NetFields(n)[m], 1>>, NetFields(n)[m], Put(cdims, "interface", n))
  BY <1>2, <1>3, SendMetricsFacts, SendMetricsDims DEF Sent
<1>5. QED BY <1>4

\* _parse_cpu sends, for each cpu field, the seconds CpuSeconds gives with
\* the container's dimensions.
LEMMA CpuSamples ==
    ASSUME ParseCpu, NEW s \in samples' \ samples
    PROVE  LET F == Fields(snap.cpu, CpuTable)
           IN  \E m \in DOMAIN F : Sent(s, m, CpuSeconds(F[m]), F[m], cdims)
<1> DEFINE F == Fields(snap.cpu, CpuTable)
<1>1. PICK m \in DOMAIN F :
          s \in SendMetrics("container." \o m, m, CpuSeconds(F[m]), F[m], cdims)
  BY DEF ParseCpu
<1>2. m \in Metrics
  BY FieldsNames, TablesInCatalog
<1>3. Sent(s, m, CpuSeconds(F[m]), F[m], cdims)
  BY <1>1, <1>2, SendMetricsFacts, SendMetricsDims DEF Sent
<1>4. QED BY <1>3

\* pod_metrics holds only memory and cpu names, pod_network_metrics only
\* network names.
AccNames ==
    /\ \A k \in DOMAIN podAcc : DOMAIN podAcc[k] \subseteq Range(MemoryTable) \cup Range(CpuTable)
    /\ \A k \in DOMAIN netAcc : \A n \in DOMAIN netAcc[k] :
          DOMAIN netAcc[k][n] \subseteq Range(NetworkTable)

\* The flush sends, per pod_key and metric, the sum with the pod's
\* dimensions, and per pod_key, interface and metric, the sum with a copy
\* of them that has 'interface'.
LEMMA FlushSamples ==
    ASSUME AccNames, Flush, NEW s \in samples' \ samples
    PROVE  \/ \E k \in DOMAIN podAcc : \E m \in DOMAIN podAcc[k] :
                 Sent(s, m, podAcc[k][m].value, podAcc[k][m].raw, PodDims[k])
           \/ \E k \in DOMAIN netAcc : \E n \in DOMAIN netAcc[k] : \E m \in DOMAIN netAcc[k][n] :
                 Sent(s, m, netAcc[k][n][m].value, netAcc[k][n][m].raw,
                      Put(PodDims[k], "interface", n))
<1> DEFINE A == UNION {UNION {SendMetrics("pod." \o m, m, podAcc[k][m].value, podAcc[k][m].raw,
                                       PodDims[k]) : m \in DOMAIN podAcc[k]}
                    : k \in DOMAIN podAcc}
            B == UNION {UNION {UNION {SendMetrics("pod." \o m, m, netAcc[k][n][m].value,
                                              netAcc[k][n][m].raw,
                                              Put(PodDims[k], "interface", n))
                                  : m \in DOMAIN netAcc[k][n]} : n \in DOMAIN netAcc[k]}
                    : k \in DOMAIN netAcc}
<1>0. s \in A \/ s \in B
  <2>1. samples' = samples \cup A \cup B
    BY DEF Flush, A, B
  <2>2. QED BY <2>1
<1>1. CASE s \in A
  <2>1. PICK k \in DOMAIN podAcc : \E m \in DOMAIN podAcc[k] :
              s \in SendMetrics("pod." \o m, m, podAcc[k][m].value, podAcc[k][m].raw,
                               PodDims[k])
    BY <1>1
  <2>2. PICK m \in DOMAIN podAcc[k] :
              s \in SendMetrics("pod." \o m, m, podAcc[k][m].value, podAcc[k][m].raw,
                               PodDims[k])
    BY <2>1
  <2>3. m \in Metrics
    BY TablesInCatalog DEF AccNames
  <2>4. ASSUME NEW x \in SendMetrics("pod." \o m, m, podAcc[k][m].value, podAcc[k][m].raw,
                                     PodDims[k])
        PROVE  Sent(x, m, podAcc[k][m].value, podAcc[k][m].raw, PodDims[k])
    BY <2>3, SendMetricsFacts, SendMetricsDims DEF Sent
  <2>5. QED BY <2>2, <2>4
<1>2. CASE s \in B
  <2>1. PICK k \in DOMAIN netAcc : \E n \in DOMAIN netAcc[k] : \E m \in DOMAIN netAcc[k][n] :
              s \in SendMetrics("pod." \o m, m, netAcc[k][n][m].value, netAcc[k][n][m].raw,
                               Put(PodDims[k], "interface", n))
    BY <1>2
  <2>2. PICK n \in DOMAIN netAcc[k] : \E m \in DOMAIN netAcc[k][n] :
              s \in SendMetrics("pod." \o m, m, netAcc[k][n][m].value, netAcc[k][n][m].raw,
                               Put(PodDims[k], "interface", n))
    BY <2>1
  <2>3. PICK m \in DOMAIN netAcc[k][n] :
              s \in SendMetrics("pod." \o m, m, netAcc[k][n][m].value, netAcc[k][n][m].raw,
                               Put(PodDims[k], "interface", n))
    BY <2>2
  <2>4. m \in Metrics
    BY TablesInCatalog DEF AccNames
  <2>5. Sent(s, m, netAcc[k][n][m].value, netAcc[k][n][m].raw,
             Put(PodDims[k], "interface", n))
    BY <2>3, <2>4, SendMetricsFacts, SendMetricsDims DEF Sent
  <2>6. QED BY <2>5
<1>3. QED BY <1>0, <1>1, <1>2

\* _add_pod_metric keeps the names of a pod's sums within a set that holds
\* the section's names.
LEMMA AddPodMetricsNames ==
    ASSUME NEW acc, NEW key, NEW vals, NEW S,
           \A k \in DOMAIN acc : DOMAIN acc[k] \subseteq S,
           DOMAIN vals \subseteq S
    PROVE  \A k \in DOMAIN AddPodMetrics(acc, key, vals) :
              DOMAIN AddPodMetrics(acc, key, vals)[k] \subseteq S
BY DEF AddPodMetrics, Put, Merge

\* Every step keeps the names of the pod sums within their tables.
LEMMA AccNamesStep == AccNames /\ [Next]_vars => AccNames'
<1> SUFFICES ASSUME AccNames, [Next]_vars PROVE AccNames'
  OBVIOUS
<1>1. CASE ParseMemory
  <2>1. DOMAIN [m \in DOMAIN Fields(snap.memory, MemoryTable) |->
                  [value |-> <<Fields(snap.memory, MemoryTable)[m], 1>>,
                   raw |-> Fields(snap.memory, MemoryTable)[m]]]
          \subseteq Range(MemoryTable) \cup Range(CpuTable)
    BY FieldsNames
  <2>2. QED BY <1>1, <2>1, AddPodMetricsNames DEF ParseMemory, AccNames
<1>2. CASE ParseCpu
  <2>1. DOMAIN [m \in DOMAIN Fields(snap.cpu, CpuTable) |->
                  [value |-> CpuSeconds(Fields(snap.cpu, CpuTable)[m]),
                   raw |-> Fields(snap.cpu, CpuTable)[m]]]
          \subseteq Range(MemoryTable) \cup Range(CpuTable)
    BY FieldsNames
  <2>2. QED BY <1>2, <2>1, AddPodMetricsNames DEF ParseCpu, AccNames
<1>3. CASE ParseNetwork
  <2>1. \A n : DOMAIN NetFields(n) \subseteq Range(NetworkTable)
    BY FieldsNames DEF NetFields
  <2> DEFINE key == PodKeyOf[cur]
              old == IF key \in DOMAIN netAcc THEN netAcc[key] ELSE [n \in {} |-> key]
              NV(n) == [m \in DOMAIN NetFields(n) |->
                          [value |-> <<NetFields(n)[m], 1>>, raw |-> NetFields(n)[m]]]
              names == {n \in {snap.net[j].name : j \in DOMAIN snap.net} : DOMAIN NV(n) # {}}
              new == [n \in DOMAIN old \cup names |->
                        IF n \notin names THEN old[n]
                        ELSE Merge(IF n \in DOMAIN old THEN old[n] ELSE [m \in {} |-> n], NV(n))]
  <2>2. netAcc' = IF key = NoPod \/ names = {} THEN netAcc ELSE Put(netAcc, key, new)
    BY <1>3 DEF ParseNetwork, NetFields
  <2>3. \A n \in DOMAIN old : DOMAIN old[n] \subseteq Range(NetworkTable)
    BY DEF AccNames
  <2>4. \A n \in DOMAIN new : DOMAIN new[n] \subseteq Range(NetworkTable)
    BY <2>1, <2>3 DEF Merge
  <2>5. podAcc' = podAcc
    BY <1>3 DEF ParseNetwork
  <2>6. \A k \in DOMAIN netAcc' : \A n \in DOMAIN netAcc'[k] :
            DOMAIN netAcc'[k][n] \subseteq Range(NetworkTable)
    <3> SUFFICES ASSUME NEW k \in DOMAIN netAcc'
                 PROVE  \A n \in DOMAIN netAcc'[k] : DOMAIN netAcc'[k][n] \subseteq Range(NetworkTable)
      OBVIOUS
    <3>1. CASE key = NoPod \/ names = {}
      BY <2>2, <3>1 DEF AccNames
    <3>2. CASE ~(key = NoPod \/ names = {})
      <4>1. netAcc' = Put(netAcc, key, new)
        BY <2>2, <3>2
      <4>2. CASE k = key
        <5>1. netAcc'[k] = new
          BY <4>1, <4>2 DEF Put
        <5>2. QED BY <2>4, <5>1
      <4>3. CASE k # key
        <5>1. k \in DOMAIN netAcc /\ netAcc'[k] = netAcc[k]
          BY <4>1, <4>3 DEF Put
        <5>2. QED BY <5>1 DEF AccNames
      <4>4. QED BY <4>2, <4>3
    <3>3. QED BY <3>1, <3>2
  <2>7. QED BY <2>5, <2>6 DEF AccNames
<1>4. CASE NewCycle
  BY <1>4 DEF NewCycle, AccNames
<1>5. CASE NextContainer \/ ParseFilesystem \/ Flush \/ UNCHANGED vars
  BY <1>5 DEF NextContainer, ParseFilesystem, Flush, vars, AccNames
<1>6. QED BY <1>1, <1>2, <1>3, <1>4, <1>5 DEF Next

-----------------------------------------------------------------------------
(* The inductive invariants.                                               *)

\* A dict of sums: each a fraction over a natural counter.
SumsTyped(d) == \A m \in DOMAIN d : d[m].value \in Frac /\ d[m].raw \in Nat

\* The sums of pod_metrics and pod_network_metrics are fractions over
\* natural counters.
AccTyped ==
    /\ \A k \in DOMAIN podAcc : SumsTyped(podAcc[k])
    /\ \A k \in DOMAIN netAcc : \A n \in DOMAIN netAcc[k] : SumsTyped(netAcc[k][n])

\* While a section is being parsed, the entry in hand is a non-empty stats
\* entry of one of the containers.
InHand ==
    sec \in {"memory", "fs", "net", "cpu"} =>
        cur \in Containers /\ snap \in Snapshots[cur] \ {EmptySeries}

\* The strengthening of TypeOK.
TypeInv == TypeOK /\ AccNames /\ AccTyped /\ InHand

\* A dimensions dict without the keys of the per-device and per-interface
\* copies.
LeafFree(d) == "device" \notin DOMAIN d /\ "interface" \notin DOMAIN d

\* The pod_keys the containers map to.
PodKeys == {PodKeyOf[c] : c \in Containers} \ {NoPod}

\* The configured dimensions of containers and of their pods have neither
\* 'device' nor 'interface' (they come from names, namespaces and the
\* kubernetes_labels of the instance).
LeafFreeDims ==
    /\ \A c \in Containers : LeafFree(CtrDims[c])
    /\ \A k \in PodKeys : LeafFree(PodDims[k])

\* The strengthening of NoLeafLeak: container_dimensions never keeps a
\* device or an interface, and the sums are kept only for pods.
LeafInv ==
    /\ TypeInv
    /\ LeafFree(cdims)
    /\ DOMAIN podAcc \subseteq PodKeys /\ DOMAIN netAcc \subseteq PodKeys
    /\ NoLeafLeak

\* The cpu sums of a dict are exact: value * 1000000000 = counter.
ExactSums(d) ==
    \A m \in DOMAIN d \cap Range(CpuTable) : d[m].value[1] * NsPerSecond = d[m].raw * d[m].value[2]

\* The cpu sums of pod_metrics are exact.
AccExact == \A k \in DOMAIN podAcc : ExactSums(podAcc[k])

\* The strengthening of CpuSecondsExact.
CpuInv == TypeInv /\ AccExact /\ CpuSecondsExact

-----------------------------------------------------------------------------
(* Types.                                                                  *)

\* The sum of two fractions is a fraction.
LEMMA AddFracType ==
    ASSUME NEW a \in Frac, NEW b \in Frac PROVE AddFrac(a, b) \in Frac
BY DEF AddFrac, Frac

\* Adding a section's values to a dict of sums keeps it typed.
LEMMA MergeTyped ==
    ASSUME NEW old, NEW vals, SumsTyped(old), SumsTyped(vals)
    PROVE  SumsTyped(Merge(old, vals))
<1> SUFFICES ASSUME NEW m \in DOMAIN old \cup DOMAIN vals
             PROVE  Merge(old, vals)[m].value \in Frac /\ Merge(old, vals)[m].raw \in Nat
  BY DEF SumsTyped, Merge
<1>1. CASE m \in DOMAIN old /\ m \in DOMAIN vals
  <2>1. AddFrac(old[m].value, vals[m].value) \in Frac
    BY <1>1, AddFracType DEF SumsTyped
  <2>2. QED BY <1>1, <2>1 DEF SumsTyped, Merge
<1>2. QED BY <1>1 DEF SumsTyped, Merge

\* _add_pod_metric keeps pod_metrics typed.
LEMMA AddPodMetricsTyped ==
    ASSUME NEW acc, NEW key, NEW vals,
           \A k \in DOMAIN acc : SumsTyped(acc[k]), SumsTyped(vals)
    PROVE  \A k \in DOMAIN AddPodMetrics(acc, key, vals) :
              SumsTyped(AddPodMetrics(acc, key, vals)[k])
<1>1. SumsTyped(IF key \in DOMAIN acc THEN acc[key] ELSE [m \in {} |-> key])
  BY DEF SumsTyped
<1>2. SumsTyped(Merge(IF key \in DOMAIN acc THEN acc[key] ELSE [m \in {} |-> key], vals))
  BY <1>1, MergeTyped
<1>3. QED BY <1>2 DEF AddPodMetrics, Put

\* The fields of an interface of a stats entry are naturals.
LEMMA NetFieldsNat ==
    ASSUME IsSnapshot(snap), NEW n \in {snap.net[j].name : j \in DOMAIN snap.net},
           NEW m \in DOMAIN NetFields(n)
    PROVE  NetFields(n)[m] \in Nat
<1> DEFINE j0 == CHOOSE j \in DOMAIN snap.net : snap.net[j].name = n
<1>1. j0 \in DOMAIN snap.net
  OBVIOUS
<1>2. IsNatDict(snap.net[j0].fields)
  BY <1>1 DEF IsSnapshot
<1>3. QED BY <1>2, FieldsNat DEF NetFields

\* A sample as TypeOK has it.
SampleTyped(s) ==
    /\ s.metric \in Metrics /\ s.kind \in {"gauge", "rate"}
    /\ "unit" \in DOMAIN s.dims
    /\ s.value \in Frac /\ s.raw \in Nat

\* What _send_metrics sends for a catalog name, a fraction and a counter is
\* typed.
LEMMA SentTyped ==
    ASSUME NEW s, NEW m \in Metrics, NEW v \in Frac, NEW r \in Nat, NEW d, Sent(s, m, v, r, d)
    PROVE  SampleTyped(s)
BY DEF Sent, SampleTyped

\* The samples stay typed when the new ones are.
LEMMA SamplesTypedStep ==
    ASSUME TypeOK, \A s \in samples' \ samples : SampleTyped(s)
    PROVE  \A s \in samples' : SampleTyped(s)
BY DEF TypeOK, SampleTyped

\* TypeOK of the next state, from its pieces.
LEMMA TypeOKNext ==
    ASSUME sec' \in {"loop", "memory", "fs", "net", "cpu", "done"},
           pending' \subseteq Containers,
           \A s \in samples' : SampleTyped(s),
           AccNames',
           fault' \in {NoFault, "IndexError"}
    PROVE  TypeOK'
BY TablesInCatalog DEF TypeOK, SampleTyped, AccNames

\* ns / 1000000000 is a fraction under both interpreters.
LEMMA CpuSecondsType ==
    ASSUME NEW n \in Nat PROVE CpuSeconds(n) \in Frac
BY DEF CpuSeconds, Frac

LEMMA TypeInit == Init => TypeInv
BY DEF Init, TypeInv, TypeOK, AccNames, AccTyped, InHand

LEMMA TypeStep == TypeInv /\ [Next]_vars => TypeInv'
<1> SUFFICES ASSUME TypeInv, [Next]_vars PROVE TypeInv'
  OBVIOUS
<1>0. AccNames'
  BY AccNamesStep DEF TypeInv
<1>1. CASE NextContainer
  <2>1. PICK c \in pending : \E sn \in Snapshots[c] :
            IF sn = EmptySeries
            THEN /\ fault' = "IndexError"
                 /\ sec' = "done"
                 /\ UNCHANGED <<pending, snap, cur, cdims>>
            ELSE /\ cur' = c
                 /\ snap' = sn
                 /\ cdims' = CtrDims[c]
                 /\ sec' = "memory"
                 /\ UNCHANGED <<pending, fault>>
    BY <1>1 DEF NextContainer
  <2>2. PICK sn \in Snapshots[c] :
            IF sn = EmptySeries
            THEN /\ fault' = "IndexError"
                 /\ sec' = "done"
                 /\ UNCHANGED <<pending, snap, cur, cdims>>
            ELSE /\ cur' = c
                 /\ snap' = sn
                 /\ cdims' = CtrDims[c]
                 /\ sec' = "memory"
                 /\ UNCHANGED <<pending, fault>>
    BY <2>1
  <2>3. c \in Containers /\ UNCHANGED <<podAcc, netAcc, samples>>
    BY <1>1 DEF NextContainer, TypeInv, TypeOK
  <2>4. \A s \in samples' : SampleTyped(s)
    BY <2>3, SamplesTypedStep DEF TypeInv
  <2>5. CASE sn = EmptySeries
    <3>1. TypeOK' BY <1>0, <2>2, <2>4, <2>5, TypeOKNext DEF TypeInv, TypeOK
    <3>2. QED BY <1>0, <2>2, <2>3, <2>5, <3>1 DEF TypeInv, AccTyped, InHand
  <2>6. CASE sn # EmptySeries
    <3>1. TypeOK' BY <1>0, <2>2, <2>4, <2>6, TypeOKNext DEF TypeInv, TypeOK
    <3>2. QED BY <1>0, <2>2, <2>3, <2>6, <3>1 DEF TypeInv, AccTyped, InHand
  <2>7. QED BY <2>5, <2>6
<1>2. CASE ParseMemory
  <2> DEFINE F == Fields(snap.memory, MemoryTable)
             vals == [m \in DOMAIN F |-> [value |-> <<F[m], 1>>, raw |-> F[m]]]
  <2>1. IsSnapshot(snap)
    BY <1>2 DEF ParseMemory, TypeInv, InHand
  <2>2. \A m \in DOMAIN F : F[m] \in Nat /\ m \in Metrics
    BY <2>1, FieldsNat, FieldsNames, TablesInCatalog DEF IsSnapshot
  <2>3. \A s \in samples' \ samples : SampleTyped(s)
    <3> SUFFICES ASSUME NEW s \in samples' \ samples PROVE SampleTyped(s)
      OBVIOUS
    <3>1. PICK m \in DOMAIN F : Sent(s, m, <<F[m], 1>>, F[m], cdims)
      BY <1>2, MemorySamples
    <3>2. QED BY <2>2, <3>1, SentTyped DEF Frac
  <2>4. SumsTyped(vals)
    BY <2>2 DEF SumsTyped, Frac
  <2>5. AccTyped'
    BY <1>2, <2>4, AddPodMetricsTyped DEF ParseMemory, TypeInv, AccTyped
  <2>6. TypeOK'
    BY <1>0, <1>2, <2>3, SamplesTypedStep, TypeOKNext DEF ParseMemory, TypeInv, TypeOK
  <2>7. QED BY <1>0, <1>2, <2>5, <2>6 DEF ParseMemory, TypeInv, InHand
<1>3. CASE ParseFilesystem
  <2>1. IsSnapshot(snap)
    BY <1>3 DEF ParseFilesystem, TypeInv, InHand
  <2>2. \A s \in samples' \ samples : SampleTyped(s)
    <3> SUFFICES ASSUME NEW s \in samples' \ samples PROVE SampleTyped(s)
      OBVIOUS
    <3>1. PICK j \in DOMAIN snap.fs :
              LET F == Fields(snap.fs[j].fields, FilesystemTable)
              IN  \E m \in DOMAIN F :
                     Sent(s, m, <<F[m], 1>>, F[m], Put(cdims, "device", snap.fs[j].device))
      BY <1>3, FilesystemSamples
    <3> DEFINE F == Fields(snap.fs[j].fields, FilesystemTable)
    <3>2. PICK m \in DOMAIN F :
              Sent(s, m, <<F[m], 1>>, F[m], Put(cdims, "device", snap.fs[j].device))
      BY <3>1
    <3>3. F[m] \in Nat /\ m \in Metrics
      BY <2>1, FieldsNat, FieldsNames, TablesInCatalog DEF IsSnapshot
    <3>4. QED BY <3>2, <3>3, SentTyped DEF Frac
  <2>3. TypeOK'
    BY <1>0, <1>3, <2>2, SamplesTypedStep, TypeOKNext DEF ParseFilesystem, TypeInv, TypeOK
  <2>4. QED BY <1>0, <1>3, <2>3 DEF ParseFilesystem, TypeInv, AccTyped, InHand
<1>4. CASE ParseNetwork
  <2> DEFINE key == PodKeyOf[cur]
             old == IF key \in DOMAIN netAcc THEN netAcc[key] ELSE [n \in {} |-> key]
             NV(n) == [m \in DOMAIN NetFields(n) |->
                         [value |-> <<NetFields(n)[m], 1>>, raw |-> NetFields(n)[m]]]
             Ifs == {snap.net[j].name : j \in DOMAIN snap.net}
             names == {n \in Ifs : DOMAIN NV(n) # {}}
             new == [n \in DOMAIN old \cup names |->
                       IF n \notin names THEN old[n]
                       ELSE Merge(IF n \in DOMAIN old THEN old[n] ELSE [m \in {} |-> n], NV(n))]
  <2>1. IsSnapshot(snap)
    BY <1>4 DEF ParseNetwork, TypeInv, InHand
  <2>2. \A n \in Ifs : \A m \in DOMAIN NetFields(n) :
            NetFields(n)[m] \in Nat /\ m \in Metrics
    BY <2>1, NetFieldsNat, FieldsNames, TablesInCatalog DEF NetFields
  <2>3. \A s \in samples' \ samples : SampleTyped(s)
    <3> SUFFICES ASSUME NEW s \in samples' \ samples PROVE SampleTyped(s)
      OBVIOUS
    <3>1. PICK n \in Ifs : \E m \in DOMAIN NetFields(n) :
              Sent(s, m, <<NetFields(n)[m], 1>>, NetFields(n)[m], Put(cdims, "interface", n))
      BY <1>4, NetworkSamples
    <3>2. PICK m \in DOMAIN NetFields(n) :
              Sent(s, m, <<NetFields(n)[m], 1>>, NetFields(n)[m], Put(cdims, "interface", n))
      BY <3>1
    <3>3. NetFields(n)[m] \in Nat /\ m \in Metrics
      BY <2>2
    <3>4. <<NetFields(n)[m], 1>> \in Frac
      BY <3>3 DEF Frac
    <3>5. QED BY <3>2, <3>3, <3>4, SentTyped
  <2>4. netAcc' = IF key = NoPod \/ names = {} THEN netAcc ELSE Put(netAcc, key, new)
    BY <1>4 DEF ParseNetwork, NetFields
  <2>5. \A n \in DOMAIN old : SumsTyped(old[n])
    BY DEF TypeInv, AccTyped
  <2>6. \A n \in names : SumsTyped(NV(n))
    BY <2>2 DEF SumsTyped, Frac
  <2>7. \A n \in DOMAIN new : SumsTyped(new[n])
    <3> SUFFICES ASSUME NEW n \in DOMAIN new PROVE SumsTyped(new[n])
      OBVIOUS
    <3>1. CASE n \notin names
      BY <2>5, <3>1
    <3>2. CASE n \in names
      <4>1. SumsTyped(IF n \in DOMAIN old THEN old[n] ELSE [m \in {} |-> n])
        BY <2>5 DEF SumsTyped
      <4>2. QED BY <2>6, <3>2, <4>1, MergeTyped
    <3>3. QED BY <3>1, <3>2
  <2>8. AccTyped'
    <3>1. podAcc' = podAcc
      BY <1>4 DEF ParseNetwork
    <3>2. \A k \in DOMAIN netAcc' : \A n \in DOMAIN netAcc'[k] : SumsTyped(netAcc'[k][n])
      <4>1. CASE key = NoPod \/ names = {}
        BY <2>4, <4>1 DEF TypeInv, AccTyped
      <4>2. CASE ~(key = NoPod \/ names = {})
        BY <2>4, <2>7, <4>2 DEF TypeInv, AccTyped, Put
      <4>3. QED BY <4>1, <4>2
    <3>3. QED BY <3>1, <3>2 DEF TypeInv, AccTyped
  <2>9. TypeOK'
    BY <1>0, <1>4, <2>3, SamplesTypedStep, TypeOKNext DEF ParseNetwork, TypeInv, TypeOK
  <2>10. QED BY <1>0, <1>4, <2>8, <2>9 DEF ParseNetwork, TypeInv, InHand
<1>5. CASE ParseCpu
  <2> DEFINE F == Fields(snap.cpu, CpuTable)
             vals == [m \in DOMAIN F |-> [value |-> CpuSeconds(F[m]), raw |-> F[m]]]
  <2>1. IsSnapshot(snap)
    BY <1>5 DEF ParseCpu, TypeInv, InHand
  <2>2. \A m \in DOMAIN F : F[m] \in Nat /\ m \in Metrics /\ CpuSeconds(F[m]) \in Frac
    BY <2>1, FieldsNat, FieldsNames, TablesInCatalog, CpuSecondsType DEF IsSnapshot
  <2>3. \A s \in samples' \ samples : SampleTyped(s)
    <3> SUFFICES ASSUME NEW s \in samples' \ samples PROVE SampleTyped(s)
      OBVIOUS
    <3>1. PICK m \in DOMAIN F : Sent(s, m, CpuSeconds(F[m]), F[m], cdims)
      BY <1>5, CpuSamples
    <3>2. QED BY <2>2, <3>1, SentTyped
  <2>4. SumsTyped(vals)
    BY <2>2 DEF SumsTyped
  <2>5. AccTyped'
    BY <1>5, <2>4, AddPodMetricsTyped DEF ParseCpu, TypeInv, AccTyped
  <2>6. TypeOK'
    BY <1>0, <1>5, <2>3, SamplesTypedStep, TypeOKNext DEF ParseCpu, TypeInv, TypeOK
  <2>7. QED BY <1>0, <1>5, <2>5, <2>6 DEF ParseCpu, TypeInv, InHand
<1>6. CASE Flush
  <2>1. \A s \in samples' \ samples : SampleTyped(s)
    <3> SUFFICES ASSUME NEW s \in samples' \ samples PROVE SampleTyped(s)
      OBVIOUS
    <3>1. CASE \E k \in DOMAIN podAcc : \E m \in DOMAIN podAcc[k] :
                 Sent(s, m, podAcc[k][m].value, podAcc[k][m].raw, PodDims[k])
      <4>0. PICK k \in DOMAIN podAcc : \E m \in DOMAIN podAcc[k] :
                 Sent(s, m, podAcc[k][m].value, podAcc[k][m].raw, PodDims[k])
        BY <3>1
      <4>1. PICK m \in DOMAIN podAcc[k] :
                 Sent(s, m, podAcc[k][m].value, podAcc[k][m].raw, PodDims[k])
        BY <4>0
      <4>2. m \in Metrics /\ podAcc[k][m].value \in Frac /\ podAcc[k][m].raw \in Nat
        BY TablesInCatalog DEF TypeInv, AccNames, AccTyped, SumsTyped
      <4>3. QED BY <4>1, <4>2, SentTyped
    <3>2. CASE \E k \in DOMAIN netAcc : \E n \in DOMAIN netAcc[k] :
                 \E m \in DOMAIN netAcc[k][n] :
                    Sent(s, m, netAcc[k][n][m].value, netAcc[k][n][m].raw,
                         Put(PodDims[k], "interface", n))
      <4>a. PICK k \in DOMAIN netAcc : \E n \in DOMAIN netAcc[k] :
                 \E m \in DOMAIN netAcc[k][n] :
                    Sent(s, m, netAcc[k][n][m].value, netAcc[k][n][m].raw,
                         Put(PodDims[k], "interface", n))
        BY <3>2
      <4>b. PICK n \in DOMAIN netAcc[k] : \E m \in DOMAIN netAcc[k][n] :
                    Sent(s, m, netAcc[k][n][m].value, netAcc[k][n][m].raw,
                         Put(PodDims[k], "interface", n))
        BY <4>a
      <4>1. PICK m \in DOMAIN netAcc[k][n] :
                    Sent(s, m, netAcc[k][n][m].value, netAcc[k][n][m].raw,
                         Put(PodDims[k], "interface", n))
        BY <4>b
      <4>2. m \in Metrics /\ netAcc[k][n][m].value \in Frac /\ netAcc[k][n][m].raw \in Nat
        BY TablesInCatalog DEF TypeInv, AccNames, AccTyped, SumsTyped
      <4>3. QED BY <4>1, <4>2, SentTyped
    <3>3. QED BY <1>6, <3>1, <3>2, FlushSamples DEF TypeInv
  <2>2. TypeOK'
    BY <1>0, <1>6, <2>1, SamplesTypedStep, TypeOKNext DEF Flush, TypeInv, TypeOK
  <2>3. QED BY <1>0, <1>6, <2>2 DEF Flush, TypeInv, AccTyped, InHand
<1>7. CASE NewCycle
  <2>1. TypeOK'
    BY <1>0, <1>7, TypeOKNext DEF NewCycle, TypeInv, TypeOK
  <2>2. QED BY <1>0, <1>7, <2>1 DEF NewCycle, TypeInv, AccTyped, InHand
<1>8. CASE UNCHANGED vars
  BY <1>8 DEF vars, TypeInv, TypeOK, AccNames, AccTyped, InHand, SumsTyped
<1>9. QED BY <1>1, <1>2, <1>3, <1>4, <1>5, <1>6, <1>7, <1>8 DEF Next

\* The stats loop and the pod flushes send, for every catalog, container
\* and stats document, only catalog metrics with a kind and a unit, whose
\* values are fractions of natural counters; the ns / 1000000000 of
\* _parse_cpu and the sums of _add_pod_metric included.
THEOREM TypeCorrect == Spec => []TypeOK
<1>1. Init => TypeInv BY TypeInit
<1>2. TypeInv /\ [Next]_vars => TypeInv' BY TypeStep
<1>3. TypeInv => TypeOK BY DEF TypeInv
<1>4. QED BY <1>1, <1>2, <1>3, PTL DEF Spec

-----------------------------------------------------------------------------
(* Device and interface dimensions.                                        *)

\* No canonical name is in two tables.
LEMMA TablesDisjoint ==
    /\ Range(MemoryTable) \cap Range(CpuTable) = {}
    /\ Range(MemoryTable) \cap Range(FilesystemTable) = {}
    /\ Range(MemoryTable) \cap Range(NetworkTable) = {}
    /\ Range(CpuTable) \cap Range(FilesystemTable) = {}
    /\ Range(CpuTable) \cap Range(NetworkTable) = {}
    /\ Range(FilesystemTable) \cap Range(NetworkTable) = {}
BY DEF Range, MemoryTable, CpuTable, FilesystemTable, NetworkTable

\* A sample's leaf dimensions as NoLeafLeak has them.
LeafOK(s) ==
    /\ ("device" \in DOMAIN s.dims) <=> s.metric \in Range(FilesystemTable)
    /\ ("interface" \in DOMAIN s.dims) <=> s.metric \in Range(NetworkTable)

\* What _send_metrics sends has the leaf dimensions of the dict it is given.
LEMMA SentLeaf ==
    ASSUME NEW s, NEW m, NEW v, NEW r, NEW d, Sent(s, m, v, r, d),
           ("device" \in DOMAIN d) <=> m \in Range(FilesystemTable),
           ("interface" \in DOMAIN d) <=> m \in Range(NetworkTable)
    PROVE  LeafOK(s)
BY DEF Sent, LeafOK

\* The samples keep their leaf dimensions when the new ones do.
LEMMA LeafSamplesStep ==
    ASSUME NoLeafLeak, \A s \in samples' \ samples : LeafOK(s)
    PROVE  NoLeafLeak'
BY DEF NoLeafLeak, LeafOK

\* Setting 'unit' keeps a dict free of leaf keys.
LEMMA PutUnitLeafFree ==
    ASSUME NEW d, NEW u, LeafFree(d) PROVE LeafFree(Put(d, "unit", u))
BY DEF LeafFree, Put

\* _add_pod_metric adds at most the pod_key in hand, and never None.
LEMMA AddPodMetricsKeys ==
    ASSUME NEW acc, NEW key, NEW vals
    PROVE  DOMAIN AddPodMetrics(acc, key, vals) \subseteq DOMAIN acc \cup ({key} \ {NoPod})
BY DEF AddPodMetrics, Put

LEMMA LeafInit == Init => LeafInv
BY TypeInit DEF Init, LeafInv, LeafFree, NoLeafLeak

LEMMA LeafStep == LeafFreeDims /\ LeafInv /\ [Next]_vars => LeafInv'
<1> SUFFICES ASSUME LeafFreeDims, LeafInv, [Next]_vars PROVE LeafInv'
  OBVIOUS
<1>0. TypeInv'
  BY TypeStep DEF LeafInv
<1>1. CASE NextContainer
  <2>1. LeafFree(cdims')
    BY <1>1 DEF NextContainer, LeafInv, TypeInv, TypeOK, LeafFreeDims
  <2>2. QED BY <1>0, <1>1, <2>1 DEF NextContainer, LeafInv, NoLeafLeak
<1>2. CASE ParseMemory
  <2> DEFINE F == Fields(snap.memory, MemoryTable)
  <2>1. cur \in Containers
    BY <1>2 DEF ParseMemory, LeafInv, TypeInv, InHand
  <2>2. \A s \in samples' \ samples : LeafOK(s)
    <3> SUFFICES ASSUME NEW s \in samples' \ samples PROVE LeafOK(s)
      OBVIOUS
    <3>1. PICK m \in DOMAIN F : Sent(s, m, <<F[m], 1>>, F[m], cdims)
      BY <1>2, MemorySamples
    <3>2. m \in Range(MemoryTable)
      BY FieldsNames
    <3>3. QED BY <3>1, <3>2, TablesDisjoint, SentLeaf DEF LeafInv, LeafFree
  <2>3. LeafFree(cdims')
    BY <1>2, PutUnitLeafFree DEF ParseMemory, LeafInv
  <2>4. DOMAIN podAcc' \subseteq PodKeys
    <3>1. PICK vals : podAcc' = AddPodMetrics(podAcc, PodKeyOf[cur], vals)
      BY <1>2 DEF ParseMemory
    <3>2. DOMAIN podAcc' \subseteq DOMAIN podAcc \cup ({PodKeyOf[cur]} \ {NoPod})
      BY <3>1, AddPodMetricsKeys
    <3>3. PodKeyOf[cur] \in PodKeys \cup {NoPod}
      BY <2>1 DEF PodKeys
    <3>4. DOMAIN podAcc \subseteq PodKeys
      BY DEF LeafInv
    <3>5. QED BY <3>2, <3>3, <3>4
  <2>5. QED BY <1>0, <1>2, <2>2, <2>3, <2>4, LeafSamplesStep DEF ParseMemory, LeafInv
<1>3. CASE ParseFilesystem
  <2>1. \A s \in samples' \ samples : LeafOK(s)
    <3> SUFFICES ASSUME NEW s \in samples' \ samples PROVE LeafOK(s)
      OBVIOUS
    <3>1. PICK j \in DOMAIN snap.fs :
              LET F == Fields(snap.fs[j].fields, FilesystemTable)
              IN  \E m \in DOMAIN F :
                     Sent(s, m, <<F[m], 1>>, F[m], Put(cdims, "device", snap.fs[j].device))
      BY <1>3, FilesystemSamples
    <3> DEFINE F == Fields(snap.fs[j].fields, FilesystemTable)
    <3>2. PICK m \in DOMAIN F :
              Sent(s, m, <<F[m], 1>>, F[m], Put(cdims, "device", snap.fs[j].device))
      BY <3>1
    <3>3. m \in Range(FilesystemTable)
      BY FieldsNames
    <3>4. /\ "device" \in DOMAIN Put(cdims, "device", snap.fs[j].device)
          /\ "interface" \notin DOMAIN Put(cdims, "device", snap.fs[j].device)
      BY DEF LeafInv, LeafFree, Put
    <3>5. m \notin Range(NetworkTable)
      BY <3>3, TablesDisjoint
    <3>6. QED BY <3>2, <3>3, <3>4, <3>5, SentLeaf
  <2>2. QED BY <1>0, <1>3, <2>1, LeafSamplesStep DEF ParseFilesystem, LeafInv
<1>4. CASE ParseNetwork
  <2>1. cur \in Containers
    BY <1>4 DEF ParseNetwork, LeafInv, TypeInv, InHand
  <2>2. \A s \in samples' \ samples : LeafOK(s)
    <3> SUFFICES ASSUME NEW s \in samples' \ samples PROVE LeafOK(s)
      OBVIOUS
    <3>1. PICK n \in {snap.net[j].name : j \in DOMAIN snap.net} :
              \E m \in DOMAIN NetFields(n) :
                 Sent(s, m, <<NetFields(n)[m], 1>>, NetFields(n)[m], Put(cdims, "interface", n))
      BY <1>4, NetworkSamples
    <3>2. PICK m \in DOMAIN NetFields(n) :
              Sent(s, m, <<NetFields(n)[m], 1>>, NetFields(n)[m], Put(cdims, "interface", n))
      BY <3>1
    <3>3. m \in Range(NetworkTable)
      BY FieldsNames DEF NetFields
    <3>4. /\ "interface" \in DOMAIN Put(cdims, "interface", n)
          /\ "device" \notin DOMAIN Put(cdims, "interface", n)
      BY DEF LeafInv, LeafFree, Put
    <3>5. m \notin Range(FilesystemTable)
      BY <3>3, TablesDisjoint
    <3>6. QED BY <3>2, <3>3, <3>4, <3>5, SentLeaf
  <2>3. DOMAIN netAcc' \subseteq PodKeys
    BY <1>4, <2>1 DEF ParseNetwork, LeafInv, PodKeys, Put
  <2>4. QED BY <1>0, <1>4, <2>2, <2>3, LeafSamplesStep DEF ParseNetwork, LeafInv
<1>5. CASE ParseCpu
  <2> DEFINE F == Fields(snap.cpu, CpuTable)
  <2>1. cur \in Containers
    BY <1>5 DEF ParseCpu, LeafInv, TypeInv, InHand
  <2>2. \A s \in samples' \ samples : LeafOK(s)
    <3> SUFFICES ASSUME NEW s \in samples' \ samples PROVE LeafOK(s)
      OBVIOUS
    <3>1. PICK m \in DOMAIN F : Sent(s, m, CpuSeconds(F[m]), F[m], cdims)
      BY <1>5, CpuSamples
    <3>2. m \in Range(CpuTable)
      BY FieldsNames
    <3>3. QED BY <3>1, <3>2, TablesDisjoint, SentLeaf DEF LeafInv, LeafFree
  <2>3. LeafFree(cdims')
    BY <1>5, PutUnitLeafFree DEF ParseCpu, LeafInv
  <2>4. DOMAIN podAcc' \subseteq PodKeys
    <3>1. PICK vals : podAcc' = AddPodMetrics(podAcc, PodKeyOf[cur], vals)
      BY <1>5 DEF ParseCpu
    <3>2. DOMAIN podAcc' \subseteq DOMAIN podAcc \cup ({PodKeyOf[cur]} \ {NoPod})
      BY <3>1, AddPodMetricsKeys
    <3>3. PodKeyOf[cur] \in PodKeys \cup {NoPod}
      BY <2>1 DEF PodKeys
    <3>4. DOMAIN podAcc \subseteq PodKeys
      BY DEF LeafInv
    <3>5. QED BY <3>2, <3>3, <3>4
  <2>5. QED BY <1>0, <1>5, <2>2, <2>3, <2>4, LeafSamplesStep DEF ParseCpu, LeafInv
<1>6. CASE Flush
  <2>1. \A s \in samples' \ samples : LeafOK(s)
    <3> SUFFICES ASSUME NEW s \in samples' \ samples PROVE LeafOK(s)
      OBVIOUS
    <3>1. CASE \E k \in DOMAIN podAcc : \E m \in DOMAIN podAcc[k] :
                 Sent(s, m, podAcc[k][m].value, podAcc[k][m].raw, PodDims[k])
      <4>1. PICK k \in DOMAIN podAcc : \E m \in DOMAIN podAcc[k] :
                 Sent(s, m, podAcc[k][m].value, podAcc[k][m].raw, PodDims[k])
        BY <3>1
      <4>2. PICK m \in DOMAIN podAcc[k] :
                 Sent(s, m, podAcc[k][m].value, podAcc[k][m].raw, PodDims[k])
        BY <4>1
      <4>3. m \in Range(MemoryTable) \cup Range(CpuTable) /\ LeafFree(PodDims[k])
        BY DEF LeafInv, TypeInv, AccNames, LeafFreeDims
      <4>4. QED BY <4>2, <4>3, TablesDisjoint, SentLeaf DEF LeafFree
    <3>2. CASE \E k \in DOMAIN netAcc : \E n \in DOMAIN netAcc[k] :
                 \E m \in DOMAIN netAcc[k][n] :
                    Sent(s, m, netAcc[k][n][m].value, netAcc[k][n][m].raw,
                         Put(PodDims[k], "interface", n))
      <4>1. PICK k \in DOMAIN netAcc : \E n \in DOMAIN netAcc[k] :
                 \E m \in DOMAIN netAcc[k][n] :
                    Sent(s, m, netAcc[k][n][m].value, netAcc[k][n][m].raw,
                         Put(PodDims[k], "interface", n))
        BY <3>2
      <4>2. PICK n \in DOMAIN netAcc[k] : \E m \in DOMAIN netAcc[k][n] :
                    Sent(s, m, netAcc[k][n][m].value, netAcc[k][n][m].raw,
                         Put(PodDims[k], "interface", n))
        BY <4>1
      <4>3. PICK m \in DOMAIN netAcc[k][n] :
                    Sent(s, m, netAcc[k][n][m].value, netAcc[k][n][m].raw,
                         Put(PodDims[k], "interface", n))
        BY <4>2
      <4>4. m \in Range(NetworkTable) /\ LeafFree(PodDims[k])
        BY DEF LeafInv, TypeInv, AccNames, LeafFreeDims
      <4>5. /\ "interface" \in DOMAIN Put(PodDims[k], "interface", n)
            /\ "device" \notin DOMAIN Put(PodDims[k], "interface", n)
        BY <4>4 DEF LeafFree, Put
      <4>6. m \notin Range(FilesystemTable)
        BY <4>4, TablesDisjoint
      <4>7. QED BY <4>3, <4>4, <4>5, <4>6, SentLeaf
    <3>3. QED BY <1>6, <3>1, <3>2, FlushSamples DEF LeafInv, TypeInv
  <2>2. QED BY <1>0, <1>6, <2>1, LeafSamplesStep DEF Flush, LeafInv
<1>7. CASE NewCycle
  BY <1>0, <1>7 DEF NewCycle, LeafInv, NoLeafLeak
<1>8. CASE UNCHANGED vars
  BY <1>0, <1>8 DEF vars, LeafInv, NoLeafLeak
<1>9. QED BY <1>1, <1>2, <1>3, <1>4, <1>5, <1>6, <1>7, <1>8 DEF Next

\* When the configured dimensions of containers and pods have no 'device'
\* or 'interface' key, a sample has a device dimension exactly when it is a
\* filesystem metric and an interface dimension exactly when it is a network
\* metric: the copies _parse_filesystem, _parse_network and
\* send_network_pod_metrics make never leak into container_dimensions or
\* pod_dimension_map, whatever the order of the containers.
THEOREM NoLeafLeakInvariant == LeafFreeDims => (Spec => []NoLeafLeak)
<1> SUFFICES ASSUME LeafFreeDims PROVE Spec => []NoLeafLeak
  OBVIOUS
<1>1. Init => LeafInv BY LeafInit
<1>2. LeafInv /\ [Next]_vars => LeafInv' BY LeafStep
<1>3. LeafInv => NoLeafLeak BY DEF LeafInv
<1>4. QED BY <1>1, <1>2, <1>3, PTL DEF Spec

-----------------------------------------------------------------------------
(* Exact cpu seconds under Python 3.                                       *)

\* The sum of two exact fractions is the exact fraction of the sum of
\* their counters.
LEMMA AddFracExact ==
    ASSUME NEW a \in Frac, NEW b \in Frac, NEW ra \in Nat, NEW rb \in Nat, NEW N \in Nat,
           a[1] * N = ra * a[2], b[1] * N = rb * b[2]
    PROVE  AddFrac(a, b)[1] * N = (ra + rb) * AddFrac(a, b)[2]
<1> DEFINE a1 == a[1]  a2 == a[2]  b1 == b[1]  b2 == b[2]
<1>1. a1 \in Nat /\ a2 \in Nat /\ b1 \in Nat /\ b2 \in Nat
  BY DEF Frac
<1>2. CASE a2 = b2
  <2>1. AddFrac(a, b) = <<a1 + b1, a2>>
    BY <1>2 DEF AddFrac
  <2>2. (a1 + b1) * N = a1 * N + b1 * N
    BY <1>1
  <2>3. ra * a2 + rb * b2 = (ra + rb) * a2
    BY <1>1, <1>2
  <2>4. QED BY <2>1, <2>2, <2>3
<1>3. CASE a2 # b2
  <2>1. AddFrac(a, b) = <<a1 * b2 + b1 * a2, a2 * b2>>
    BY <1>3 DEF AddFrac
  <2>2. (a1 * b2 + b1 * a2) * N = (a1 * b2) * N + (b1 * a2) * N
    BY <1>1
  <2>3. (a1 * b2) * N = (a1 * N) * b2 /\ (b1 * a2) * N = (b1 * N) * a2
    BY <1>1
  <2>4. (a1 * N) * b2 = (ra * a2) * b2 /\ (b1 * N) * a2 = (rb * b2) * a2
    OBVIOUS
  <2>5. (ra * a2) * b2 + (rb * b2) * a2 = (ra + rb) * (a2 * b2)
    BY <1>1
  <2>6. QED BY <2>1, <2>2, <2>3, <2>4, <2>5
<1>4. QED BY <1>2, <1>3

\* Adding a section's values to a dict of sums keeps its cpu sums exact.
LEMMA MergeExact ==
    ASSUME NEW old, NEW vals, SumsTyped(old), SumsTyped(vals), ExactSums(old), ExactSums(vals)
    PROVE  ExactSums(Merge(old, vals))
<1> SUFFICES ASSUME NEW m \in (DOMAIN old \cup DOMAIN vals) \cap Range(CpuTable)
             PROVE  Merge(old, vals)[m].value[1] * NsPerSecond
                      = Merge(old, vals)[m].raw * Merge(old, vals)[m].value[2]
  BY DEF ExactSums, Merge
<1>1. CASE m \in DOMAIN old /\ m \in DOMAIN vals
  <2>1. AddFrac(old[m].value, vals[m].value)[1] * NsPerSecond
          = (old[m].raw + vals[m].raw) * AddFrac(old[m].value, vals[m].value)[2]
    <3>1. /\ old[m].value \in Frac /\ vals[m].value \in Frac
          /\ old[m].raw \in Nat /\ vals[m].raw \in Nat
      BY <1>1 DEF SumsTyped
    <3>2. /\ old[m].value[1] * NsPerSecond = old[m].raw * old[m].value[2]
          /\ vals[m].value[1] * NsPerSecond = vals[m].raw * vals[m].value[2]
      BY <1>1 DEF ExactSums
    <3>3. NsPerSecond \in Nat
      BY MetricsAssumption
    <3>4. QED BY <3>1, <3>2, <3>3, AddFracExact
  <2>2. QED BY <1>1, <2>1 DEF Merge
<1>2. CASE m \notin DOMAIN old \/ m \notin DOMAIN vals
  BY <1>2 DEF Merge, ExactSums
<1>3. QED BY <1>1, <1>2

\* _add_pod_metric keeps the cpu sums of pod_metrics exact.
LEMMA AddPodMetricsExact ==
    ASSUME NEW acc, NEW key, NEW vals,
           \A k \in DOMAIN acc : SumsTyped(acc[k]) /\ ExactSums(acc[k]),
           SumsTyped(vals), ExactSums(vals)
    PROVE  \A k \in DOMAIN AddPodMetrics(acc, key, vals) :
              ExactSums(AddPodMetrics(acc, key, vals)[k])
<1> DEFINE base == IF key \in DOMAIN acc THEN acc[key] ELSE [m \in {} |-> key]
<1>1. SumsTyped(base) /\ ExactSums(base)
  BY DEF SumsTyped, ExactSums
<1>2. ExactSums(Merge(base, vals))
  BY <1>1, MergeExact
<1>3. QED BY <1>2 DEF AddPodMetrics, Put

\* A sample as CpuSecondsExact has it.
CpuOK(s) == s.metric \in Range(CpuTable) => s.value[1] * NsPerSecond = s.raw * s.value[2]

\* The samples stay exact when the new ones are.
LEMMA CpuSamplesStep ==
    ASSUME CpuSecondsExact, \A s \in samples' \ samples : CpuOK(s)
    PROVE  CpuSecondsExact'
BY DEF CpuSecondsExact, CpuOK

\* A sample of a metric of another table is not a cpu sample.
LEMMA NotCpu ==
    ASSUME NEW s, NEW m, NEW v, NEW r, NEW d, Sent(s, m, v, r, d),
           m \in Range(MemoryTable) \cup Range(FilesystemTable) \cup Range(NetworkTable)
    PROVE  CpuOK(s)
BY TablesDisjoint DEF Sent, CpuOK

LEMMA CpuInit == Init => CpuInv
BY TypeInit DEF Init, CpuInv, AccExact, CpuSecondsExact

LEMMA CpuStep == Python3 /\ CpuInv /\ [Next]_vars => CpuInv'
<1> SUFFICES ASSUME Python3, CpuInv, [Next]_vars PROVE CpuInv'
  OBVIOUS
<1>0. TypeInv'
  BY TypeStep DEF CpuInv
<1>a. \A k \in DOMAIN podAcc : SumsTyped(podAcc[k]) /\ ExactSums(podAcc[k])
  BY DEF CpuInv, TypeInv, AccTyped, AccExact
<1>1. CASE NextContainer
  BY <1>0, <1>1 DEF NextContainer, CpuInv, AccExact, CpuSecondsExact
<1>2. CASE ParseMemory
  <2> DEFINE F == Fields(snap.memory, MemoryTable)
             vals == [m \in DOMAIN F |-> [value |-> <<F[m], 1>>, raw |-> F[m]]]
  <2>1. IsSnapshot(snap)
    BY <1>2 DEF ParseMemory, CpuInv, TypeInv, InHand
  <2>2. \A m \in DOMAIN F : F[m] \in Nat /\ m \in Range(MemoryTable)
    BY <2>1, FieldsNat, FieldsNames DEF IsSnapshot
  <2>3. \A s \in samples' \ samples : CpuOK(s)
    <3> SUFFICES ASSUME NEW s \in samples' \ samples PROVE CpuOK(s)
      OBVIOUS
    <3>1. PICK m \in DOMAIN F : Sent(s, m, <<F[m], 1>>, F[m], cdims)
      BY <1>2, MemorySamples
    <3>2. QED BY <2>2, <3>1, NotCpu
  <2>4. SumsTyped(vals) /\ ExactSums(vals)
    <3>1. SumsTyped(vals)
      BY <2>2 DEF SumsTyped, Frac
    <3>2. DOMAIN vals \cap Range(CpuTable) = {}
      BY <2>2, TablesDisjoint
    <3>3. QED BY <3>1, <3>2 DEF ExactSums
  <2>5. AccExact'
    BY <1>2, <1>a, <2>4, AddPodMetricsExact DEF ParseMemory, AccExact
  <2>6. QED BY <1>0, <1>2, <2>3, <2>5, CpuSamplesStep DEF CpuInv
<1>3. CASE ParseFilesystem
  <2>1. \A s \in samples' \ samples : CpuOK(s)
    <3> SUFFICES ASSUME NEW s \in samples' \ samples PROVE CpuOK(s)
      OBVIOUS
    <3>1. PICK j \in DOMAIN snap.fs :
              LET F == Fields(snap.fs[j].fields, FilesystemTable)
              IN  \E m \in DOMAIN F :
                     Sent(s, m, <<F[m], 1>>, F[m], Put(cdims, "device", snap.fs[j].device))
      BY <1>3, FilesystemSamples
    <3> DEFINE F == Fields(snap.fs[j].fields, FilesystemTable)
    <3>2. PICK m \in DOMAIN F :
              Sent(s, m, <<F[m], 1>>, F[m], Put(cdims, "device", snap.fs[j].device))
      BY <3>1
    <3>3. QED BY <3>2, FieldsNames, NotCpu
  <2>2. QED BY <1>0, <1>3, <2>1, CpuSamplesStep DEF ParseFilesystem, CpuInv, AccExact
<1>4. CASE ParseNetwork
  <2>1. \A s \in samples' \ samples : CpuOK(s)
    <3> SUFFICES ASSUME NEW s \in samples' \ samples PROVE CpuOK(s)
      OBVIOUS
    <3>1. PICK n \in {snap.net[j].name : j \in DOMAIN snap.net} :
              \E m \in DOMAIN NetFields(n) :
                 Sent(s, m, <<NetFields(n)[m], 1>>, NetFields(n)[m], Put(cdims, "interface", n))
      BY <1>4, NetworkSamples
    <3>2. PICK m \in DOMAIN NetFields(n) :
              Sent(s, m, <<NetFields(n)[m], 1>>, NetFields(n)[m], Put(cdims, "interface", n))
      BY <3>1
    <3>3. m \in Range(NetworkTable)
      BY FieldsNames DEF NetFields
    <3>4. QED BY <3>2, <3>3, NotCpu
  <2>2. QED BY <1>0, <1>4, <2>1, CpuSamplesStep DEF ParseNetwork, CpuInv, AccExact
<1>5. CASE ParseCpu
  <2> DEFINE F == Fields(snap.cpu, CpuTable)
             vals == [m \in DOMAIN F |-> [value |-> CpuSeconds(F[m]), raw |-> F[m]]]
  <2>1. IsSnapshot(snap)
    BY <1>5 DEF ParseCpu, CpuInv, TypeInv, InHand
  <2>2. \A m \in DOMAIN F : F[m] \in Nat /\ CpuSeconds(F[m]) = <<F[m], NsPerSecond>>
    BY <2>1, FieldsNat DEF IsSnapshot, CpuSeconds
  <2>3. \A s \in samples' \ samples : CpuOK(s)
    <3> SUFFICES ASSUME NEW s \in samples' \ samples PROVE CpuOK(s)
      OBVIOUS
    <3>1. PICK m \in DOMAIN F : Sent(s, m, CpuSeconds(F[m]), F[m], cdims)
      BY <1>5, CpuSamples
    <3>2. s.value = <<F[m], NsPerSecond>> /\ s.raw = F[m] /\ F[m] \in Nat
      BY <2>2, <3>1 DEF Sent
    <3>3. QED BY <3>2 DEF CpuOK
  <2>4. SumsTyped(vals) /\ ExactSums(vals)
    <3>1. NsPerSecond \in Nat \ {0}
      BY MetricsAssumption
    <3>2. SumsTyped(vals)
      BY <2>2, <3>1 DEF SumsTyped, Frac
    <3>3. ExactSums(vals)
      BY <2>2 DEF ExactSums
    <3>4. QED BY <3>2, <3>3
  <2>5. AccExact'
    BY <1>5, <1>a, <2>4, AddPodMetricsExact DEF ParseCpu, AccExact
  <2>6. QED BY <1>0, <1>5, <2>3, <2>5, CpuSamplesStep DEF CpuInv
<1>6. CASE Flush
  <2>1. \A s \in samples' \ samples : CpuOK(s)
    <3> SUFFICES ASSUME NEW s \in samples' \ samples PROVE CpuOK(s)
      OBVIOUS
    <3>1. CASE \E k \in DOMAIN podAcc : \E m \in DOMAIN podAcc[k] :
                 Sent(s, m, podAcc[k][m].value, podAcc[k][m].raw, PodDims[k])
      <4>1. PICK k \in DOMAIN podAcc : \E m \in DOMAIN podAcc[k] :
                 Sent(s, m, podAcc[k][m].value, podAcc[k][m].raw, PodDims[k])
        BY <3>1
      <4>2. PICK m \in DOMAIN podAcc[k] :
                 Sent(s, m, podAcc[k][m].value, podAcc[k][m].raw, PodDims[k])
        BY <4>1
      <4>3. QED BY <1>a, <4>2 DEF ExactSums, Sent, CpuOK
    <3>2. CASE \E k \in DOMAIN netAcc : \E n \in DOMAIN netAcc[k] :
                 \E m \in DOMAIN netAcc[k][n] :
                    Sent(s, m, netAcc[k][n][m].value, netAcc[k][n][m].raw,
                         Put(PodDims[k], "interface", n))
      <4>1. PICK k \in DOMAIN netAcc : \E n \in DOMAIN netAcc[k] :
                 \E m \in DOMAIN netAcc[k][n] :
                    Sent(s, m, netAcc[k][n][m].value, netAcc[k][n][m].raw,
                         Put(PodDims[k], "interface", n))
        BY <3>2
      <4>2. PICK n \in DOMAIN netAcc[k] : \E m \in DOMAIN netAcc[k][n] :
                    Sent(s, m, netAcc[k][n][m].value, netAcc[k][n][m].raw,
                         Put(PodDims[k], "interface", n))
        BY <4>1
      <4>3. PICK m \in DOMAIN netAcc[k][n] :
                    Sent(s, m, netAcc[k][n][m].value, netAcc[k][n][m].raw,
                         Put(PodDims[k], "interface", n))
        BY <4>2
      <4>4. m \in Range(NetworkTable)
        BY DEF CpuInv, TypeInv, AccNames
      <4>5. QED BY <4>3, <4>4, NotCpu
    <3>3. QED BY <1>6, <3>1, <3>2, FlushSamples DEF CpuInv, TypeInv
  <2>2. QED BY <1>0, <1>6, <2>1, CpuSamplesStep DEF Flush, CpuInv, AccExact
<1>7. CASE NewCycle
  BY <1>0, <1>7 DEF NewCycle, CpuInv, AccExact, CpuSecondsExact
<1>8. CASE UNCHANGED vars
  BY <1>0, <1>8 DEF vars, CpuInv, AccExact, CpuSecondsExact
<1>9. QED BY <1>1, <1>2, <1>3, <1>4, <1>5, <1>6, <1>7, <1>8 DEF Next

\* Under Python 3, every cpu sample, of a container (_parse_cpu's
\* ns / 1000000000) or summed over a pod (_add_pod_metric), is the exact
\* number of seconds in the nanoseconds it stands for, for every number of
\* containers and every counter.  Under Python 2 the run shows it false.
THEOREM CpuSecondsExactInvariant == Python3 => (Spec => []CpuSecondsExact)
<1> SUFFICES ASSUME Python3 PROVE Spec => []CpuSecondsExact
  OBVIOUS
<1>1. Init => CpuInv BY CpuInit
<1>2. CpuInv /\ [Next]_vars => CpuInv' BY CpuStep
<1>3. CpuInv => CpuSecondsExact BY DEF CpuInv
<1>4. QED BY <1>1, <1>2, <1>3, PTL DEF Spec

-----------------------------------------------------------------------------
(* Pod sums only grow within a cycle.                                      *)

\* A dict of sums keeps itself.
LEMMA SumsKeptSelf ==
    ASSUME NEW d, SumsTyped(d) PROVE SumsKept(d, d)
BY DEF SumsKept, SumsTyped, FracLeq, Frac

\* Adding a fraction over a natural numerator never lowers a fraction.
LEMMA AddFracGrows ==
    ASSUME NEW a \in Frac, NEW b \in Frac PROVE FracLeq(a, AddFrac(a, b))
<1>1. CASE a[2] = b[2]
  <2>1. AddFrac(a, b) = <<a[1] + b[1], a[2]>>
    BY <1>1 DEF AddFrac
  <2>2. a[1] * a[2] <= (a[1] + b[1]) * a[2]
    BY DEF Frac
  <2>3. QED BY <2>1, <2>2 DEF FracLeq
<1>2. CASE a[2] # b[2]
  <2>1. AddFrac(a, b) = <<a[1] * b[2] + b[1] * a[2], a[2] * b[2]>>
    BY <1>2 DEF AddFrac
  <2>2. b[1] * a[2] * a[2] \in Nat
    BY DEF Frac
  <2>3. (a[1] * b[2] + b[1] * a[2]) * a[2] = a[1] * (a[2] * b[2]) + b[1] * a[2] * a[2]
    BY DEF Frac
  <2>4. a[1] * (a[2] * b[2]) <= (a[1] * b[2] + b[1] * a[2]) * a[2]
    BY <2>2, <2>3 DEF Frac
  <2>5. QED BY <2>1, <2>4 DEF FracLeq
<1>3. QED BY <1>1, <1>2

\* Adding a section's values keeps every sum of the dict, and lowers none.
LEMMA MergeKeeps ==
    ASSUME NEW old, NEW vals, SumsTyped(old), SumsTyped(vals)
    PROVE  SumsKept(old, Merge(old, vals))
<1> SUFFICES ASSUME NEW m \in DOMAIN old
             PROVE  m \in DOMAIN Merge(old, vals) /\ FracLeq(old[m].value, Merge(old, vals)[m].value)
  BY DEF SumsKept
<1>1. m \in DOMAIN Merge(old, vals)
  BY DEF Merge
<1>2. CASE m \notin DOMAIN vals
  <2>1. Merge(old, vals)[m] = old[m]
    BY <1>2 DEF Merge
  <2>2. QED BY <1>1, <2>1 DEF SumsTyped, FracLeq, Frac
<1>3. CASE m \in DOMAIN vals
  <2>1. Merge(old, vals)[m].value = AddFrac(old[m].value, vals[m].value)
    BY <1>3 DEF Merge
  <2>2. old[m].value \in Frac /\ vals[m].value \in Frac
    BY <1>3 DEF SumsTyped
  <2>3. QED BY <1>1, <2>1, <2>2, AddFracGrows
<1>4. QED BY <1>1, <1>2, <1>3

\* _add_pod_metric keeps every pod and every sum of pod_metrics.
LEMMA AddPodMetricsKeeps ==
    ASSUME NEW acc, NEW key, NEW vals,
           \A k \in DOMAIN acc : SumsTyped(acc[k]), SumsTyped(vals)
    PROVE  \A k \in DOMAIN acc :
              /\ k \in DOMAIN AddPodMetrics(acc, key, vals)
              /\ SumsKept(acc[k], AddPodMetrics(acc, key, vals)[k])
<1> SUFFICES ASSUME NEW k \in DOMAIN acc
             PROVE  /\ k \in DOMAIN AddPodMetrics(acc, key, vals)
                    /\ SumsKept(acc[k], AddPodMetrics(acc, key, vals)[k])
  OBVIOUS
<1>1. CASE key = NoPod \/ DOMAIN vals = {}
  BY <1>1, SumsKeptSelf DEF AddPodMetrics
<1>2. CASE ~(key = NoPod \/ DOMAIN vals = {}) /\ k = key
  <2>1. SumsKept(acc[k], Merge(acc[k], vals))
    BY MergeKeeps
  <2>2. QED BY <1>2, <2>1 DEF AddPodMetrics, Put
<1>3. CASE ~(key = NoPod \/ DOMAIN vals = {}) /\ k # key
  BY <1>3, SumsKeptSelf DEF AddPodMetrics, Put
<1>4. QED BY <1>1, <1>2, <1>3

\* Every step of the model keeps the pod sums, but the one that starts a
\* new cycle.
LEMMA GrowStep == TypeInv /\ [Next]_vars => [PodSumsGrowStep]_vars
<1> SUFFICES ASSUME TypeInv, [Next]_vars PROVE [PodSumsGrowStep]_vars
  OBVIOUS
<1> DEFINE KeepsPod == \A k \in DOMAIN podAcc : k \in DOMAIN podAcc' /\ SumsKept(podAcc[k], podAcc'[k])
           KeepsNet == \A k \in DOMAIN netAcc : k \in DOMAIN netAcc' /\
                         \A n \in DOMAIN netAcc[k] :
                            n \in DOMAIN netAcc'[k] /\ SumsKept(netAcc[k][n], netAcc'[k][n])
<1>0. podAcc' = podAcc => KeepsPod
  BY SumsKeptSelf DEF TypeInv, AccTyped
<1>a. netAcc' = netAcc => KeepsNet
  BY SumsKeptSelf DEF TypeInv, AccTyped
<1>1. CASE ParseMemory
  <2> DEFINE F == Fields(snap.memory, MemoryTable)
             vals == [m \in DOMAIN F |-> [value |-> <<F[m], 1>>, raw |-> F[m]]]
  <2>1. IsSnapshot(snap)
    BY <1>1 DEF ParseMemory, TypeInv, InHand
  <2>2. SumsTyped(vals)
    <3>1. \A m \in DOMAIN F : F[m] \in Nat
      BY <2>1, FieldsNat DEF IsSnapshot
    <3>2. QED BY <3>1 DEF SumsTyped, Frac
  <2>3. KeepsPod
    BY <1>1, <2>2, AddPodMetricsKeeps DEF ParseMemory, TypeInv, AccTyped
  <2>4. QED BY <1>1, <1>a, <2>3 DEF ParseMemory, PodSumsGrowStep
<1>2. CASE ParseCpu
  <2> DEFINE F == Fields(snap.cpu, CpuTable)
             vals == [m \in DOMAIN F |-> [value |-> CpuSeconds(F[m]), raw |-> F[m]]]
  <2>1. IsSnapshot(snap)
    BY <1>2 DEF ParseCpu, TypeInv, InHand
  <2>2. SumsTyped(vals)
    BY <2>1, FieldsNat, CpuSecondsType DEF IsSnapshot, SumsTyped
  <2>3. KeepsPod
    BY <1>2, <2>2, AddPodMetricsKeeps DEF ParseCpu, TypeInv, AccTyped
  <2>4. QED BY <1>2, <1>a, <2>3 DEF ParseCpu, PodSumsGrowStep
<1>3. CASE ParseNetwork
  <2> DEFINE key == PodKeyOf[cur]
             old == IF key \in DOMAIN netAcc THEN netAcc[key] ELSE [n \in {} |-> key]
             NV(n) == [m \in DOMAIN NetFields(n) |->
                         [value |-> <<NetFields(n)[m], 1>>, raw |-> NetFields(n)[m]]]
             Ifs == {snap.net[j].name : j \in DOMAIN snap.net}
             names == {n \in Ifs : DOMAIN NV(n) # {}}
             new == [n \in DOMAIN old \cup names |->
                       IF n \notin names THEN old[n]
                       ELSE Merge(IF n \in DOMAIN old THEN old[n] ELSE [m \in {} |-> n], NV(n))]
  <2>1. IsSnapshot(snap)
    BY <1>3 DEF ParseNetwork, TypeInv, InHand
  <2>2. \A n \in names : SumsTyped(NV(n))
    BY <2>1, NetFieldsNat DEF SumsTyped, Frac
  <2>3. netAcc' = IF key = NoPod \/ names = {} THEN netAcc ELSE Put(netAcc, key, new)
    BY <1>3 DEF ParseNetwork, NetFields
  <2>4. key \in DOMAIN netAcc =>
          \A n \in DOMAIN netAcc[key] : n \in DOMAIN new /\ SumsKept(netAcc[key][n], new[n])
    <3> SUFFICES ASSUME key \in DOMAIN netAcc, NEW n \in DOMAIN netAcc[key]
                 PROVE  n \in DOMAIN new /\ SumsKept(netAcc[key][n], new[n])
      OBVIOUS
    <3>1. SumsTyped(netAcc[key][n])
      BY DEF TypeInv, AccTyped
    <3>2. CASE n \in names
      <4>1. SumsKept(netAcc[key][n], Merge(netAcc[key][n], NV(n)))
        BY <2>2, <3>1, <3>2, MergeKeeps
      <4>2. QED BY <3>2, <4>1
    <3>3. CASE n \notin names
      BY <3>1, <3>3, SumsKeptSelf
    <3>4. QED BY <3>2, <3>3
  <2>5. KeepsNet
    <3>1. CASE key = NoPod \/ names = {}
      BY <1>a, <2>3, <3>1
    <3>2. CASE ~(key = NoPod \/ names = {})
      <4>1. \A k \in DOMAIN netAcc : k # key =>
                \A n \in DOMAIN netAcc[k] : SumsKept(netAcc[k][n], netAcc[k][n])
        BY SumsKeptSelf DEF TypeInv, AccTyped
      <4>2. QED BY <2>3, <2>4, <3>2, <4>1 DEF Put
    <3>3. QED BY <3>1, <3>2
  <2>6. QED BY <1>0, <1>3, <2>5 DEF ParseNetwork, PodSumsGrowStep
<1>4. CASE NewCycle
  BY <1>4 DEF NewCycle, PodSumsGrowStep
<1>5. CASE NextContainer \/ ParseFilesystem \/ Flush
  BY <1>0, <1>a, <1>5 DEF NextContainer, ParseFilesystem, Flush, PodSumsGrowStep
<1>6. CASE UNCHANGED vars
  BY <1>6 DEF vars
<1>7. QED BY <1>1, <1>2, <1>3, <1>4, <1>5, <1>6 DEF Next

\* _add_pod_metric's "+=" and the check that a pod_key or a metric is new
\* never lose a pod sum or lower the value the flush sends, within a cycle, for every order of the
\* containers and sections: only NewCycle (the next check()) starts anew.
THEOREM PodSumsOnlyGrowProperty == Spec => PodSumsOnlyGrow
<1>1. Init => TypeInv BY TypeInit
<1>2. TypeInv /\ [Next]_vars => TypeInv' BY TypeStep
<1>3. TypeInv /\ [Next]_vars => [PodSumsGrowStep]_vars BY GrowStep
<1>4. QED BY <1>1, <1>2, <1>3, PTL DEF Spec, PodSumsOnlyGrow

=============================================================================
