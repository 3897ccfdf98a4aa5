----------------------------- MODULE ProcessPods -----------------------------
(***************************************************************************)
(* The pod half of a Kubernetes check cycle in detail                      *)
(* (checks_d/kubernetes.py, Kubernetes._process_pods with                  *)
(* _get_pod_dimensions, _set_pod_owner_dimension, _get_deployment_name,    *)
(* _report_container_limits and _convert_cpu_to_cores), one call per       *)
(* /pods document, with report_container_metrics set or not.               *)
(*                                                                         *)
(* Data abstraction.  A dimension dict is a TLA+ function from dimension   *)
(* names to values; dict.update and d[k] = v are Update and Put.  A pod    *)
(* or owner name, a namespace or a label value is the sequence of its     *)
(* '-'-separated segments, so that                                         *)
(* "-".join(name.split("-")[:-1]) is dropping the last segment.  A cpu     *)
(* quantity string is its number and whether it ends in "m"; a memory      *)
(* quantity is a model value with its byte count.  The image dimension is  *)
(* left out: no property tells images apart.                               *)
(***************************************************************************)
EXTENDS Naturals, Sequences, FiniteSets

CONSTANTS
    PodLists,          \* the /pods documents the kubelet may return
    KubernetesLabels,  \* instance kubernetes_labels
    ReportContainerMetrics,  \* init_config report_container_metrics
    HasConnector,      \* kubernetes_connector is set (derive_host)
    MemBytes,          \* utils.convert_memory_string_to_bytes
    NoRes,             \* an absent resources/limits/requests/cpu/memory key
    NoAnnot,           \* no parsable kubernetes.io/created-by annotation
    NoFault

\* The shape of the items of a /pods document the check reads: names,
\* namespaces, label values and owner names are strings (here sequences of
\* segments), a container status has a name, an id (possibly ''), a
\* restartCount and a ready flag; the phase is one of the five the kubelet
\* reports.
Ref == [kind : STRING, name : Seq(STRING)]
ContainerStatus == [name : STRING, id : STRING, restarts : Nat, ready : BOOLEAN]
IsPod(p) ==
    /\ p.name \in Seq(STRING) /\ p.namespace \in Seq(STRING)
    /\ \A x \in DOMAIN p.labels : p.labels[x] \in Seq(STRING)
    /\ p.refs \in Seq(Ref) /\ p.annot \in Ref \cup {NoAnnot}
    /\ p.statuses \in Seq(ContainerStatus)
    /\ p.phase \in {"Succeeded", "Running", "Pending", "Failed", "Unknown"}

ASSUME PodsAssumption ==
    /\ ReportContainerMetrics \in BOOLEAN
    /\ HasConnector \in BOOLEAN
    /\ NoRes \notin DOMAIN MemBytes
    /\ NoAnnot \notin Ref
    /\ \A l \in PodLists : l \in Seq({l[k] : k \in DOMAIN l}) /\ \A k \in DOMAIN l : IsPod(l[k])

\* The outcomes of GET .../replicasets/<name>: an error, or the replica
\* set with or without the deployment.kubernetes.io/revision annotation.
LookupOutcomes == {"error", "revision", "plain"}

\* POD_PHASE.
POD_PHASE == [x \in {"Succeeded", "Running", "Pending", "Failed", "Unknown"} |->
                CASE x = "Succeeded" -> 0 [] x = "Running" -> 1 [] x = "Pending" -> 2
                  [] x = "Failed" -> 3 [] x = "Unknown" -> 4]

VARIABLES
    pods,      \* the items of the /pods document of this call
    pc,        \* "idle", or the loop of _process_pods the call is in
    pi,        \* the index of the pod being processed
    si,        \* the index of its next container status
    li,        \* the index of its next spec container (limits)
    podDims,   \* pod_dimensions of the current pod
    ctrMap,    \* container_dimension_map
    name2id,   \* name2id of the current pod
    retry,     \* pod_retry_count
    lookups,   \* the replica set lookup each pod's owner resolution made
    gauges,    \* the gauges sent by this call
    fault      \* the exception that escaped the call

vars == <<pods, pc, pi, si, li, podDims, ctrMap, name2id, retry, lookups,
          gauges, fault>>

OwnerKeys == {"replication_controller", "replica_set", "deployment", "daemon_set"}

\* dict.update(e) and d[k] = v.
Update(d, e) == [k \in DOMAIN d \cup DOMAIN e |-> IF k \in DOMAIN e THEN e[k] ELSE d[k]]
Put(d, k, v) == Update(d, [x \in {k} |-> v])

\* The labels of a dict that are in a list: the loop over kubernetes_labels.
Restrict(f, S) == [x \in S |-> f[x]]

\* Mutant of DeploymentName: the hash segment is not stripped.
DeploymentNameKeepAll(segs) == SubSeq(segs, 1, Len(segs))

\* "-".join(name.split("-")[:-1]), and whether the joined string is empty.
DeploymentName(segs) == SubSeq(segs, 1, Len(segs) - 1)
IsEmptyName(segs) == Len(segs) = 0 \/ (Len(segs) = 1 /\ segs[1] = "")

\* _get_deployment_name: the derived name when the replica set carries the
\* revision annotation, else None (an error is caught and logged).
GetDeploymentName(name, outcome) ==
    IF outcome = "revision" THEN DeploymentName(name) ELSE <<>>

\* _set_pod_owner_dimension: the owner dimension a kind and name give, with
\* the replica set lookup only when kubernetes_connector is set.
OwnerDimension(kind, name, outcome) ==
    CASE kind = "ReplicationController" -> [x \in {"replication_controller"} |-> name]
      [] kind = "ReplicaSet" ->
            LET dep == IF HasConnector THEN GetDeploymentName(name, outcome) ELSE <<>>
            IN  IF IsEmptyName(dep) THEN [x \in {"replica_set"} |-> name]
                                    ELSE [x \in {"deployment"} |-> dep]
      [] kind = "DaemonSet" -> [x \in {"daemon_set"} |-> name]
      [] OTHER -> [x \in {} |-> name]

\* The owner reference _get_pod_dimensions uses: the first of
\* ownerReferences, else the created-by annotation, else none.
OwnerRef(pod) ==
    IF pod.refs # <<>> THEN pod.refs[1] ELSE pod.annot

\* Mutant of PodDimensions: every label of the pod is copied.
PodDimensionsAllLabels(pod, outcome) ==
    LET base == Update([x \in {"pod_name", "namespace"} |->
                          IF x = "pod_name" THEN pod.name ELSE pod.namespace],
                       pod.labels)
        ref == OwnerRef(pod)
    IN  IF ref = NoAnnot THEN base
        ELSE Update(base, OwnerDimension(ref.kind, ref.name, outcome))

\* _get_pod_dimensions: name, namespace, the configured labels the pod has,
\* then the owner dimension.
PodDimensions(pod, outcome) ==
    LET base == Update([x \in {"pod_name", "namespace"} |->
                          IF x = "pod_name" THEN pod.name ELSE pod.namespace],
                       Restrict(pod.labels, DOMAIN pod.labels \cap KubernetesLabels))
        ref == OwnerRef(pod)
    IN  IF ref = NoAnnot THEN base
        ELSE Update(base, OwnerDimension(ref.kind, ref.name, outcome))

\* Only a replica set owner, with kubernetes_connector set, makes the
\* check ask the API.
NeedsLookup(pod) ==
    HasConnector /\ OwnerRef(pod) # NoAnnot /\ OwnerRef(pod).kind = "ReplicaSet"

\* _convert_cpu_to_cores: "<n>m" is n / 1000 cores, "<n>" is n cores; the
\* value is the fraction it denotes.
ConvertCpuToCores(q) == IF q.milli THEN <<q.n, 1000>> ELSE <<q.n, 1>>

Init ==
    /\ pods = <<>>
    /\ pc = "idle"
    /\ pi = 1 /\ si = 1 /\ li = 1
    /\ podDims = [x \in {} |-> NoRes]
    /\ ctrMap = [x \in {} |-> NoRes]
    /\ name2id = [x \in {} |-> NoRes]
    /\ retry = 0
    /\ lookups = <<>>
    /\ gauges = {}
    /\ fault = NoFault

\* check() got a /pods document and calls _process_pods with empty maps.
Begin ==
    /\ pc = "idle"
    /\ \E l \in PodLists :
          /\ pods' = l
          /\ lookups' = [k \in DOMAIN l |-> "none"]
    /\ pc' = "pod"
    /\ pi' = 1
    /\ ctrMap' = [x \in {} |-> NoRes]
    /\ gauges' = {}
    /\ fault' = NoFault
    /\ UNCHANGED <<si, li, podDims, name2id, retry>>

\* A pod without containers or container statuses is skipped.
SkipPod ==
    /\ pc = "pod" /\ pi <= Len(pods)
    /\ pods[pi].spec = <<>> \/ pods[pi].statuses = <<>>
    /\ pi' = pi + 1
    /\ UNCHANGED <<pods, pc, si, li, podDims, ctrMap, name2id, retry, lookups,
                   gauges, fault>>

\* Mutant of BuildPod: pod_retry_count is not reset per pod.
BuildPodKeepRetry ==
    /\ pc = "pod" /\ pi <= Len(pods)
    /\ pods[pi].spec # <<>> /\ pods[pi].statuses # <<>>
    /\ \E outcome \in IF NeedsLookup(pods[pi]) THEN LookupOutcomes ELSE {"none"} :
          /\ podDims' = PodDimensions(pods[pi], outcome)
          /\ lookups' = [lookups EXCEPT ![pi] = outcome]
    /\ name2id' = [x \in {} |-> NoRes]
    /\ si' = 1
    /\ pc' = "status"
    /\ UNCHANGED <<pods, pi, li, ctrMap, retry, gauges, fault>>

\* The pod's dimensions, with its owner resolved (and, for a replica set,
\* the API asked); its statuses come next.
BuildPod ==
    /\ pc = "pod" /\ pi <= Len(pods)
    /\ pods[pi].spec # <<>> /\ pods[pi].statuses # <<>>
    /\ \E outcome \in IF NeedsLookup(pods[pi]) THEN LookupOutcomes ELSE {"none"} :
          /\ podDims' = PodDimensions(pods[pi], outcome)
          /\ lookups' = [lookups EXCEPT ![pi] = outcome]
    /\ retry' = 0
    /\ name2id' = [x \in {} |-> NoRes]
    /\ si' = 1
    /\ pc' = "status"
    /\ UNCHANGED <<pods, pi, li, ctrMap, gauges, fault>>

\* Mutant of Status: the container name is not recorded in name2id.
StatusNoName2id ==
    /\ pc = "status" /\ si <= Len(pods[pi].statuses)
    /\ LET st == pods[pi].statuses[si]
           cdims == Put(podDims, "container_name", st.name)
       IN  /\ name2id' = name2id
           /\ ctrMap' = Put(ctrMap, st.id, cdims)
           /\ gauges' = IF ReportContainerMetrics
                        THEN gauges \cup
                              {[metric |-> "container.ready_status", dims |-> cdims,
                                of |-> st.name, value |-> IF st.ready THEN 0 ELSE 1],
                               [metric |-> "container.restart_count", dims |-> cdims,
                                of |-> st.name, value |-> st.restarts]}
                        ELSE gauges
           /\ retry' = retry + st.restarts
    /\ si' = si + 1
    /\ UNCHANGED <<pods, pc, pi, li, podDims, lookups, fault>>

\* One container status: its dimensions under its id ('' while waiting),
\* its ready and restart gauges, and its restarts added to the pod's.
Status ==
    /\ pc = "status" /\ si <= Len(pods[pi].statuses)
    /\ LET st == pods[pi].statuses[si]
           cdims == Put(podDims, "container_name", st.name)
       IN  /\ name2id' = Put(name2id, st.name, st.id)
           /\ ctrMap' = Put(ctrMap, st.id, cdims)
           /\ gauges' = IF ReportContainerMetrics
                        THEN gauges \cup
                              {[metric |-> "container.ready_status", dims |-> cdims,
                                of |-> st.name, value |-> IF st.ready THEN 0 ELSE 1],
                               [metric |-> "container.restart_count", dims |-> cdims,
                                of |-> st.name, value |-> st.restarts]}
                        ELSE gauges
           /\ retry' = retry + st.restarts
    /\ si' = si + 1
    /\ UNCHANGED <<pods, pc, pi, li, podDims, lookups, fault>>

\* After the statuses: the limits of the spec containers, if reported.
EndStatuses ==
    /\ pc = "status" /\ si > Len(pods[pi].statuses)
    /\ li' = 1
    /\ pc' = IF ReportContainerMetrics THEN "limits" ELSE "gauges"
    /\ UNCHANGED <<pods, pi, si, podDims, ctrMap, name2id, retry, lookups,
                   gauges, fault>>

\* The cpu and memory gauges of one limits or requests dict; a missing
\* dict is the KeyError the code catches.
ResourceGauges(res, cpuMetric, memMetric, dims, c) ==
    IF res = NoRes THEN {}
    ELSE {[metric |-> cpuMetric, dims |-> dims, of |-> c,
           value |-> ConvertCpuToCores(res.cpu)] : x \in {y \in {res.cpu} : y # NoRes}}
         \cup
         {[metric |-> memMetric, dims |-> dims, of |-> c,
           value |-> MemBytes[res.mem]] : x \in {y \in {res.mem} : y # NoRes}}

\* One spec container of _report_container_limits: its dimensions through
\* name2id, outside the try (a KeyError escapes the check).
Limits ==
    /\ pc = "limits" /\ li <= Len(pods[pi].spec)
    /\ LET c == pods[pi].spec[li].name
       IN  IF c \notin DOMAIN name2id
           THEN /\ fault' = "name2id"
                /\ pc' = "idle"
                /\ UNCHANGED <<li, gauges>>
           ELSE /\ gauges' = gauges
                      \cup ResourceGauges(pods[pi].spec[li].limits, "container.cpu.limit",
                                          "container.memory.limit_bytes",
                                          ctrMap[name2id[c]], c)
                      \cup ResourceGauges(pods[pi].spec[li].requests, "container.request.cpu",
                                          "container.request.memory_bytes",
                                          ctrMap[name2id[c]], c)
                /\ li' = li + 1
                /\ UNCHANGED <<pc, fault>>
    /\ UNCHANGED <<pods, pi, si, podDims, ctrMap, name2id, retry, lookups>>

EndLimits ==
    /\ pc = "limits" /\ li > Len(pods[pi].spec)
    /\ pc' = "gauges"
    /\ UNCHANGED <<pods, pi, si, li, podDims, ctrMap, name2id, retry, lookups,
                   gauges, fault>>

\* pod.restart_count and pod.phase.
PodGauges ==
    /\ pc = "gauges"
    /\ gauges' = gauges \cup
          {[metric |-> "pod.restart_count", dims |-> podDims, of |-> pi, value |-> retry],
           [metric |-> "pod.phase", dims |-> podDims, of |-> pi,
            value |-> POD_PHASE[pods[pi].phase]]}
    /\ pi' = pi + 1
    /\ pc' = "pod"
    /\ UNCHANGED <<pods, si, li, podDims, ctrMap, name2id, retry, lookups,
                   fault>>

\* The loop over the pods is over.
Finish ==
    /\ pc = "pod" /\ pi > Len(pods)
    /\ pc' = "idle"
    /\ UNCHANGED <<pods, pi, si, li, podDims, ctrMap, name2id, retry, lookups,
                   gauges, fault>>

Next ==
    \/ Begin \/ SkipPod \/ BuildPod \/ Status \/ EndStatuses \/ Limits
    \/ EndLimits \/ PodGauges \/ Finish

Spec == Init /\ [][Next]_vars

-----------------------------------------------------------------------------

IsDims(d) ==
    /\ DOMAIN d \subseteq {"pod_name", "namespace", "container_name"}
                            \cup KubernetesLabels \cup OwnerKeys
    /\ \A x \in DOMAIN d :
          IF x = "container_name" THEN d[x] \in STRING ELSE d[x] \in Seq(STRING)

TypeOK ==
    /\ pc \in {"idle", "pod", "status", "limits", "gauges"}
    /\ pods \in PodLists \cup {<<>>}
    /\ pi \in 1 .. Len(pods) + 1
    /\ retry \in Nat
    /\ IsDims(podDims)
    /\ \A id \in DOMAIN ctrMap : IsDims(ctrMap[id])
    /\ lookups \in [DOMAIN pods -> LookupOutcomes \cup {"none"}]
    /\ \A g \in gauges : IsDims(g.dims)
    /\ fault \in {NoFault, "name2id"}

\* The abstract pass of ProcessPodsAbstract, seen through the pod gauges:
\* the loop is busy from Begin to Finish (or the escaping KeyError), its
\* position is pi, and only the pod.* gauges are the abstract's.
Abs == INSTANCE ProcessPodsAbstract
         WITH apc <- IF pc = "idle" THEN "idle" ELSE "busy",
              next <- pi,
              podGauges <- {g \in gauges : g.metric \in {"pod.restart_count", "pod.phase"}}

\* The restarts of the statuses of the pod with index k.
Restarts(k) == Abs!SumRestarts(pods[k].statuses)

\* pod.restart_count is the sum of the restartCount of the pod's own
\* container statuses (spec section 8), though the count is one variable
\* that the loop over the pods carries along.
RestartCountExact ==
    \A g \in gauges : g.metric = "pod.restart_count" => g.value = Restarts(g.of)

\* _report_container_limits never raises the KeyError of its unguarded
\* name2id[container_name] lookup (line 203) on a document where every spec
\* container has a container status: the status loop has recorded every
\* name before the limits loop reads it.
LimitsNeverRaise == fault = NoFault

\* _process_pods implements the pass spec section 5 describes: pods are
\* taken in order, those without containers skipped, and every other pod
\* gets, in one step, its restart sum and phase gauges with the spec's
\* dimensions and owner (section 4.2) for some outcome of its replica set
\* lookup; the container loops in between send no pod gauge.
AbstractSpec == Abs!ASpec

\* A pod record has at most one owner dimension (spec section 2, PodRecord).
AtMostOneOwner ==
    \A g \in gauges : Cardinality(DOMAIN g.dims \cap OwnerKeys) <= 1

\* The limit and request gauges of a container carry that container's
\* dimensions (container_name), as its ready and restart gauges do.
LimitsOwnDims ==
    \A g \in gauges :
        g.metric \in {"container.cpu.limit", "container.memory.limit_bytes",
                      "container.request.cpu", "container.request.memory_bytes"}
            => g.dims["container_name"] = g.of


=============================================================================
