--------------------------- MODULE KubernetesCheck ---------------------------
(***************************************************************************)
(* One polling cycle after another of the Kubernetes check                 *)
(* (checks_d/kubernetes.py, Kubernetes.check) run against a node whose     *)
(* pods and containers keep changing.  The check reads the node four       *)
(* times per cycle -- kubelet /healthz, kubelet /pods, cAdvisor spec and   *)
(* cAdvisor stats -- and correlates the last two documents with the pod    *)
(* list to sum container metrics per pod.  Nothing makes the three         *)
(* documents consistent with each other: the node moves between fetches.   *)
(*                                                                         *)
(* Data abstraction.  A pod's dimension dict is represented by the pod     *)
(* itself (all its values are functions of the pod's metadata); a          *)
(* container's dimension dict by the pod it was copied from.  Pod names    *)
(* and namespaces are sequences of characters, because the code keys pods  *)
(* by their concatenation.  Every reported field of a container carries    *)
(* the value Val[c].                                                       *)
(***************************************************************************)
EXTENDS Naturals, Sequences, FiniteSets, FiniteSetsExt

CONSTANTS
    Pods,          \* pods that may be scheduled on the node
    Containers,    \* docker containers that may run on the node
    Infra,         \* the pause containers: labelled, but not in containerStatuses
    PodOf,         \* io.kubernetes.pod.{name,namespace} labels: the owning pod
    PodName,       \* metadata.name of each pod, a sequence of characters
    PodNamespace,  \* metadata.namespace of each pod, a sequence of characters
    Metrics,       \* memory/cpu metric names summed per pod (_add_pod_metric)
    NetMetrics,    \* network metric names summed per pod and interface
    Interfaces,    \* network interface names
    Reports,       \* the memory/cpu metrics present in a container's stats
    NetReports,    \* the interfaces listed in a container's network stats
    Val,           \* the value of every field a container reports
    Python3,       \* TRUE when the agent runs under Python 3
    NoPod, NoId, NoKey, NoDims, NoValue   \* None / '' / absent dict entry

Keys == {PodName[p] \o PodNamespace[p] : p \in Pods}

ASSUME ConstantsAssumption ==
    /\ Infra \subseteq Containers
    /\ PodOf \in [Containers -> Pods \cup {NoPod}]
    /\ \A c \in Infra : PodOf[c] \in Pods
    /\ PodName \in [Pods -> Seq(STRING)]
    /\ PodNamespace \in [Pods -> Seq(STRING)]
    /\ Reports \in [Containers -> SUBSET Metrics]
    /\ NetReports \in [Containers -> SUBSET Interfaces]
    /\ Val \in [Containers -> Nat \ {0}]
    /\ Python3 \in BOOLEAN
    /\ NoPod \notin Pods
    /\ NoId \notin Containers
    /\ NoKey \notin Keys
    /\ NoValue \notin Nat

VARIABLES
    podPhase,    \* node: each pod's presence in kubelet /pods
    ctrState,    \* node: each docker container's lifecycle
    pc,          \* where Kubernetes.check is
    probe,       \* what /healthz answered in this cycle
    health,      \* the kubelet.health_status gauge emitted in this cycle
    podList,     \* outcome of GET /pods
    cadvisor,    \* outcome of the two cAdvisor GETs
    podQueue,    \* pods of the /pods snapshot not yet processed
    idSnap,      \* containers whose containerID the /pods snapshot carries
    podDims,     \* pod_dimensions_map: pod_key -> pod dimensions
    ctrDims,     \* container_dimension_map: container id -> container dimensions
    podGauges,   \* pods whose pod.restart_count and pod.phase were emitted
    specSnap,    \* containers in the cAdvisor spec document
    statsSnap,   \* containers in the cAdvisor stats document
    pending,     \* stats entries not yet processed
    podAcc,      \* pod_metrics: pod_key -> metric -> running sum
    netAcc,      \* pod_network_metrics: pod_key -> interface -> metric -> sum
    podSamples,  \* pod-level samples flushed by send_pod_metrics
    netSamples,  \* pod-level samples flushed by send_network_pod_metrics
    fault        \* the lookup whose KeyError escaped check(), if any

envVars == <<podPhase, ctrState>>
cycleVars == <<pc, probe, health, podList, cadvisor, podQueue, idSnap, podDims,
               ctrDims, podGauges, specSnap, statsSnap, pending, podAcc, netAcc,
               podSamples, netSamples, fault>>
vars == <<envVars, cycleVars>>

-----------------------------------------------------------------------------
(* The values the data takes.                                              *)

PodPhases == {"absent", "pending", "running"}
CtrStates == {"new", "running", "exited"}
PcValues == {"health", "pods", "processPods", "spec", "stats", "containers",
             "done", "crashed"}
Probes == {"none", "ok", "notok", "down"}
CtrDim == [pod : Pods, container : Containers]
PodSample == [pod : Pods, metric : Metrics, value : Nat]
NetSample == [pod : Pods, interface : Interfaces, metric : NetMetrics, value : Nat]
SumValue == Nat \cup {NoValue}

\* pod_key = pod_dimensions['pod_name'] + pod_dimensions['namespace']
Key(p) == PodName[p] \o PodNamespace[p]

EmptyPodDims == [k \in Keys |-> NoPod]
EmptyCtrDims == [id \in Containers \cup {NoId} |-> NoDims]
EmptyPodAcc == [k \in Keys |-> [m \in Metrics |-> NoValue]]
EmptyNetAcc == [k \in Keys |-> [i \in Interfaces |-> [m \in NetMetrics |-> NoValue]]]

\* `first write initializes, later writes add' (_add_pod_metric, _parse_network)
AddTo(old, v) == IF old = NoValue THEN v ELSE old + v

-----------------------------------------------------------------------------
(* The node.  Kubelet and cAdvisor observe it independently, so any pod    *)
(* phase may coexist with any container state.                             *)

\* The check reads the node only at its fetches; between two fetches a
\* change of the node is indistinguishable from one just before the next.
FetchPoints == {"pods", "spec", "stats"}

PodScheduled(p) ==  \* listed by /pods, containerStatuses not yet reported
    /\ pc \in FetchPoints
    /\ podPhase[p] = "absent"
    /\ podPhase' = [podPhase EXCEPT ![p] = "pending"]
    /\ UNCHANGED <<ctrState, cycleVars>>

PodStarted(p) ==
    /\ pc \in FetchPoints
    /\ podPhase[p] = "pending"
    /\ podPhase' = [podPhase EXCEPT ![p] = "running"]
    /\ UNCHANGED <<ctrState, cycleVars>>

PodDeleted(p) ==  \* no longer listed; its name may be scheduled again
    /\ pc \in FetchPoints
    /\ podPhase[p] = "running"
    /\ podPhase' = [podPhase EXCEPT ![p] = "absent"]
    /\ UNCHANGED <<ctrState, cycleVars>>

ContainerStarted(c) ==
    /\ pc \in FetchPoints
    /\ ctrState[c] = "new"
    /\ ctrState' = [ctrState EXCEPT ![c] = "running"]
    /\ UNCHANGED <<podPhase, cycleVars>>

ContainerExited(c) ==
    /\ pc \in FetchPoints
    /\ ctrState[c] = "running"
    /\ ctrState' = [ctrState EXCEPT ![c] = "exited"]
    /\ UNCHANGED <<podPhase, cycleVars>>

Running == {c \in Containers : ctrState[c] = "running"}

-----------------------------------------------------------------------------
(* Kubernetes.check                                                        *)

\* _get_api_health: True iff some line of the body equals 'ok'.  Under
\* Python 3, Response.iter_lines() yields bytes, and b'ok' == 'ok' is False.
LineIsOk(line) == ~Python3 /\ line = "ok"

CheckHealth ==
    /\ pc = "health"
    /\ \E r \in {"ok", "notok", "down"} :
          /\ probe' = r
          /\ health' = IF r # "down" /\ LineIsOk(r) THEN 0 ELSE 1
    /\ pc' = "pods"
    /\ UNCHANGED <<envVars, podList, cadvisor, podQueue, idSnap, podDims,
                   ctrDims, podGauges, specSnap, statsSnap, pending, podAcc,
                   netAcc, podSamples, netSamples, fault>>

\* GET /pods.  On failure check() logs and returns: the cAdvisor phase is
\* inside the same else branch.  On success _process_pods walks the pods
\* that have both spec.containers and status.containerStatuses.
FetchPods ==
    /\ pc = "pods"
    /\ \/ /\ podList' = "failed"
          /\ pc' = "done"
          /\ UNCHANGED <<podQueue, idSnap>>
       \/ /\ podList' = "ok"
          /\ podQueue' = {p \in Pods : podPhase[p] = "running"}
          /\ idSnap' = {c \in Containers : ctrState[c] # "new"}
          /\ pc' = IF podQueue' = {} THEN "spec" ELSE "processPods"
    /\ UNCHANGED <<envVars, probe, health, cadvisor, podDims, ctrDims,
                   podGauges, specSnap, statsSnap, pending, podAcc, netAcc,
                   podSamples, netSamples, fault>>

\* The containers listed in a pod's containerStatuses.
StatusContainers(p) == {c \in Containers \ Infra : PodOf[c] = p}

\* containerID.split('//')[-1]: '' while the container is still waiting.
ContainerID(c) == IF c \in idSnap THEN c ELSE NoId

\* Mutant of ProcessPod: a waiting status stored with the empty id as its
\* container name.
ProcessPodEmptyName(p) ==
    /\ pc = "processPods"
    /\ p \in podQueue
    /\ podDims' = [podDims EXCEPT ![Key(p)] = p]
    /\ LET waiting == {c \in StatusContainers(p) : ContainerID(c) = NoId}
           withId == [id \in Containers \cup {NoId} |->
                        IF id \in StatusContainers(p) \cap idSnap
                        THEN [pod |-> p, container |-> id]
                        ELSE ctrDims[id]]
       IN  \/ /\ waiting = {}
              /\ ctrDims' = withId
           \/ \E w \in waiting :
                 ctrDims' = [withId EXCEPT ![NoId] =
                                [pod |-> p, container |-> ContainerID(w)]]
    /\ podGauges' = podGauges \cup {p}
    /\ podQueue' = podQueue \ {p}
    /\ pc' = IF podQueue' = {} THEN "spec" ELSE "processPods"
    /\ UNCHANGED <<envVars, probe, health, podList, cadvisor, idSnap,
                   specSnap, statsSnap, pending, podAcc, netAcc, podSamples,
                   netSamples, fault>>

\* One iteration of the loop of _process_pods.  The dimension dict of each
\* status is stored under its container id; statuses without an id all go
\* to '' and the last one written stays.
ProcessPod(p) ==
    /\ pc = "processPods"
    /\ p \in podQueue
    /\ podDims' = [podDims EXCEPT ![Key(p)] = p]
    /\ LET waiting == {c \in StatusContainers(p) : ContainerID(c) = NoId}
           withId == [id \in Containers \cup {NoId} |->
                        IF id \in StatusContainers(p) \cap idSnap
                        THEN [pod |-> p, container |-> id]
                        ELSE ctrDims[id]]
       IN  \/ /\ waiting = {}
              /\ ctrDims' = withId
           \/ \E w \in waiting :
                 ctrDims' = [withId EXCEPT ![NoId] = [pod |-> p, container |-> w]]
    /\ podGauges' = podGauges \cup {p}
    /\ podQueue' = podQueue \ {p}
    /\ pc' = IF podQueue' = {} THEN "spec" ELSE "processPods"
    /\ UNCHANGED <<envVars, probe, health, podList, cadvisor, idSnap,
                   specSnap, statsSnap, pending, podAcc, netAcc, podSamples,
                   netSamples, fault>>

\* _process_containers: the spec document, then the stats document; an
\* exception from either makes it return before anything is summed.
FetchSpec ==
    /\ pc = "spec"
    /\ \/ /\ cadvisor' = "failed"
          /\ pc' = "done"
          /\ UNCHANGED specSnap
       \/ /\ specSnap' = Running
          /\ pc' = "stats"
          /\ UNCHANGED cadvisor
    /\ UNCHANGED <<envVars, probe, health, podList, podQueue, idSnap, podDims,
                   ctrDims, podGauges, statsSnap, pending, podAcc, netAcc,
                   podSamples, netSamples, fault>>

FetchStats ==
    /\ pc = "stats"
    /\ \/ /\ cadvisor' = "failed"
          /\ pc' = "done"
          /\ UNCHANGED <<statsSnap, pending, podAcc, netAcc>>
       \/ /\ cadvisor' = "ok"
          /\ statsSnap' = Running
          /\ pending' = Running
          /\ podAcc' = EmptyPodAcc
          /\ netAcc' = EmptyNetAcc
          /\ pc' = "containers"
    /\ UNCHANGED <<envVars, probe, health, podList, podQueue, idSnap, podDims,
                   ctrDims, podGauges, specSnap, podSamples, netSamples, fault>>

\* The loop over container_spec["aliases"] keeps the first alias contained
\* in the cAdvisor key of the container.  A docker key ends with the
\* container id, which is an alias; the container name never occurs in it.
MatchedAlias(c) == c

\* The pod_key of _get_container_dimensions: through the container id, else
\* through the io.kubernetes.pod.* labels if that pod_key is known, else None.
LabelKey(c) == Key(PodOf[c])

\* Mutants of Correlate: the labels' pod_key used without looking it up in
\* pod_dimension_map; the labels ignored altogether.
CorrelateUnchecked(c) ==
    IF ctrDims[MatchedAlias(c)] # NoDims
    THEN Key(ctrDims[MatchedAlias(c)].pod)
    ELSE IF PodOf[c] # NoPod THEN LabelKey(c) ELSE NoKey
CorrelateByIdOnly(c) ==
    IF ctrDims[MatchedAlias(c)] # NoDims
    THEN Key(ctrDims[MatchedAlias(c)].pod)
    ELSE NoKey

Correlate(c) ==
    IF ctrDims[MatchedAlias(c)] # NoDims
    THEN Key(ctrDims[MatchedAlias(c)].pod)
    ELSE IF PodOf[c] # NoPod /\ podDims[LabelKey(c)] # NoPod
         THEN LabelKey(c)
         ELSE NoKey

\* One iteration of the loop of _process_containers: containers_spec[container]
\* raises KeyError for a container started after the spec was fetched; else
\* _parse_memory/_parse_cpu and _parse_network add the container's fields to
\* the sums of its pod_key, if it has one.
ProcessContainer(c) ==
    /\ pc = "containers"
    /\ c \in pending
    /\ \/ /\ c \notin specSnap
          /\ fault' = "spec"
          /\ pc' = "crashed"
          /\ UNCHANGED <<pending, podAcc, netAcc>>
       \/ /\ c \in specSnap
          /\ LET k == Correlate(c) IN
             IF k = NoKey
             THEN UNCHANGED <<podAcc, netAcc>>
             ELSE /\ podAcc' = [podAcc EXCEPT ![k] =
                        [m \in Metrics |-> IF m \in Reports[c]
                                           THEN AddTo(@[m], Val[c]) ELSE @[m]]]
                  /\ netAcc' = [netAcc EXCEPT ![k] =
                        [i \in Interfaces |-> IF i \in NetReports[c]
                            THEN [m \in NetMetrics |-> AddTo(@[i][m], Val[c])]
                            ELSE @[i]]]
          /\ pending' = pending \ {c}
          /\ UNCHANGED <<pc, fault>>
    /\ UNCHANGED <<envVars, probe, health, podList, cadvisor, podQueue, idSnap,
                   podDims, ctrDims, podGauges, specSnap, statsSnap,
                   podSamples, netSamples>>

\* The pod keys with a sum, and the samples send_pod_metrics and
\* send_network_pod_metrics emit for them with pod_dimension_map[pod_key].
AccKeys == {k \in Keys : \E m \in Metrics : podAcc[k][m] # NoValue}
NetAccKeys == {k \in Keys : \E i \in Interfaces, m \in NetMetrics :
                               netAcc[k][i][m] # NoValue}
KnownKeys == {k \in Keys : podDims[k] # NoPod}
PodSamplesOf(K) ==
    {[pod |-> podDims[km[1]], metric |-> km[2], value |-> podAcc[km[1]][km[2]]] :
        km \in {km \in K \X Metrics : podAcc[km[1]][km[2]] # NoValue}}
NetSamplesOf(K) ==
    {[pod |-> podDims[t[1]], interface |-> t[2], metric |-> t[3],
      value |-> netAcc[t[1]][t[2]][t[3]]] :
        t \in {t \in K \X Interfaces \X NetMetrics : netAcc[t[1]][t[2]][t[3]] # NoValue}}

\* A sum under an unknown pod_key raises KeyError in the flush, after the
\* samples of the keys iterated before it.
Flush ==
    /\ pc = "containers"
    /\ pending = {}
    /\ IF AccKeys \cup NetAccKeys \subseteq KnownKeys
       THEN /\ podSamples' = PodSamplesOf(AccKeys)
            /\ netSamples' = NetSamplesOf(NetAccKeys)
            /\ pc' = "done"
            /\ UNCHANGED fault
       ELSE /\ podSamples' \in SUBSET PodSamplesOf(AccKeys \cap KnownKeys)
            /\ netSamples' \in SUBSET NetSamplesOf(NetAccKeys \cap KnownKeys)
            /\ fault' = "podmap"
            /\ pc' = "crashed"
    /\ UNCHANGED <<envVars, probe, health, podList, cadvisor, podQueue, idSnap,
                   podDims, ctrDims, podGauges, specSnap, statsSnap, pending,
                   podAcc, netAcc>>

\* The collector calls check() again; everything of the last call is gone.
NewCycle ==
    /\ pc \in {"done", "crashed"}
    /\ pc' = "health"
    /\ probe' = "none"
    /\ health' = NoValue
    /\ podList' = "unfetched"
    /\ cadvisor' = "unfetched"
    /\ podQueue' = {}
    /\ idSnap' = {}
    /\ podDims' = EmptyPodDims
    /\ ctrDims' = EmptyCtrDims
    /\ podGauges' = {}
    /\ specSnap' = {}
    /\ statsSnap' = {}
    /\ pending' = {}
    /\ podAcc' = EmptyPodAcc
    /\ netAcc' = EmptyNetAcc
    /\ podSamples' = {}
    /\ netSamples' = {}
    /\ fault' = "none"
    /\ UNCHANGED envVars

-----------------------------------------------------------------------------

Init ==
    /\ podPhase = [p \in Pods |-> "absent"]
    /\ ctrState = [c \in Containers |-> "new"]
    /\ pc = "health"
    /\ probe = "none"
    /\ health = NoValue
    /\ podList = "unfetched"
    /\ cadvisor = "unfetched"
    /\ podQueue = {} /\ idSnap = {}
    /\ podDims = EmptyPodDims
    /\ ctrDims = EmptyCtrDims
    /\ podGauges = {} /\ specSnap = {} /\ statsSnap = {} /\ pending = {}
    /\ podAcc = EmptyPodAcc
    /\ netAcc = EmptyNetAcc
    /\ podSamples = {} /\ netSamples = {}
    /\ fault = "none"

Check ==
    \/ CheckHealth
    \/ FetchPods
    \/ \E p \in Pods : ProcessPod(p)
    \/ FetchSpec
    \/ FetchStats
    \/ \E c \in Containers : ProcessContainer(c)
    \/ Flush
    \/ NewCycle

Node ==
    \/ \E p \in Pods : PodScheduled(p) \/ PodStarted(p) \/ PodDeleted(p)
    \/ \E c \in Containers : ContainerStarted(c) \/ ContainerExited(c)

Next == Check \/ Node

\* No fairness: the properties checked are safety properties.
Spec == Init /\ [][Next]_vars


-----------------------------------------------------------------------------
(* Properties                                                              *)

TypeOK ==
    /\ podPhase \in [Pods -> PodPhases]
    /\ ctrState \in [Containers -> CtrStates]
    /\ pc \in PcValues
    /\ probe \in Probes
    /\ health \in {0, 1, NoValue}
    /\ podList \in {"unfetched", "ok", "failed"}
    /\ cadvisor \in {"unfetched", "ok", "failed"}
    /\ podQueue \subseteq Pods
    /\ idSnap \subseteq Containers
    /\ podDims \in [Keys -> Pods \cup {NoPod}]
    /\ ctrDims \in [Containers \cup {NoId} -> CtrDim \cup {NoDims}]
    /\ podGauges \subseteq Pods
    /\ specSnap \subseteq Containers
    /\ statsSnap \subseteq Containers
    /\ pending \subseteq Containers
    /\ podAcc \in [Keys -> [Metrics -> SumValue]]
    /\ netAcc \in [Keys -> [Interfaces -> [NetMetrics -> SumValue]]]
    /\ podSamples \subseteq PodSample
    /\ netSamples \subseteq NetSample
    /\ fault \in {"none", "spec", "podmap"}

\* Every pod_key that holds a sum is a key of pod_dimension_map, so the
\* lookups pod_dimension_map[pod_key] of send_pod_metrics and
\* send_network_pod_metrics never raise: a container reaches a pod's sums
\* only through a pod of the /pods snapshot, by its id or by its labels.
FlushLookupSafe == AccKeys \cup NetAccKeys \subseteq KnownKeys

\* Every dimension dict of container_dimension_map was stored together with
\* its pod's entry of pod_dimension_map, so a container matched by its id
\* reaches a known pod_key: the strengthening FlushLookupSafe needs to be
\* inductive.
CtrDimsKnown ==
    \A id \in Containers \cup {NoId} :
        ctrDims[id] # NoDims => podDims[Key(ctrDims[id].pod)] # NoPod
FlushLookupInv == TypeOK /\ FlushLookupSafe /\ CtrDimsKnown

\* The containers of the stats document that belong to pod p and report
\* metric m (interface i), and the sum of their values.
Contributors(p, m) == {c \in statsSnap : PodOf[c] = p /\ m \in Reports[c]}
NetContributors(p, i) == {c \in statsSnap : PodOf[c] = p /\ i \in NetReports[c]}
Total(S) == MapThenSumSet(LAMBDA c : Val[c], S)

\* When a cycle has flushed, every pod-level sample carries, for the pod
\* whose dimensions it is emitted with, exactly the sum of that pod's
\* containers in the stats document -- those matched by container id and
\* those (pause containers, containers started after /pods was read) matched
\* by their labels -- and every pod of the /pods snapshot with a reporting
\* container in the stats document gets its sample.
PodSumsExact ==
    (pc = "done" /\ cadvisor = "ok") =>
        /\ \A s \in podSamples : s.value = Total(Contributors(s.pod, s.metric))
        /\ \A s \in netSamples :
              s.value = Total(NetContributors(s.pod, s.interface))
        /\ \A k \in KnownKeys, m \in Metrics :
              Contributors(podDims[k], m) # {} =>
                 \E s \in podSamples : s.pod = podDims[k] /\ s.metric = m
        /\ \A k \in KnownKeys, i \in Interfaces :
              NetContributors(podDims[k], i) # {} =>
                 \E s \in netSamples : s.pod = podDims[k] /\ s.interface = i

\* The spec (4.1, 7): a lookup miss between the two cAdvisor documents or
\* the pod map degrades a container, it never aborts the cycle.
CheckNeverRaises == fault = "none"

=============================================================================
