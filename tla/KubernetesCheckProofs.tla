------------------------ MODULE KubernetesCheckProofs ------------------------
(***************************************************************************)
(* Proofs about KubernetesCheck for every value of the constants: the type *)
(* invariant, and that the pod_key lookups of the flush never fail.        *)
(***************************************************************************)
EXTENDS KubernetesCheck, TLAPS

USE ConstantsAssumption

\* Every pod's key is one of the Keys.
LEMMA KeyType == \A p \in Pods : Key(p) \in Keys
BY DEF Key, Keys

\* The running sum of _add_pod_metric and _parse_network stays a number.
LEMMA AddToType == \A old \in SumValue, v \in Nat : AddTo(old, v) \in Nat
BY DEF AddTo, SumValue

\* The pod_key Correlate finds is a key or None.
LEMMA CorrelateType ==
    ASSUME TypeOK, NEW c \in Containers
    PROVE  Correlate(c) \in Keys \cup {NoKey}
<1>1. CASE ctrDims[MatchedAlias(c)] # NoDims
  <2>1. ctrDims[c] \in CtrDim
    BY <1>1 DEF TypeOK, MatchedAlias
  <2>2. QED BY <1>1, <2>1, KeyType DEF Correlate, MatchedAlias, CtrDim
<1>2. CASE ctrDims[MatchedAlias(c)] = NoDims
  BY <1>2, KeyType DEF Correlate, LabelKey
<1>3. QED BY <1>1, <1>2

\* The initial state of the collector is well typed.
LEMMA TypeInit == Init => TypeOK
BY DEF Init, TypeOK, PodPhases, CtrStates, PcValues, Probes, EmptyPodDims,
       EmptyCtrDims, EmptyPodAcc, EmptyNetAcc, SumValue

\* Every step of check() and of the node keeps the state well typed.
LEMMA TypeStep == TypeOK /\ [Next]_vars => TypeOK'
<1> SUFFICES ASSUME TypeOK, [Next]_vars PROVE TypeOK'
  OBVIOUS
<1>1. ASSUME NEW p \in Pods, PodScheduled(p) \/ PodStarted(p) \/ PodDeleted(p)
      PROVE  TypeOK'
  BY <1>1 DEF PodScheduled, PodStarted, PodDeleted, TypeOK, PodPhases, cycleVars
<1>2. ASSUME NEW c \in Containers, ContainerStarted(c) \/ ContainerExited(c)
      PROVE  TypeOK'
  BY <1>2 DEF ContainerStarted, ContainerExited, TypeOK, CtrStates, cycleVars
<1>3. CASE CheckHealth
  <2>1. probe' \in Probes /\ health' \in {0, 1, NoValue} /\ pc' \in PcValues
    BY <1>3 DEF CheckHealth, Probes, PcValues
  <2>2. UNCHANGED <<envVars, podList, cadvisor, podQueue, idSnap, podDims,
                    ctrDims, podGauges, specSnap, statsSnap, pending, podAcc,
                    netAcc, podSamples, netSamples, fault>>
    BY <1>3 DEF CheckHealth
  <2>3. QED BY <2>1, <2>2 DEF TypeOK, envVars
<1>4. CASE FetchPods
  <2>1. /\ podList' \in {"unfetched", "ok", "failed"}
        /\ podQueue' \subseteq Pods /\ idSnap' \subseteq Containers
        /\ pc' \in PcValues
    BY <1>4 DEF FetchPods, TypeOK, PcValues
  <2>2. UNCHANGED <<envVars, probe, health, cadvisor, podDims, ctrDims,
                    podGauges, specSnap, statsSnap, pending, podAcc, netAcc,
                    podSamples, netSamples, fault>>
    BY <1>4 DEF FetchPods
  <2>3. QED BY <2>1, <2>2 DEF TypeOK, envVars
<1>5. ASSUME NEW p \in Pods, ProcessPod(p) PROVE TypeOK'
  <2>1. podDims' \in [Keys -> Pods \cup {NoPod}]
    BY <1>5, KeyType DEF ProcessPod, TypeOK
  <2>2. ctrDims' \in [Containers \cup {NoId} -> CtrDim \cup {NoDims}]
    <3> DEFINE withId == [id \in Containers \cup {NoId} |->
                            IF id \in StatusContainers(p) \cap idSnap
                            THEN [pod |-> p, container |-> id]
                            ELSE ctrDims[id]]
    <3>1. withId \in [Containers \cup {NoId} -> CtrDim \cup {NoDims}]
      BY DEF TypeOK, CtrDim, StatusContainers
    <3>2. \/ ctrDims' = withId
          \/ \E w \in StatusContainers(p) :
                ctrDims' = [withId EXCEPT ![NoId] = [pod |-> p, container |-> w]]
      BY <1>5 DEF ProcessPod
    <3>3. \A w \in StatusContainers(p) : [pod |-> p, container |-> w] \in CtrDim
      BY DEF StatusContainers, CtrDim
    <3>4. CASE ctrDims' = withId
      BY <3>1, <3>4
    <3>5. ASSUME NEW w \in StatusContainers(p),
                 ctrDims' = [withId EXCEPT ![NoId] = [pod |-> p, container |-> w]]
          PROVE  ctrDims' \in [Containers \cup {NoId} -> CtrDim \cup {NoDims}]
      <4>1. [pod |-> p, container |-> w] \in CtrDim
        BY <3>3
      <4>2. QED BY <3>1, <3>5, <4>1
    <3>6. QED BY <3>2, <3>4, <3>5
  <2>3. /\ podGauges' \subseteq Pods /\ podQueue' \subseteq Pods
        /\ pc' \in PcValues
    BY <1>5 DEF ProcessPod, TypeOK, PcValues
  <2>4. UNCHANGED <<envVars, probe, health, podList, cadvisor, idSnap,
                    specSnap, statsSnap, pending, podAcc, netAcc, podSamples,
                    netSamples, fault>>
    BY <1>5 DEF ProcessPod
  <2>5. QED
    BY <2>1, <2>2, <2>3, <2>4 DEF TypeOK, envVars
<1>6. CASE FetchSpec
  <2>1. /\ cadvisor' \in {"unfetched", "ok", "failed"}
        /\ specSnap' \subseteq Containers /\ pc' \in PcValues
    BY <1>6 DEF FetchSpec, TypeOK, Running, PcValues
  <2>2. UNCHANGED <<envVars, probe, health, podList, podQueue, idSnap, podDims,
                    ctrDims, podGauges, statsSnap, pending, podAcc, netAcc,
                    podSamples, netSamples, fault>>
    BY <1>6 DEF FetchSpec
  <2>3. QED BY <2>1, <2>2 DEF TypeOK, envVars
<1>7. CASE FetchStats
  <2>1. /\ cadvisor' \in {"unfetched", "ok", "failed"}
        /\ statsSnap' \subseteq Containers /\ pending' \subseteq Containers
        /\ podAcc' \in [Keys -> [Metrics -> SumValue]]
        /\ netAcc' \in [Keys -> [Interfaces -> [NetMetrics -> SumValue]]]
        /\ pc' \in PcValues
    BY <1>7 DEF FetchStats, TypeOK, Running, PcValues, EmptyPodAcc,
                EmptyNetAcc, SumValue
  <2>2. UNCHANGED <<envVars, probe, health, podList, podQueue, idSnap, podDims,
                    ctrDims, podGauges, specSnap, podSamples, netSamples, fault>>
    BY <1>7 DEF FetchStats
  <2>3. QED BY <2>1, <2>2 DEF TypeOK, envVars
<1>8. ASSUME NEW c \in Containers, ProcessContainer(c) PROVE TypeOK'
  <2>1. CASE c \notin specSnap
    BY <1>8, <2>1 DEF ProcessContainer, TypeOK, PcValues, envVars
  <2>2. CASE c \in specSnap /\ Correlate(c) = NoKey
    BY <1>8, <2>2 DEF ProcessContainer, TypeOK, envVars
  <2>3. CASE c \in specSnap /\ Correlate(c) # NoKey
    <3> DEFINE k == Correlate(c)
    <3>1. k \in Keys
      BY <2>3, CorrelateType
    <3>2. podAcc' \in [Keys -> [Metrics -> SumValue]]
      <4>1. podAcc' = [podAcc EXCEPT ![k] =
               [m \in Metrics |-> IF m \in Reports[c]
                                  THEN AddTo(podAcc[k][m], Val[c])
                                  ELSE podAcc[k][m]]]
        BY <1>8, <2>3 DEF ProcessContainer
      <4>2. [m \in Metrics |-> IF m \in Reports[c]
                               THEN AddTo(podAcc[k][m], Val[c])
                               ELSE podAcc[k][m]] \in [Metrics -> SumValue]
        <5>1. Val[c] \in Nat /\ \A m \in Metrics : podAcc[k][m] \in SumValue
          BY <3>1 DEF TypeOK
        <5>2. QED BY <5>1, AddToType DEF SumValue
      <4>3. QED BY <4>1, <4>2, <3>1 DEF TypeOK
    <3>3. netAcc' \in [Keys -> [Interfaces -> [NetMetrics -> SumValue]]]
      <4>1. netAcc' = [netAcc EXCEPT ![k] =
               [i \in Interfaces |-> IF i \in NetReports[c]
                   THEN [m \in NetMetrics |-> AddTo(netAcc[k][i][m], Val[c])]
                   ELSE netAcc[k][i]]]
        BY <1>8, <2>3 DEF ProcessContainer
      <4>2. \A i \in Interfaces :
              [m \in NetMetrics |-> AddTo(netAcc[k][i][m], Val[c])]
                 \in [NetMetrics -> SumValue]
        <5>1. Val[c] \in Nat
              /\ \A i \in Interfaces, m \in NetMetrics : netAcc[k][i][m] \in SumValue
          BY <3>1 DEF TypeOK
        <5>2. QED BY <5>1, AddToType DEF SumValue
      <4>3. [i \in Interfaces |-> IF i \in NetReports[c]
                THEN [m \in NetMetrics |-> AddTo(netAcc[k][i][m], Val[c])]
                ELSE netAcc[k][i]] \in [Interfaces -> [NetMetrics -> SumValue]]
        BY <3>1, <4>2 DEF TypeOK
      <4>4. QED BY <4>1, <4>3, <3>1 DEF TypeOK
    <3>4. QED
      BY <1>8, <2>3, <3>2, <3>3 DEF ProcessContainer, TypeOK, envVars
  <2>4. QED BY <2>1, <2>2, <2>3
<1>9. CASE Flush
  <2>1. \A K \in SUBSET KnownKeys : PodSamplesOf(K) \subseteq PodSample
    BY DEF PodSamplesOf, PodSample, KnownKeys, TypeOK, SumValue
  <2>2. \A K \in SUBSET KnownKeys : NetSamplesOf(K) \subseteq NetSample
    BY DEF NetSamplesOf, NetSample, KnownKeys, TypeOK, SumValue
  <2>3. CASE AccKeys \cup NetAccKeys \subseteq KnownKeys
    <3>1. /\ podSamples' = PodSamplesOf(AccKeys)
          /\ netSamples' = NetSamplesOf(NetAccKeys)
          /\ pc' = "done" /\ fault' = fault
      BY <1>9, <2>3 DEF Flush
    <3>2. AccKeys \in SUBSET KnownKeys /\ NetAccKeys \in SUBSET KnownKeys
      BY <2>3
    <3>3. podSamples' \subseteq PodSample /\ netSamples' \subseteq NetSample
      BY <3>1, <3>2, <2>1, <2>2
    <3>4. UNCHANGED <<envVars, probe, health, podList, cadvisor, podQueue,
                      idSnap, podDims, ctrDims, podGauges, specSnap,
                      statsSnap, pending, podAcc, netAcc>>
      BY <1>9 DEF Flush
    <3>5. QED BY <3>1, <3>3, <3>4 DEF TypeOK, PcValues, envVars
  <2>4. CASE ~(AccKeys \cup NetAccKeys \subseteq KnownKeys)
    <3>1. podSamples' \subseteq PodSample /\ netSamples' \subseteq NetSample
      BY <1>9, <2>1, <2>2, <2>4 DEF Flush
    <3>2. QED BY <1>9, <2>4, <3>1 DEF Flush, TypeOK, PcValues, envVars
  <2>5. QED BY <2>3, <2>4
<1>10. CASE NewCycle
  BY <1>10 DEF NewCycle, TypeOK, PcValues, Probes, EmptyPodDims,
               EmptyCtrDims, EmptyPodAcc, EmptyNetAcc, SumValue, envVars
<1>11. CASE UNCHANGED vars
  BY <1>11 DEF vars, envVars, cycleVars, TypeOK
<1>12. QED
  BY <1>1, <1>2, <1>3, <1>4, <1>5, <1>6, <1>7, <1>8, <1>9, <1>10, <1>11
     DEF Next, Check, Node

\* Kubernetes.check keeps every variable of its cycle within its type, for
\* any pods, containers, metrics and interfaces.
THEOREM TypeCorrect == Spec => []TypeOK
BY TypeInit, TypeStep, PTL DEF Spec



-----------------------------------------------------------------------------
(* FlushLookupSafe.  It is not inductive alone: a container matched by its *)
(* id takes the pod of container_dimension_map, so that pod's key must be  *)
(* known too (CtrDimsKnown).                                               *)

\* A step that leaves the two maps and the sums alone keeps the invariant.
LEMMA MapsUnchanged ==
    ASSUME FlushLookupSafe, CtrDimsKnown,
           UNCHANGED <<podDims, ctrDims, podAcc, netAcc>>
    PROVE  FlushLookupSafe' /\ CtrDimsKnown'
BY DEF FlushLookupSafe, CtrDimsKnown, AccKeys, NetAccKeys, KnownKeys

\* The pod_key _get_container_dimensions finds, by id or by labels, is a key
\* of pod_dimension_map.
LEMMA CorrelateKnown ==
    ASSUME TypeOK, CtrDimsKnown, NEW c \in Containers, Correlate(c) # NoKey
    PROVE  Correlate(c) \in KnownKeys
<1>1. CASE ctrDims[c] # NoDims
  <2>1. ctrDims[c] \in CtrDim
    BY <1>1 DEF TypeOK
  <2>2. Correlate(c) = Key(ctrDims[c].pod) /\ ctrDims[c].pod \in Pods
    BY <1>1, <2>1 DEF Correlate, MatchedAlias, CtrDim
  <2>3. QED BY <1>1, <2>2, KeyType DEF CtrDimsKnown, KnownKeys
<1>2. CASE ctrDims[c] = NoDims
  <2>1. Correlate(c) = LabelKey(c) /\ PodOf[c] \in Pods /\ podDims[LabelKey(c)] # NoPod
    BY <1>2 DEF Correlate, MatchedAlias
  <2>2. QED BY <2>1, KeyType DEF LabelKey, KnownKeys
<1>3. QED BY <1>1, <1>2

\* ProcessPod stores pod p's dimensions with the dimension dicts naming p.
LEMMA ProcessPodKeeps ==
    ASSUME TypeOK, FlushLookupSafe, CtrDimsKnown, NEW p \in Pods, ProcessPod(p)
    PROVE  FlushLookupSafe' /\ CtrDimsKnown'
<1> DEFINE withId == [id \in Containers \cup {NoId} |->
                        IF id \in StatusContainers(p) \cap idSnap
                        THEN [pod |-> p, container |-> id]
                        ELSE ctrDims[id]]
<1>1. podDims' = [podDims EXCEPT ![Key(p)] = p] /\ Key(p) \in Keys
  BY KeyType DEF ProcessPod
<1>2. \A k \in Keys : podDims[k] # NoPod => podDims'[k] # NoPod
  BY <1>1 DEF TypeOK
<1>3. podDims'[Key(p)] # NoPod
  BY <1>1 DEF TypeOK
<1>4. UNCHANGED <<podAcc, netAcc>>
  BY DEF ProcessPod
<1>5. FlushLookupSafe'
  BY <1>2, <1>4 DEF FlushLookupSafe, AccKeys, NetAccKeys, KnownKeys
<1>6. \A id \in Containers \cup {NoId} :
         withId[id] # NoDims => podDims'[Key(withId[id].pod)] # NoPod
  BY <1>2, <1>3, KeyType DEF CtrDimsKnown, TypeOK, CtrDim
<1>7. \/ ctrDims' = withId
      \/ \E w \in StatusContainers(p) :
            ctrDims' = [withId EXCEPT ![NoId] = [pod |-> p, container |-> w]]
  BY DEF ProcessPod
<1>8. CtrDimsKnown'
  <2>1. CASE ctrDims' = withId
    BY <1>6, <2>1 DEF CtrDimsKnown
  <2>2. ASSUME NEW w \in StatusContainers(p),
               ctrDims' = [withId EXCEPT ![NoId] = [pod |-> p, container |-> w]]
        PROVE  CtrDimsKnown'
    <3>1. ctrDims'[NoId] = [pod |-> p, container |-> w]
      BY <2>2
    <3>2. \A id \in Containers : ctrDims'[id] = withId[id]
      BY <2>2
    <3>3. SUFFICES ASSUME NEW id \in Containers \cup {NoId}, ctrDims'[id] # NoDims
                   PROVE  podDims'[Key(ctrDims'[id].pod)] # NoPod
      BY DEF CtrDimsKnown
    <3>4. CASE id = NoId
      BY <1>3, <3>1, <3>4
    <3>5. CASE id \in Containers
      BY <1>6, <3>2, <3>3, <3>5
    <3>6. QED BY <3>4, <3>5
  <2>3. QED BY <1>7, <2>1, <2>2
<1>9. QED BY <1>5, <1>8

\* ProcessContainer adds to the sums of a known pod_key only.
LEMMA ProcessContainerKeeps ==
    ASSUME TypeOK, FlushLookupSafe, CtrDimsKnown, NEW c \in Containers,
           ProcessContainer(c)
    PROVE  FlushLookupSafe' /\ CtrDimsKnown'
<1>1. UNCHANGED <<podDims, ctrDims>>
  BY DEF ProcessContainer
<1>2. CASE UNCHANGED <<podAcc, netAcc>>
  BY <1>1, <1>2, MapsUnchanged
<1>3. CASE ~UNCHANGED <<podAcc, netAcc>>
  <2> DEFINE pk == Correlate(c)
  <2>1. pk # NoKey /\ c \in specSnap
    BY <1>3 DEF ProcessContainer
  <2>2. pk \in KnownKeys
    BY <2>1, CorrelateKnown
  <2>3. \A j \in Keys \ {pk} : podAcc'[j] = podAcc[j] /\ netAcc'[j] = netAcc[j]
    BY <2>1 DEF ProcessContainer, TypeOK
  <2>4. AccKeys' \subseteq AccKeys \cup {pk} /\ NetAccKeys' \subseteq NetAccKeys \cup {pk}
    <3>1. ASSUME NEW j \in AccKeys', j # pk PROVE j \in AccKeys
      BY <2>3, <3>1 DEF AccKeys
    <3>2. ASSUME NEW j \in NetAccKeys', j # pk PROVE j \in NetAccKeys
      <4>1. j \in Keys /\ \E i \in Interfaces, m \in NetMetrics : netAcc'[j][i][m] # NoValue
        BY <3>2 DEF NetAccKeys
      <4>2. netAcc'[j] = netAcc[j]
        BY <2>3, <3>2, <4>1
      <4>3. QED BY <4>1, <4>2 DEF NetAccKeys
    <3>3. QED BY <3>1, <3>2, Zenon
  <2>5. KnownKeys' = KnownKeys
    BY <1>1 DEF KnownKeys
  <2>6. FlushLookupSafe'
    BY <2>2, <2>4, <2>5 DEF FlushLookupSafe
  <2>7. CtrDimsKnown'
    BY <1>1 DEF CtrDimsKnown
  <2>8. QED BY <2>6, <2>7
<1>4. QED BY <1>2, <1>3

\* Every step of check() and of the node keeps the strengthened invariant.
LEMMA FlushLookupStep == FlushLookupInv /\ [Next]_vars => FlushLookupInv'
<1> SUFFICES ASSUME TypeOK, FlushLookupSafe, CtrDimsKnown, [Next]_vars
             PROVE  FlushLookupSafe' /\ CtrDimsKnown'
  BY TypeStep DEF FlushLookupInv
<1>1. CASE Node
  BY <1>1, MapsUnchanged
     DEF Node, PodScheduled, PodStarted, PodDeleted, ContainerStarted,
         ContainerExited, cycleVars
<1>2. CASE CheckHealth \/ FetchPods \/ FetchSpec \/ Flush
  BY <1>2, MapsUnchanged DEF CheckHealth, FetchPods, FetchSpec, Flush
<1>3. CASE \E p \in Pods : ProcessPod(p)
  BY <1>3, ProcessPodKeeps
<1>4. CASE \E c \in Containers : ProcessContainer(c)
  BY <1>4, ProcessContainerKeeps
<1>5. CASE FetchStats
  <2>1. UNCHANGED <<podDims, ctrDims>>
    BY <1>5 DEF FetchStats
  <2>2. CASE UNCHANGED <<podAcc, netAcc>>
    BY <2>1, <2>2, MapsUnchanged
  <2>3. CASE podAcc' = EmptyPodAcc /\ netAcc' = EmptyNetAcc
    <3>1. AccKeys' = {} /\ NetAccKeys' = {}
      BY <2>3 DEF AccKeys, NetAccKeys, EmptyPodAcc, EmptyNetAcc
    <3>2. QED BY <2>1, <3>1 DEF FlushLookupSafe, CtrDimsKnown
  <2>4. QED BY <1>5, <2>2, <2>3 DEF FetchStats
<1>6. CASE NewCycle
  <2>1. AccKeys' = {} /\ NetAccKeys' = {}
    BY <1>6 DEF NewCycle, AccKeys, NetAccKeys, EmptyPodAcc, EmptyNetAcc
  <2>2. \A id \in Containers \cup {NoId} : ctrDims'[id] = NoDims
    BY <1>6 DEF NewCycle, EmptyCtrDims
  <2>3. QED BY <2>1, <2>2 DEF FlushLookupSafe, CtrDimsKnown
<1>7. CASE UNCHANGED vars
  BY <1>7, MapsUnchanged DEF vars, cycleVars
<1>8. QED BY <1>1, <1>2, <1>3, <1>4, <1>5, <1>6, <1>7 DEF Next, Check

\* The pod_dimension_map lookups of send_pod_metrics and
\* send_network_pod_metrics never raise KeyError, for any pods and
\* containers: every pod_key with a sum is a key of pod_dimension_map.
THEOREM FlushLookupSafeInvariant == Spec => []FlushLookupSafe
<1>1. Init => FlushLookupInv
  <2> SUFFICES ASSUME Init PROVE FlushLookupInv
    OBVIOUS
  <2>1. TypeOK BY TypeInit
  <2>2. AccKeys = {} /\ NetAccKeys = {}
    BY DEF Init, AccKeys, NetAccKeys, EmptyPodAcc, EmptyNetAcc
  <2>3. \A id \in Containers \cup {NoId} : ctrDims[id] = NoDims
    BY DEF Init, EmptyCtrDims
  <2>4. QED BY <2>1, <2>2, <2>3 DEF FlushLookupInv, FlushLookupSafe, CtrDimsKnown
<1>2. FlushLookupInv => FlushLookupSafe
  BY DEF FlushLookupInv
<1>3. QED BY <1>1, <1>2, FlushLookupStep, PTL DEF Spec

=============================================================================
