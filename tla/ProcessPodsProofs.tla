-------------------------- MODULE ProcessPodsProofs --------------------------
(***************************************************************************)
(* Proofs about ProcessPods for every value of the constants: every        *)
(* dimension dict _process_pods builds, of a pod or of a container, and    *)
(* every gauge it sends holds only the dimensions the check means to set:  *)
(* name, namespace, container_name, the configured labels and one of the   *)
(* owner keys.                                                             *)
(***************************************************************************)
EXTENDS ProcessPods, NaturalsInduction, TLAPS

USE PodsAssumption

\* The configured kubernetes_labels do not include the container_name
\* dimension the check sets itself on container dimensions.
LabelsNotContainerName == "container_name" \notin KubernetesLabels

-----------------------------------------------------------------------------
(* Dimension dicts.                                                        *)

\* dict.update of two dimension dicts is one.
LEMMA UpdateDims ==
    ASSUME NEW d, NEW e, IsDims(d), IsDims(e) PROVE IsDims(Update(d, e))
BY DEF IsDims, Update

\* "-".join(name.split("-")[:-1]) of a name is a name.
LEMMA DeploymentNameType ==
    ASSUME NEW segs \in Seq(STRING) PROVE DeploymentName(segs) \in Seq(STRING)
<1>1. Len(segs) \in Nat
  OBVIOUS
<1>2. CASE Len(segs) = 0
  <2>1. DeploymentName(segs) = <<>>
    BY <1>2 DEF DeploymentName
  <2>2. QED BY <2>1
<1>3. CASE Len(segs) > 0
  <2>1. DeploymentName(segs) = [j \in 1 .. Len(segs) - 1 |-> segs[j]]
    BY <1>3 DEF DeploymentName
  <2>2. \A j \in 1 .. Len(segs) - 1 : segs[j] \in STRING
    BY <1>3
  <2>3. QED BY <1>3, <2>1, <2>2
<1>4. QED BY <1>1, <1>2, <1>3

\* The owner dimension _set_pod_owner_dimension sets, if any, is one of the
\* owner keys, with a name for value.
LEMMA OwnerDimensionDims ==
    ASSUME NEW kind, NEW name \in Seq(STRING), NEW outcome
    PROVE  IsDims(OwnerDimension(kind, name, outcome))
<1> DEFINE dep == IF HasConnector THEN GetDeploymentName(name, outcome) ELSE <<>>
<1>1. dep \in Seq(STRING)
  <2>1. DeploymentName(name) \in Seq(STRING)
    BY DeploymentNameType
  <2>2. << >> \in Seq(STRING)
    OBVIOUS
  <2>3. GetDeploymentName(name, outcome) \in Seq(STRING)
    BY <2>1, <2>2, Zenon DEF GetDeploymentName
  <2>4. QED BY <2>2, <2>3, Zenon
<1>2. CASE kind = "ReplicaSet"
  <2>1. OwnerDimension(kind, name, outcome) =
          IF IsEmptyName(dep) THEN [x \in {"replica_set"} |-> name]
                              ELSE [x \in {"deployment"} |-> dep]
    BY <1>2 DEF OwnerDimension
  <2>2. IsDims([x \in {"replica_set"} |-> name]) /\ IsDims([x \in {"deployment"} |-> dep])
    BY <1>1 DEF IsDims, OwnerKeys
  <2>3. QED BY <2>1, <2>2
<1>3. CASE kind # "ReplicaSet"
  BY <1>3 DEF OwnerDimension, IsDims, OwnerKeys
<1>4. QED BY <1>2, <1>3

\* _get_pod_dimensions gives a dimension dict: name, namespace, the
\* configured labels the pod has and the owner dimension.
LEMMA PodDimensionsDims ==
    ASSUME LabelsNotContainerName, NEW pod, IsPod(pod), NEW outcome
    PROVE  IsDims(PodDimensions(pod, outcome))
<1> DEFINE names == [x \in {"pod_name", "namespace"} |->
                       IF x = "pod_name" THEN pod.name ELSE pod.namespace]
           labels == Restrict(pod.labels, DOMAIN pod.labels \cap KubernetesLabels)
           base == Update(names, labels)
           ref == OwnerRef(pod)
<1>1. IsDims(names)
  BY DEF IsPod, IsDims
<1>2. IsDims(labels)
  BY DEF IsPod, IsDims, Restrict, LabelsNotContainerName
<1>3. IsDims(base)
  BY <1>1, <1>2, UpdateDims
<1>4. ref \in Ref \cup {NoAnnot}
  BY DEF IsPod, OwnerRef
<1>5. CASE ref = NoAnnot
  BY <1>3, <1>5 DEF PodDimensions
<1>6. CASE ref # NoAnnot
  <2>1. ref.name \in Seq(STRING)
    BY <1>4, <1>6 DEF Ref
  <2>2. IsDims(OwnerDimension(ref.kind, ref.name, outcome))
    BY <2>1, OwnerDimensionDims
  <2>3. QED BY <1>3, <1>6, <2>2, UpdateDims DEF PodDimensions
<1>7. QED BY <1>5, <1>6

\* A container's dimensions: its pod's with container_name set.
LEMMA ContainerDims ==
    ASSUME NEW d, IsDims(d), NEW n \in STRING
    PROVE  IsDims(Put(d, "container_name", n))
BY DEF IsDims, Put, Update

\* The limit and request gauges of a container carry the dimensions they
\* were given.
LEMMA ResourceGaugesDims ==
    ASSUME NEW res, NEW cm, NEW mm, NEW dims, NEW c,
           NEW g \in ResourceGauges(res, cm, mm, dims, c)
    PROVE  g.dims = dims
BY DEF ResourceGauges

-----------------------------------------------------------------------------
(* The inductive invariant.                                                *)

\* The pod in hand is one of the document's, the status index counts from
\* 1, and every container name
\* name2id knows has its dimensions in container_dimension_map.
PodsInv ==
    /\ TypeOK
    /\ si \in Nat \ {0}
    /\ pc \in {"status", "limits", "gauges"} =>
          /\ pi \in 1 .. Len(pods)
          /\ \A n \in DOMAIN name2id : name2id[n] \in DOMAIN ctrMap

\* The document of the call is a list of pods.
LEMMA PodsShape ==
    ASSUME pods \in PodLists \cup {<< >>}
    PROVE  /\ Len(pods) \in Nat /\ DOMAIN pods = 1 .. Len(pods)
           /\ \A k \in DOMAIN pods : IsPod(pods[k])
<1>1. CASE pods = << >>
  BY <1>1
<1>2. CASE pods \in PodLists
  <2> DEFINE S == {pods[k] : k \in DOMAIN pods}
  <2>1. pods \in Seq(S) /\ \A k \in DOMAIN pods : IsPod(pods[k])
    BY <1>2, Zenon
  <2>2. Len(pods) \in Nat /\ DOMAIN pods = 1 .. Len(pods)
    BY <2>1
  <2>3. QED BY <2>1, <2>2
<1>3. QED BY <1>1, <1>2

\* What one step of the container status loop changes: name2id and
\* container_dimension_map get the status, pod_retry_count its restarts,
\* and the only new gauges are its ready and restart gauges.
LEMMA StatusEffect ==
    ASSUME Status
    PROVE  /\ pc = "status" /\ si <= Len(pods[pi].statuses)
           /\ name2id' = Put(name2id, pods[pi].statuses[si].name, pods[pi].statuses[si].id)
           /\ ctrMap' = Put(ctrMap, pods[pi].statuses[si].id,
                            Put(podDims, "container_name", pods[pi].statuses[si].name))
           /\ retry' = retry + pods[pi].statuses[si].restarts
           /\ si' = si + 1
           /\ UNCHANGED <<pods, pc, pi, li, podDims, lookups, fault>>
           /\ gauges \subseteq gauges'
           /\ \A g \in gauges' \ gauges :
                 /\ g.metric \in {"container.ready_status", "container.restart_count"}
                 /\ g.dims = Put(podDims, "container_name", pods[pi].statuses[si].name)
<1> DEFINE st == pods[pi].statuses[si]
           cdims == Put(podDims, "container_name", st.name)
           new == {[metric |-> "container.ready_status", dims |-> cdims,
                    of |-> st.name, value |-> IF st.ready THEN 0 ELSE 1],
                   [metric |-> "container.restart_count", dims |-> cdims,
                    of |-> st.name, value |-> st.restarts]}
<1>1. /\ pc = "status" /\ si <= Len(pods[pi].statuses)
      /\ name2id' = Put(name2id, st.name, st.id)
      /\ ctrMap' = Put(ctrMap, st.id, cdims)
      /\ retry' = retry + st.restarts
      /\ si' = si + 1
      /\ UNCHANGED <<pods, pc, pi, li, podDims, lookups, fault>>
  BY DEF Status
<1>2. gauges' = IF ReportContainerMetrics THEN gauges \cup new ELSE gauges
  BY DEF Status
<1>3. /\ gauges \subseteq gauges'
      /\ \A g \in gauges' \ gauges :
            g.metric \in {"container.ready_status", "container.restart_count"} /\ g.dims = cdims
  BY <1>2
<1>4. QED BY <1>1, <1>3

\* The limit and request gauges carry one of the two metric names they are given.
LEMMA ResourceGaugesMetric ==
    ASSUME NEW res, NEW cm, NEW mm, NEW dims, NEW c,
           NEW g \in ResourceGauges(res, cm, mm, dims, c)
    PROVE  g.metric \in {cm, mm}
BY DEF ResourceGauges

\* The limit and request gauge names of _report_container_limits.
LimitMetrics == {"container.cpu.limit", "container.memory.limit_bytes",
                 "container.request.cpu", "container.request.memory_bytes"}

\* What one step of the limits loop changes: a name missing from name2id
\* ends the call with the KeyError, any other sends only limit and request
\* gauges and moves to the next spec container.
LEMMA LimitsEffect ==
    ASSUME Limits
    PROVE  /\ pc = "limits" /\ li <= Len(pods[pi].spec)
           /\ UNCHANGED <<pods, pi, si, podDims, ctrMap, name2id, retry, lookups>>
           /\ pods[pi].spec[li].name \notin DOMAIN name2id =>
                 /\ fault' = "name2id" /\ pc' = "idle"
                 /\ UNCHANGED <<li, gauges>>
           /\ pods[pi].spec[li].name \in DOMAIN name2id =>
                 /\ li' = li + 1 /\ UNCHANGED <<pc, fault>>
                 /\ gauges \subseteq gauges'
                 /\ \A g \in gauges' \ gauges : g.metric \in LimitMetrics
<1> DEFINE c == pods[pi].spec[li].name
<1>1. /\ pc = "limits" /\ li <= Len(pods[pi].spec)
      /\ UNCHANGED <<pods, pi, si, podDims, ctrMap, name2id, retry, lookups>>
  BY DEF Limits
<1>2. ASSUME c \notin DOMAIN name2id
      PROVE  fault' = "name2id" /\ pc' = "idle" /\ UNCHANGED <<li, gauges>>
  BY <1>2 DEF Limits
<1>3. ASSUME c \in DOMAIN name2id
      PROVE  /\ li' = li + 1 /\ UNCHANGED <<pc, fault>>
             /\ gauges \subseteq gauges'
             /\ \A g \in gauges' \ gauges : g.metric \in LimitMetrics
  <2> DEFINE lim == ResourceGauges(pods[pi].spec[li].limits, "container.cpu.limit",
                                    "container.memory.limit_bytes", ctrMap[name2id[c]], c)
             req == ResourceGauges(pods[pi].spec[li].requests, "container.request.cpu",
                                    "container.request.memory_bytes", ctrMap[name2id[c]], c)
  <2>0. li' = li + 1 /\ UNCHANGED <<pc, fault>>
    BY <1>3 DEF Limits
  <2>1. gauges' = gauges \cup lim \cup req
    BY <1>3 DEF Limits
  <2>2. \A g \in gauges' \ gauges : g.metric \in LimitMetrics
    <3> SUFFICES ASSUME NEW g \in gauges' \ gauges PROVE g.metric \in LimitMetrics
      OBVIOUS
    <3>1. CASE g \in lim
      BY <3>1, ResourceGaugesMetric DEF LimitMetrics
    <3>2. CASE g \in req
      BY <3>2, ResourceGaugesMetric DEF LimitMetrics
    <3>3. QED BY <2>1, <3>1, <3>2
  <2>3. QED BY <2>0, <2>1, <2>2
<1>4. QED BY <1>1, <1>2, <1>3

\* The pod gauges step sends exactly pod.restart_count and pod.phase.
LEMMA PodGaugesEffect ==
    ASSUME PodGauges
    PROVE  /\ pc = "gauges" /\ pc' = "pod" /\ pi' = pi + 1
           /\ UNCHANGED <<pods, si, li, podDims, ctrMap, name2id, retry, lookups, fault>>
           /\ gauges' = gauges \cup
                 {[metric |-> "pod.restart_count", dims |-> podDims, of |-> pi, value |-> retry],
                  [metric |-> "pod.phase", dims |-> podDims, of |-> pi,
                   value |-> POD_PHASE[pods[pi].phase]]}
BY DEF PodGauges

LEMMA PodsInit == Init => PodsInv
BY DEF Init, PodsInv, TypeOK, IsDims

LEMMA PodsStep == LabelsNotContainerName /\ PodsInv /\ [Next]_vars => PodsInv'
<1> SUFFICES ASSUME LabelsNotContainerName, PodsInv, [Next]_vars PROVE PodsInv'
  OBVIOUS
<1>0. /\ Len(pods) \in Nat /\ DOMAIN pods = 1 .. Len(pods)
      /\ \A k \in DOMAIN pods : IsPod(pods[k])
  BY PodsShape DEF PodsInv, TypeOK
<1>1. CASE Begin
  <2>1. PICK l \in PodLists : pods' = l /\ lookups' = [k \in DOMAIN l |-> "none"]
    BY <1>1 DEF Begin
  <2>2. Len(l) \in Nat /\ DOMAIN l = 1 .. Len(l)
    OBVIOUS
  <2>3. QED BY <1>1, <2>1, <2>2 DEF Begin, PodsInv, TypeOK
<1>2. CASE SkipPod
  BY <1>0, <1>2 DEF SkipPod, PodsInv, TypeOK
<1>3. CASE BuildPod
  <2>1. PICK outcome \in IF NeedsLookup(pods[pi]) THEN LookupOutcomes ELSE {"none"} :
            /\ podDims' = PodDimensions(pods[pi], outcome)
            /\ lookups' = [lookups EXCEPT ![pi] = outcome]
    BY <1>3 DEF BuildPod
  <2>2. pi \in 1 .. Len(pods)
    BY <1>0, <1>3 DEF BuildPod, PodsInv, TypeOK
  <2>3. IsDims(podDims')
    BY <1>0, <2>1, <2>2, PodDimensionsDims
  <2>4. outcome \in LookupOutcomes \cup {"none"}
    BY DEF LookupOutcomes
  <2>5. lookups' \in [DOMAIN pods -> LookupOutcomes \cup {"none"}]
    BY <2>1, <2>4 DEF PodsInv, TypeOK
  <2>6. QED BY <1>3, <2>2, <2>3, <2>5 DEF BuildPod, PodsInv, TypeOK
<1>4. CASE Status
  <2> DEFINE st == pods[pi].statuses[si]
             cdims == Put(podDims, "container_name", st.name)
  <2>1. pi \in 1 .. Len(pods) /\ si \in 1 .. Len(pods[pi].statuses)
    BY <1>4, StatusEffect DEF PodsInv
  <2>2. st \in ContainerStatus
    BY <1>0, <2>1 DEF IsPod
  <2>3. IsDims(cdims)
    BY <2>2, ContainerDims DEF ContainerStatus, PodsInv, TypeOK
  <2>4. name2id' = Put(name2id, st.name, st.id) /\ ctrMap' = Put(ctrMap, st.id, cdims)
    BY <1>4, StatusEffect
  <2>5. \A id \in DOMAIN ctrMap' : IsDims(ctrMap'[id])
    BY <2>3, <2>4 DEF PodsInv, TypeOK, Put, Update
  <2>6. \A n \in DOMAIN name2id' : name2id'[n] \in DOMAIN ctrMap'
    BY <1>4, <2>4, StatusEffect DEF PodsInv, Put, Update
  <2>7. \A g \in gauges' : IsDims(g.dims)
    BY <1>4, <2>3, StatusEffect DEF PodsInv, TypeOK
  <2>8. retry' \in Nat
    BY <1>4, <2>2, StatusEffect DEF PodsInv, TypeOK, ContainerStatus
  <2>9. /\ UNCHANGED <<pods, pc, pi, podDims, lookups, fault>>
        /\ si' = si + 1
    BY <1>4, StatusEffect
  <2>10. TypeOK'
    BY <2>5, <2>7, <2>8, <2>9 DEF PodsInv, TypeOK
  <2>11. si' \in Nat \ {0}
    BY <2>1, <2>9
  <2>12. QED BY <2>1, <2>6, <2>9, <2>10, <2>11 DEF PodsInv
<1>5. CASE EndStatuses
  BY <1>5 DEF EndStatuses, PodsInv, TypeOK
<1>6. CASE Limits
  <2> DEFINE c == pods[pi].spec[li].name
  <2>1. CASE c \notin DOMAIN name2id
    BY <1>6, <2>1, LimitsEffect DEF PodsInv, TypeOK
  <2>2. CASE c \in DOMAIN name2id
    <3>1. IsDims(ctrMap[name2id[c]])
      BY <1>6, <2>2, LimitsEffect DEF PodsInv, TypeOK
    <3>2. \A g \in gauges' : IsDims(g.dims)
      <4> SUFFICES ASSUME NEW g \in gauges' PROVE IsDims(g.dims)
        OBVIOUS
      <4>1. \/ g \in gauges
            \/ g \in ResourceGauges(pods[pi].spec[li].limits, "container.cpu.limit",
                                    "container.memory.limit_bytes", ctrMap[name2id[c]], c)
            \/ g \in ResourceGauges(pods[pi].spec[li].requests, "container.request.cpu",
                                    "container.request.memory_bytes", ctrMap[name2id[c]], c)
        BY <1>6, <2>2 DEF Limits
      <4>2. QED BY <3>1, <4>1, ResourceGaugesDims DEF PodsInv, TypeOK
    <3>3. QED BY <1>6, <2>2, <3>2, LimitsEffect DEF PodsInv, TypeOK
  <2>3. QED BY <2>1, <2>2
<1>7. CASE EndLimits
  BY <1>7 DEF EndLimits, PodsInv, TypeOK
<1>8. CASE PodGauges
  <2>1. pi \in 1 .. Len(pods)
    BY <1>8, PodGaugesEffect DEF PodsInv
  <2>2. \A g \in gauges' : IsDims(g.dims)
    BY <1>8, PodGaugesEffect DEF PodsInv, TypeOK
  <2>3. QED BY <1>0, <1>8, <2>1, <2>2, PodGaugesEffect DEF PodsInv, TypeOK
<1>9. CASE Finish
  BY <1>9 DEF Finish, PodsInv, TypeOK
<1>10. CASE UNCHANGED vars
  BY <1>10 DEF vars, PodsInv, TypeOK
<1>11. QED BY <1>1, <1>2, <1>3, <1>4, <1>5, <1>6, <1>7, <1>8, <1>9, <1>10 DEF Next

\* When kubernetes_labels does not name container_name, every state of
\* _process_pods is well typed for every /pods document: the pod and
\* container dimension dicts, and the dimensions of every gauge, hold only
\* name, namespace, container_name, configured labels and owner keys (no
\* other label of the pod leaks in), and the restart count is a natural.
THEOREM TypeCorrect == LabelsNotContainerName => (Spec => []TypeOK)
<1> SUFFICES ASSUME LabelsNotContainerName PROVE Spec => []TypeOK
  OBVIOUS
<1>1. Init => PodsInv BY PodsInit
<1>2. PodsInv /\ [Next]_vars => PodsInv' BY PodsStep
<1>3. PodsInv => TypeOK BY DEF PodsInv
<1>4. QED BY <1>1, <1>2, <1>3, PTL DEF Spec


-----------------------------------------------------------------------------
(* pod.restart_count.                                                      *)

\* The restart counts of the first n statuses of a list, for every n: the
\* function SumRestarts takes at the list's length.
RestartsBefore(st) ==
    LET f[n \in 0 .. Len(st)] == IF n = 0 THEN 0 ELSE f[n - 1] + st[n].restarts
    IN  f

\* The statuses of the pod in hand.
CurStatuses == pods[pi].statuses

\* The strengthening of RestartCountExact: inside a pod, pod_retry_count
\* holds the restarts of the statuses the loop has passed, and after the
\* status loop it has passed them all.
RetryInv ==
    /\ pods \in PodLists \cup {<< >>}
    /\ pc \in {"idle", "pod", "status", "limits", "gauges"}
    /\ pi \in 1 .. Len(pods) + 1
    /\ pc \in {"status", "limits", "gauges"} =>
          /\ pi \in 1 .. Len(pods)
          /\ si \in 1 .. Len(CurStatuses) + 1
          /\ retry = RestartsBefore(CurStatuses)[si - 1]
          /\ pc \in {"limits", "gauges"} => si = Len(CurStatuses) + 1
    /\ RestartCountExact


\* RestartsBefore unfolds one status at a time.
LEMMA RestartsBeforeDef ==
    ASSUME NEW st \in Seq(ContainerStatus)
    PROVE  /\ RestartsBefore(st)[0] = 0
           /\ \A n \in 1 .. Len(st) :
                 RestartsBefore(st)[n] = RestartsBefore(st)[n - 1] + st[n].restarts
<1> DEFINE f == RestartsBefore(st)
<1>1. Len(st) \in Nat
  OBVIOUS
<1>2. FiniteNatInductiveDefHypothesis(f, 0, LAMBDA v, i : v + st[i].restarts, 0, Len(st))
  BY DEF FiniteNatInductiveDefHypothesis, RestartsBefore
<1>3. FiniteNatInductiveDefConclusion(f, 0, LAMBDA v, i : v + st[i].restarts, 0, Len(st))
  BY <1>1, <1>2, FiniteNatInductiveDef, Zenon
<1>4. QED BY <1>3 DEF FiniteNatInductiveDefConclusion

\* The restart sum of a pod is RestartsBefore at the end of its statuses.
LEMMA RestartsIsBefore ==
    ASSUME NEW k PROVE Restarts(k) = RestartsBefore(pods[k].statuses)[Len(pods[k].statuses)]
BY DEF Restarts, Abs!SumRestarts, RestartsBefore

\* A step that keeps the document, and sends pod.restart_count only with
\* the pod's own sum, keeps every restart gauge exact.
LEMMA ExactNewRestartGauges ==
    ASSUME RestartCountExact, pods' = pods,
           \A g \in gauges' \ gauges :
              g.metric = "pod.restart_count" => g.value = Restarts(g.of)
    PROVE  RestartCountExact'
BY DEF RestartCountExact, Restarts

\* A step that sends no pod.restart_count and keeps the document keeps
\* every restart gauge exact.
LEMMA NoNewRestartGauge ==
    ASSUME RestartCountExact, pods' = pods,
           \A g \in gauges' \ gauges : g.metric # "pod.restart_count"
    PROVE  RestartCountExact'
BY ExactNewRestartGauges

\* The statuses of a pod of the document are a list of container statuses.
LEMMA StatusesShape ==
    ASSUME pods \in PodLists \cup {<< >>}, NEW k \in 1 .. Len(pods)
    PROVE  pods[k].statuses \in Seq(ContainerStatus)
BY PodsShape DEF IsPod

LEMMA RetryInit == Init => RetryInv
BY DEF Init, RetryInv, RestartCountExact

LEMMA RetryStep == RetryInv /\ [Next]_vars => RetryInv'
<1> SUFFICES ASSUME RetryInv, [Next]_vars PROVE RetryInv'
  OBVIOUS
<1>0. Len(pods) \in Nat
  BY PodsShape DEF RetryInv
<1>1. CASE Begin
  <2>1. PICK l \in PodLists : pods' = l
    BY <1>1 DEF Begin
  <2>2. Len(l) \in Nat
    OBVIOUS
  <2>3. QED BY <1>1, <2>1, <2>2 DEF Begin, RetryInv, RestartCountExact
<1>2. CASE SkipPod
  BY <1>0, <1>2, NoNewRestartGauge DEF SkipPod, RetryInv
<1>3. CASE BuildPod
  <2>1. pi \in 1 .. Len(pods)
    BY <1>0, <1>3 DEF BuildPod, RetryInv
  <2>2. CurStatuses \in Seq(ContainerStatus)
    BY <2>1, StatusesShape DEF RetryInv, CurStatuses
  <2>3. retry' = RestartsBefore(CurStatuses')[si' - 1]
    BY <1>3, <2>2, RestartsBeforeDef DEF BuildPod, CurStatuses
  <2>4. Len(CurStatuses) \in Nat
    BY <2>2
  <2>5. QED BY <1>3, <2>1, <2>3, <2>4, NoNewRestartGauge DEF BuildPod, RetryInv, CurStatuses
<1>4. CASE Status
  <2> DEFINE st == CurStatuses[si]
  <2>1. pi \in 1 .. Len(pods) /\ si \in 1 .. Len(CurStatuses)
    BY <1>4, StatusEffect DEF RetryInv, CurStatuses
  <2>2. CurStatuses \in Seq(ContainerStatus)
    BY <2>1, StatusesShape DEF RetryInv, CurStatuses
  <2>3. retry' = retry + st.restarts
    BY <1>4, StatusEffect DEF CurStatuses
  <2>4. RestartsBefore(CurStatuses)[si] = RestartsBefore(CurStatuses)[si - 1] + st.restarts
    BY <2>1, <2>2, RestartsBeforeDef
  <2>5. retry' = RestartsBefore(CurStatuses')[si' - 1]
    BY <1>4, <2>1, <2>3, <2>4, StatusEffect DEF RetryInv, CurStatuses
  <2>6. \A g \in gauges' \ gauges : g.metric # "pod.restart_count"
    BY <1>4, StatusEffect
  <2>7. RestartCountExact'
    BY <1>4, <2>6, NoNewRestartGauge, StatusEffect DEF RetryInv
  <2>8. QED BY <1>4, <2>1, <2>5, <2>7, StatusEffect DEF RetryInv, CurStatuses
<1>5. CASE EndStatuses
  BY <1>5, NoNewRestartGauge DEF EndStatuses, RetryInv, CurStatuses
<1>6. CASE Limits
  <2> DEFINE c == pods[pi].spec[li].name
  <2>1. \A g \in gauges' \ gauges : g.metric # "pod.restart_count"
    <3> SUFFICES ASSUME NEW g \in gauges' \ gauges PROVE g.metric # "pod.restart_count"
      OBVIOUS
    <3>1. CASE c \in DOMAIN name2id
      BY <1>6, <3>1, LimitsEffect DEF LimitMetrics
    <3>2. CASE c \notin DOMAIN name2id
      BY <1>6, <3>2, LimitsEffect
    <3>3. QED BY <3>1, <3>2
  <2>2. QED BY <1>6, <2>1, NoNewRestartGauge, LimitsEffect DEF RetryInv, CurStatuses
<1>7. CASE EndLimits
  BY <1>7, NoNewRestartGauge DEF EndLimits, RetryInv, CurStatuses
<1>8. CASE PodGauges
  <2>1. pi \in 1 .. Len(pods) /\ si = Len(CurStatuses) + 1
    BY <1>8, PodGaugesEffect DEF RetryInv
  <2>2. retry = Restarts(pi)
    <3>1. retry = RestartsBefore(CurStatuses)[si - 1]
      BY <1>8, PodGaugesEffect DEF RetryInv
    <3>2. si - 1 = Len(CurStatuses)
      BY <2>1, PodsShape, StatusesShape DEF RetryInv
    <3>3. Restarts(pi) = RestartsBefore(CurStatuses)[Len(CurStatuses)]
      BY RestartsIsBefore DEF CurStatuses
    <3>4. QED BY <3>1, <3>2, <3>3
  <2>3. \A g \in gauges' \ gauges :
            g.metric = "pod.restart_count" => g.value = Restarts(g.of)
    BY <1>8, <2>2, PodGaugesEffect
  <2>4. RestartCountExact'
    BY <1>8, <2>3, ExactNewRestartGauges, PodGaugesEffect DEF RetryInv
  <2>5. QED BY <1>0, <1>8, <2>1, <2>4, PodGaugesEffect DEF RetryInv
<1>9. CASE Finish
  BY <1>9, NoNewRestartGauge DEF Finish, RetryInv
<1>10. CASE UNCHANGED vars
  BY <1>10 DEF vars, RetryInv, RestartCountExact, Restarts, CurStatuses
<1>11. QED BY <1>1, <1>2, <1>3, <1>4, <1>5, <1>6, <1>7, <1>8, <1>9, <1>10 DEF Next

\* Every pod.restart_count that _process_pods sends is the sum of the
\* restartCount of that pod's own container statuses, for every /pods
\* document, although pod_retry_count is one variable the loop carries
\* from pod to pod and resets in _get_pod_dimensions' caller.
THEOREM RestartCountExactInvariant == Spec => []RestartCountExact
<1>1. Init => RetryInv BY RetryInit
<1>2. RetryInv /\ [Next]_vars => RetryInv' BY RetryStep
<1>3. RetryInv => RestartCountExact BY DEF RetryInv
<1>4. QED BY <1>1, <1>2, <1>3, PTL DEF Spec


-----------------------------------------------------------------------------
(* The refinement of ProcessPodsAbstract.                                  *)

\* The configured kubernetes_labels do not name the pod_name or namespace
\* dimensions, which _get_pod_dimensions would otherwise overwrite with the
\* label's value.
LabelsNotPodIdentity == KubernetesLabels \cap {"pod_name", "namespace"} = {}

\* The strengthening the refinement needs: the pod in hand has containers
\* and statuses, its dimensions are those _get_pod_dimensions built with
\* the lookup answer recorded for it, and the limits loop runs only with
\* report_container_metrics.
RefInv ==
    /\ RetryInv
    /\ DOMAIN lookups = DOMAIN pods
    /\ pc \in {"status", "limits", "gauges"} =>
          /\ pods[pi].spec # << >> /\ pods[pi].statuses # << >>
          /\ lookups[pi] \in IF NeedsLookup(pods[pi]) THEN LookupOutcomes ELSE {"none"}
          /\ podDims = PodDimensions(pods[pi], lookups[pi])
    /\ pc = "limits" => ReportContainerMetrics


\* The lookup answer of the abstract pass a code answer corresponds to: a
\* revision marker that yields an empty deployment name leaves the
\* replica_set dimension, as a replica set without the marker does.
AbsOutcome(pod, outcome) ==
    IF outcome = "revision" /\ IsEmptyName(DeploymentName(OwnerRef(pod).name))
    THEN "plain" ELSE outcome

\* The owner table of the abstract pass, restricted to a single row.
LEMMA OneRow ==
    ASSUME NEW rows, NEW a, NEW b, NEW c, rows = {<<a, b, c>>}
    PROVE  [x \in {r[2] : r \in rows} |-> (CHOOSE r \in rows : r[2] = x)[3]]
             = [x \in {b} |-> c]
<1>1. {r[2] : r \in rows} = {b}
  OBVIOUS
<1>2. \A x \in {b} : (CHOOSE r \in rows : r[2] = x) = <<a, b, c>>
  OBVIOUS
<1>3. QED BY <1>1, <1>2

\* The owner reference of a pod with one is a reference.
LEMMA OwnerRefType ==
    ASSUME NEW pod, IsPod(pod), OwnerRef(pod) # NoAnnot PROVE OwnerRef(pod) \in Ref
BY DEF IsPod, OwnerRef

\* _set_pod_owner_dimension gives the owner of the table of spec section
\* 4.2, for the corresponding answer of the replica set lookup.
LEMMA OwnerMatchesSpec ==
    ASSUME NEW pod, IsPod(pod), OwnerRef(pod) # NoAnnot,
           NEW outcome \in IF NeedsLookup(pod) THEN LookupOutcomes ELSE {"none"}
    PROVE  Abs!SpecOwner(pod, AbsOutcome(pod, outcome))
             = OwnerDimension(OwnerRef(pod).kind, OwnerRef(pod).name, outcome)
<1> DEFINE ref == OwnerRef(pod)
           o == AbsOutcome(pod, outcome)
           dep == DeploymentName(ref.name)
           table == {<<"ReplicationController", "replication_controller", ref.name>>,
                     <<"DaemonSet", "daemon_set", ref.name>>,
                     IF o = "revision"
                     THEN <<"ReplicaSet", "deployment", SubSeq(ref.name, 1, Len(ref.name) - 1)>>
                     ELSE <<"ReplicaSet", "replica_set", ref.name>>}
           rows == {r \in table : r[1] = ref.kind}
<1>1. Abs!SpecRef(pod) = ref
  BY DEF Abs!SpecRef, OwnerRef
<1>2. Abs!SpecOwner(pod, o) = [x \in {r[2] : r \in rows} |-> (CHOOSE r \in rows : r[2] = x)[3]]
  <2> DEFINE sref == Abs!SpecRef(pod)
             stable == {<<"ReplicationController", "replication_controller", sref.name>>,
                        <<"DaemonSet", "daemon_set", sref.name>>,
                        IF o = "revision"
                        THEN <<"ReplicaSet", "deployment", SubSeq(sref.name, 1, Len(sref.name) - 1)>>
                        ELSE <<"ReplicaSet", "replica_set", sref.name>>}
             srows == IF sref = NoAnnot THEN {} ELSE {r \in stable : r[1] = sref.kind}
  <2>1. Abs!SpecOwner(pod, o) = [x \in {r[2] : r \in srows} |-> (CHOOSE r \in srows : r[2] = x)[3]]
    BY DEF Abs!SpecOwner
  <2>2. stable = table
    BY <1>1
  <2>3. srows = rows
    <3>1. sref # NoAnnot
      BY <1>1
    <3>2. srows = {r \in stable : r[1] = sref.kind}
      BY <3>1
    <3>3. QED BY <1>1, <2>2, <3>2
  <2> HIDE DEF srows, rows
  <2>4. QED BY <2>1, <2>3
<1> HIDE DEF rows
<1>3. CASE ref.kind = "ReplicationController"
  <2>1. rows = {<<"ReplicationController", "replication_controller", ref.name>>}
    BY <1>3 DEF rows
  <2>2. QED BY <1>2, <1>3, <2>1, OneRow DEF OwnerDimension
<1>4. CASE ref.kind = "DaemonSet"
  <2>1. rows = {<<"DaemonSet", "daemon_set", ref.name>>}
    BY <1>4 DEF rows
  <2>2. QED BY <1>2, <1>4, <2>1, OneRow DEF OwnerDimension
<1>5. CASE ref.kind = "ReplicaSet" /\ o = "revision"
  <2>1. outcome = "revision" /\ ~IsEmptyName(dep)
    BY <1>5 DEF AbsOutcome
  <2>2. HasConnector
    BY <2>1 DEF NeedsLookup, LookupOutcomes
  <2>3. rows = {<<"ReplicaSet", "deployment", dep>>}
    BY <1>5 DEF DeploymentName, rows
  <2>4. OwnerDimension(ref.kind, ref.name, outcome) = [x \in {"deployment"} |-> dep]
    BY <1>5, <2>1, <2>2 DEF OwnerDimension, GetDeploymentName
  <2>5. QED BY <1>2, <2>3, <2>4, OneRow
<1>6. CASE ref.kind = "ReplicaSet" /\ o # "revision"
  <2>1. rows = {<<"ReplicaSet", "replica_set", ref.name>>}
    BY <1>6 DEF rows
  <2>2. IsEmptyName(IF HasConnector THEN GetDeploymentName(ref.name, outcome) ELSE << >>)
    BY <1>6 DEF AbsOutcome, GetDeploymentName, IsEmptyName
  <2>3. OwnerDimension(ref.kind, ref.name, outcome) = [x \in {"replica_set"} |-> ref.name]
    BY <1>6, <2>2 DEF OwnerDimension
  <2>4. QED BY <1>2, <2>1, <2>3, OneRow
<1>7. CASE ref.kind \notin {"ReplicationController", "DaemonSet", "ReplicaSet"}
  <2>1. rows = {}
    BY <1>7 DEF rows
  <2>2. OwnerDimension(ref.kind, ref.name, outcome) = [x \in {} |-> ref.name]
    BY <1>7 DEF OwnerDimension
  <2>3. QED BY <1>2, <2>1, <2>2
<1>8. QED BY <1>3, <1>4, <1>5, <1>6, <1>7


\* The dimensions _get_pod_dimensions builds before the owner: name,
\* namespace and the configured labels the pod has.
PodBase(pod) ==
    Update([x \in {"pod_name", "namespace"} |->
              IF x = "pod_name" THEN pod.name ELSE pod.namespace],
           Restrict(pod.labels, DOMAIN pod.labels \cap KubernetesLabels))

\* The dimensions of spec section 4.3 for a given owner dimension.
SpecDimsWith(pod, od) ==
    [x \in {"pod_name", "namespace"} \cup (DOMAIN pod.labels \cap KubernetesLabels)
           \cup DOMAIN od |->
        IF x = "pod_name" THEN pod.name
        ELSE IF x = "namespace" THEN pod.namespace
        ELSE IF x \in DOMAIN od THEN od[x]
        ELSE pod.labels[x]]

\* Adding an owner dimension to the base gives the dimensions of the spec,
\* when no configured label is named pod_name or namespace.
LEMMA BaseWithOwner ==
    ASSUME LabelsNotPodIdentity, NEW pod, NEW od, DOMAIN od \subseteq OwnerKeys
    PROVE  Update(PodBase(pod), od) = SpecDimsWith(pod, od)
BY DEF Update, PodBase, Restrict, SpecDimsWith, LabelsNotPodIdentity, OwnerKeys

\* _get_pod_dimensions builds the dimensions of spec section 4.3, with the
\* owner of section 4.2, for the corresponding lookup answer.
LEMMA DimsMatchSpec ==
    ASSUME LabelsNotPodIdentity, NEW pod, IsPod(pod),
           NEW outcome \in IF NeedsLookup(pod) THEN LookupOutcomes ELSE {"none"}
    PROVE  PodDimensions(pod, outcome) = Abs!SpecPodDims(pod, AbsOutcome(pod, outcome))
<1> DEFINE o == AbsOutcome(pod, outcome)
           od == Abs!SpecOwner(pod, o)
<1>1. Abs!SpecPodDims(pod, o) = SpecDimsWith(pod, od)
  BY DEF Abs!SpecPodDims, SpecDimsWith
<1>2. CASE OwnerRef(pod) = NoAnnot
  <2>1. DOMAIN od = {}
    BY <1>2 DEF Abs!SpecOwner, Abs!SpecRef, OwnerRef
  <2>2. PodDimensions(pod, outcome) = PodBase(pod)
    BY <1>2 DEF PodDimensions, PodBase
  <2>3. PodBase(pod) = Update(PodBase(pod), od)
    BY <2>1 DEF PodBase, Update
  <2>4. QED BY <1>1, <2>1, <2>2, <2>3, BaseWithOwner
<1>3. CASE OwnerRef(pod) # NoAnnot
  <2>1. od = OwnerDimension(OwnerRef(pod).kind, OwnerRef(pod).name, outcome)
    BY <1>3, OwnerMatchesSpec
  <2>2. DOMAIN od \subseteq OwnerKeys
    BY <2>1 DEF OwnerDimension, OwnerKeys
  <2>3. PodDimensions(pod, outcome) = Update(PodBase(pod), od)
    BY <1>3, <2>1 DEF PodDimensions, PodBase
  <2>4. QED BY <1>1, <2>2, <2>3, BaseWithOwner
<1>4. QED BY <1>2, <1>3

\* The corresponding answer is one the abstract lookup may give.
LEMMA AbsOutcomeAllowed ==
    ASSUME NEW pod, NEW outcome \in IF NeedsLookup(pod) THEN LookupOutcomes ELSE {"none"}
    PROVE  AbsOutcome(pod, outcome) \in Abs!Outcomes(pod)
BY DEF AbsOutcome, NeedsLookup, LookupOutcomes, Abs!Outcomes, Abs!SpecRef, OwnerRef


\* At the pod gauges, pod_retry_count is the pod's restart sum.
LEMMA RetryAtGauges ==
    ASSUME RetryInv, pc = "gauges" PROVE retry = Restarts(pi)
<1>1. pi \in 1 .. Len(pods) /\ si = Len(CurStatuses) + 1
  BY DEF RetryInv
<1>2. retry = RestartsBefore(CurStatuses)[si - 1]
  BY DEF RetryInv
<1>3. si - 1 = Len(CurStatuses)
  BY <1>1, PodsShape, StatusesShape DEF RetryInv
<1>4. Restarts(pi) = RestartsBefore(CurStatuses)[Len(CurStatuses)]
  BY RestartsIsBefore DEF CurStatuses
<1>5. QED BY <1>2, <1>3, <1>4

\* POD_PHASE.get gives the phase enum of the spec for the five phases.
LEMMA PhaseMatchesSpec ==
    ASSUME NEW ph \in {"Succeeded", "Running", "Pending", "Failed", "Unknown"}
    PROVE  POD_PHASE[ph] = Abs!PhaseEnum(ph)
BY DEF POD_PHASE, Abs!PhaseEnum

\* The pod gauges among the gauges a call sent.
PodGaugesOf(gs) == {g \in gs : g.metric \in {"pod.restart_count", "pod.phase"}}

\* A step that adds only container gauges leaves the pod gauges alone.
LEMMA NoNewPodGauge ==
    ASSUME gauges \subseteq gauges',
           \A g \in gauges' \ gauges : g.metric \notin {"pod.restart_count", "pod.phase"}
    PROVE  PodGaugesOf(gauges') = PodGaugesOf(gauges)
BY DEF PodGaugesOf

LEMMA RefInit == Init => RefInv
BY RetryInit DEF Init, RefInv

LEMMA RefStep == RefInv /\ [Next]_vars => RefInv'
<1> SUFFICES ASSUME RefInv, [Next]_vars PROVE RefInv'
  OBVIOUS
<1>0. RetryInv'
  BY RetryStep DEF RefInv
<1>1. CASE Begin
  BY <1>0, <1>1 DEF Begin, RefInv
<1>2. CASE SkipPod
  BY <1>0, <1>2 DEF SkipPod, RefInv
<1>3. CASE BuildPod
  <2>1. PICK outcome \in IF NeedsLookup(pods[pi]) THEN LookupOutcomes ELSE {"none"} :
            /\ podDims' = PodDimensions(pods[pi], outcome)
            /\ lookups' = [lookups EXCEPT ![pi] = outcome]
    BY <1>3 DEF BuildPod
  <2>2. pi \in DOMAIN lookups
    <3>1. pi \in 1 .. Len(pods)
      BY <1>3 DEF BuildPod, RefInv, RetryInv
    <3>2. DOMAIN pods = 1 .. Len(pods)
      BY PodsShape DEF RefInv, RetryInv
    <3>3. QED BY <3>1, <3>2 DEF RefInv
  <2>3. QED BY <1>0, <1>3, <2>1, <2>2 DEF BuildPod, RefInv
<1>4. CASE Status
  BY <1>0, <1>4, StatusEffect DEF RefInv
<1>5. CASE EndStatuses
  BY <1>0, <1>5 DEF EndStatuses, RefInv
<1>6. CASE Limits
  BY <1>0, <1>6, LimitsEffect DEF RefInv
<1>7. CASE EndLimits
  BY <1>0, <1>7 DEF EndLimits, RefInv
<1>8. CASE PodGauges
  BY <1>0, <1>8, PodGaugesEffect DEF RefInv
<1>9. CASE Finish
  BY <1>0, <1>9 DEF Finish, RefInv
<1>10. CASE UNCHANGED vars
  BY <1>0, <1>10 DEF vars, RefInv
<1>11. QED BY <1>1, <1>2, <1>3, <1>4, <1>5, <1>6, <1>7, <1>8, <1>9, <1>10 DEF Next


\* The abstract state seen through the refinement mapping.
AbsPc == IF pc = "idle" THEN "idle" ELSE "busy"

\* Every step of _process_pods is a step of the abstract pass or leaves
\* the pass, its position and its pod gauges as they were.
LEMMA RefMap ==
    ASSUME LabelsNotPodIdentity, RefInv, [Next]_vars
    PROVE  [Abs!ANext]_Abs!avars
<1> USE DEF PodGaugesOf, AbsPc
<1>0. ASSUME pods' = pods, AbsPc' = AbsPc, pi' = pi,
             PodGaugesOf(gauges') = PodGaugesOf(gauges)
      PROVE  [Abs!ANext]_Abs!avars
  BY <1>0 DEF Abs!avars
<1>a. Len(pods) \in Nat
  BY PodsShape DEF RefInv, RetryInv
<1>1. CASE Begin
  BY <1>1 DEF Begin, Abs!ANext, Abs!ABegin
<1>2. CASE SkipPod
  BY <1>2 DEF SkipPod, Abs!ANext, Abs!ASkip, Abs!HasContainers
<1>3. CASE BuildPod
  BY <1>0, <1>3 DEF BuildPod
<1>4. CASE Status
  <2>1. PodGaugesOf(gauges') = PodGaugesOf(gauges)
    BY <1>4, NoNewPodGauge, StatusEffect
  <2>2. QED BY <1>0, <1>4, <2>1, StatusEffect
<1>5. CASE EndStatuses
  BY <1>0, <1>5 DEF EndStatuses
<1>6. CASE Limits
  <2> DEFINE c == pods[pi].spec[li].name
  <2>1. CASE c \notin DOMAIN name2id
    <3>1. ReportContainerMetrics
      BY <1>6, LimitsEffect DEF RefInv
    <3>2. Abs!ARaise
      BY <1>6, <2>1, <3>1, LimitsEffect DEF Abs!ARaise
    <3>3. QED BY <3>2 DEF Abs!ANext
  <2>2. CASE c \in DOMAIN name2id
    <3>1. \A g \in gauges' \ gauges : g.metric \notin {"pod.restart_count", "pod.phase"}
      BY <1>6, <2>2, LimitsEffect DEF LimitMetrics
    <3>2. PodGaugesOf(gauges') = PodGaugesOf(gauges)
      BY <1>6, <2>2, <3>1, NoNewPodGauge, LimitsEffect
    <3>3. QED BY <1>0, <1>6, <2>2, <3>2, LimitsEffect
  <2>3. QED BY <2>1, <2>2
<1>7. CASE EndLimits
  BY <1>0, <1>7 DEF EndLimits
<1>8. CASE PodGauges
  <2> DEFINE pod == pods[pi]
             o == AbsOutcome(pod, lookups[pi])
  <2>1. pi \in 1 .. Len(pods) /\ pod.spec # << >> /\ pod.statuses # << >>
    BY <1>8, PodGaugesEffect DEF RefInv, RetryInv
  <2>2. IsPod(pod)
    BY <2>1, PodsShape DEF RefInv, RetryInv
  <2>3. lookups[pi] \in IF NeedsLookup(pod) THEN LookupOutcomes ELSE {"none"}
    BY <1>8, PodGaugesEffect DEF RefInv
  <2>4. o \in Abs!Outcomes(pod)
    BY <2>3, AbsOutcomeAllowed
  <2>5. podDims = Abs!SpecPodDims(pod, o)
    <3>1. podDims = PodDimensions(pod, lookups[pi])
      BY <1>8, PodGaugesEffect DEF RefInv
    <3>2. QED BY <2>2, <2>3, <3>1, DimsMatchSpec
  <2>6. retry = Abs!SumRestarts(pod.statuses)
    BY <1>8, RetryAtGauges, PodGaugesEffect DEF RefInv, Restarts
  <2>7. POD_PHASE[pod.phase] = Abs!PhaseEnum(pod.phase)
    BY <2>2, PhaseMatchesSpec DEF IsPod
  <2>8. PodGaugesOf(gauges') = PodGaugesOf(gauges) \cup
          {[metric |-> "pod.restart_count", dims |-> Abs!SpecPodDims(pod, o), of |-> pi,
            value |-> Abs!SumRestarts(pod.statuses)],
           [metric |-> "pod.phase", dims |-> Abs!SpecPodDims(pod, o), of |-> pi,
            value |-> Abs!PhaseEnum(pod.phase)]}
    <3>1. PodGaugesOf(gauges') = PodGaugesOf(gauges) \cup
            {[metric |-> "pod.restart_count", dims |-> podDims, of |-> pi, value |-> retry],
             [metric |-> "pod.phase", dims |-> podDims, of |-> pi,
              value |-> POD_PHASE[pod.phase]]}
      <4>1. gauges' = gauges \cup
              {[metric |-> "pod.restart_count", dims |-> podDims, of |-> pi, value |-> retry],
               [metric |-> "pod.phase", dims |-> podDims, of |-> pi,
                value |-> POD_PHASE[pod.phase]]}
        BY <1>8, PodGaugesEffect
      <4>2. QED BY <4>1
    <3>2. QED BY <3>1, <2>5, <2>6, <2>7
  <2>9. Abs!AReport
    <3>1. /\ AbsPc = "busy" /\ pi <= Len(pods) /\ Abs!HasContainers(pod)
          /\ pi' = pi + 1 /\ pods' = pods /\ AbsPc' = AbsPc
      <4>1. pc = "gauges" /\ pc' = "pod" /\ pi' = pi + 1 /\ pods' = pods
        BY <1>8, PodGaugesEffect
      <4>2. Abs!HasContainers(pod)
        BY <2>1 DEF Abs!HasContainers
      <4>3. QED BY <2>1, <4>1, <4>2
    <3>2. QED BY <2>4, <2>8, <3>1 DEF Abs!AReport
  <2>10. QED BY <2>9 DEF Abs!ANext
<1>9. CASE Finish
  BY <1>9 DEF Finish, Abs!ANext, Abs!AFinish
<1>10. CASE UNCHANGED vars
  BY <1>0, <1>10 DEF vars
<1>11. QED BY <1>1, <1>2, <1>3, <1>4, <1>5, <1>6, <1>7, <1>8, <1>9, <1>10 DEF Next

\* _process_pods implements the pass that spec section 5 step 4 describes,
\* for every /pods document, when no configured label is named pod_name or
\* namespace: the pods are taken in order, those without containers or
\* statuses are skipped, every other pod gets its restart sum and phase
\* gauges with the dimensions of sections 4.2 and 4.3 in one step, and the
\* KeyError of _report_container_limits ends the pass.
THEOREM Refinement == LabelsNotPodIdentity => (Spec => AbstractSpec)
<1> SUFFICES ASSUME LabelsNotPodIdentity PROVE Spec => AbstractSpec
  OBVIOUS
<1>1. Init => Abs!AInit
  BY DEF Init, Abs!AInit
<1>2. Init => RefInv
  BY RefInit
<1>3. RefInv /\ [Next]_vars => RefInv'
  BY RefStep
<1>4. RefInv /\ [Next]_vars => [Abs!ANext]_Abs!avars
  BY RefMap
<1>5. QED BY <1>1, <1>2, <1>3, <1>4, PTL DEF Spec, AbstractSpec, Abs!ASpec


-----------------------------------------------------------------------------
(* The name2id lookup of _report_container_limits.                         *)

\* Every spec container of a pod with container statuses has a status of
\* its name: the kubelet reports one status per container of the spec.
SpecContainersReported ==
    \A l \in PodLists : \A k \in DOMAIN l :
        l[k].statuses # << >> =>
            \A j \in 1 .. Len(l[k].spec) :
                \E m \in DOMAIN l[k].statuses : l[k].statuses[m].name = l[k].spec[j].name

\* The names of the first n statuses of the pod in hand.
NamesBefore(n) == {CurStatuses[j].name : j \in 1 .. n}

\* The strengthening of LimitsNeverRaise: name2id knows exactly the names
\* of the statuses the loop has passed, all of them after the status loop.
NameInv ==
    /\ RefInv
    /\ li \in Nat \ {0}
    /\ pc = "status" => DOMAIN name2id = NamesBefore(si - 1)
    /\ pc \in {"limits", "gauges"} => DOMAIN name2id = NamesBefore(Len(CurStatuses))
    /\ LimitsNeverRaise

LEMMA NameInit == Init => NameInv
BY RefInit DEF Init, NameInv, LimitsNeverRaise

LEMMA NameStep == SpecContainersReported /\ NameInv /\ [Next]_vars => NameInv'
<1> SUFFICES ASSUME SpecContainersReported, NameInv, [Next]_vars PROVE NameInv'
  OBVIOUS
<1>0. RefInv'
  BY RefStep DEF NameInv
<1>1. CASE Begin
  BY <1>0, <1>1 DEF Begin, NameInv, LimitsNeverRaise
<1>2. CASE SkipPod
  BY <1>0, <1>2 DEF SkipPod, NameInv, LimitsNeverRaise
<1>3. CASE BuildPod
  BY <1>0, <1>3 DEF BuildPod, NameInv, NamesBefore, LimitsNeverRaise
<1>4. CASE Status
  <2> DEFINE st == CurStatuses[si]
  <2>1. si \in 1 .. Len(CurStatuses) /\ Len(CurStatuses) \in Nat
    <3>1. pc = "status" /\ si <= Len(CurStatuses)
      BY <1>4, StatusEffect DEF CurStatuses
    <3>2. pi \in 1 .. Len(pods) /\ si \in 1 .. Len(CurStatuses) + 1 /\ pods \in PodLists \cup {<< >>}
      BY <3>1 DEF NameInv, RefInv, RetryInv
    <3>3. Len(CurStatuses) \in Nat
      BY <3>2, StatusesShape DEF CurStatuses
    <3>4. QED BY <3>1, <3>2, <3>3
  <2>2. DOMAIN name2id' = DOMAIN name2id \cup {st.name}
    BY <1>4, StatusEffect DEF Put, Update, CurStatuses
  <2>3. NamesBefore(si) = NamesBefore(si - 1) \cup {st.name}
    BY <2>1 DEF NamesBefore
  <2>4. /\ pods' = pods /\ pi' = pi /\ pc' = "status" /\ si' = si + 1
        /\ li' = li /\ fault' = fault
    BY <1>4, StatusEffect DEF NameInv, RefInv, RetryInv
  <2>5. (DOMAIN name2id = NamesBefore(si - 1))
    BY <1>4, StatusEffect DEF NameInv
  <2>6. DOMAIN name2id' = NamesBefore(si)
    BY <2>2, <2>3, <2>5
  <2>7. NamesBefore(si - 1)' = NamesBefore(si)
    BY <2>1, <2>4 DEF NamesBefore, CurStatuses
  <2>8. li' \in Nat \ {0}
    BY <2>4 DEF NameInv
  <2>9. QED BY <1>0, <2>4, <2>6, <2>7, <2>8 DEF NameInv, LimitsNeverRaise
<1>5. CASE EndStatuses
  <2>1. si = Len(CurStatuses) + 1
    BY <1>5 DEF EndStatuses, NameInv, RefInv, RetryInv, CurStatuses
  <2>2. QED BY <1>0, <1>5, <2>1 DEF EndStatuses, NameInv, NamesBefore, CurStatuses, LimitsNeverRaise
<1>6. CASE Limits
  <2> DEFINE c == pods[pi].spec[li].name
  <2>1. /\ pods \in PodLists /\ pi \in 1 .. Len(pods)
        /\ li \in 1 .. Len(pods[pi].spec) /\ CurStatuses # << >>
    <3>1. pc = "limits" /\ li <= Len(pods[pi].spec)
      BY <1>6, LimitsEffect
    <3>2. pods \in PodLists \cup {<< >>} /\ pi \in 1 .. Len(pods)
      BY <3>1 DEF NameInv, RefInv, RetryInv
    <3>3. pods # << >>
      BY <3>2
    <3>4. CurStatuses # << >>
      BY <3>1 DEF NameInv, RefInv, CurStatuses
    <3>5. li \in Nat \ {0}
      BY DEF NameInv
    <3>6. QED BY <3>1, <3>2, <3>3, <3>4, <3>5
  <2>2. \E m \in DOMAIN CurStatuses : CurStatuses[m].name = c
    <3>1. pi \in DOMAIN pods
      BY <2>1, PodsShape
    <3>2. QED BY <2>1, <3>1 DEF SpecContainersReported, CurStatuses
  <2>3. DOMAIN CurStatuses = 1 .. Len(CurStatuses)
    BY <2>1, StatusesShape DEF CurStatuses
  <2>4. c \in DOMAIN name2id
    BY <1>6, <2>2, <2>3, LimitsEffect DEF NameInv, NamesBefore
  <2>5. /\ pods' = pods /\ pi' = pi /\ pc' = "limits" /\ li' = li + 1
        /\ name2id' = name2id /\ fault' = fault
    BY <1>6, <2>4, LimitsEffect
  <2>6. li' \in Nat \ {0}
    BY <2>5 DEF NameInv
  <2>7. (DOMAIN name2id = NamesBefore(Len(CurStatuses)))'
    <3>1. DOMAIN name2id = NamesBefore(Len(CurStatuses))
      BY <1>6, LimitsEffect DEF NameInv
    <3>2. QED BY <2>5, <3>1 DEF NamesBefore, CurStatuses
  <2>8. QED BY <1>0, <2>5, <2>6, <2>7 DEF NameInv, LimitsNeverRaise
<1>7. CASE EndLimits
  BY <1>0, <1>7 DEF EndLimits, NameInv, NamesBefore, CurStatuses, LimitsNeverRaise
<1>8. CASE PodGauges
  BY <1>0, <1>8, PodGaugesEffect DEF NameInv, LimitsNeverRaise
<1>9. CASE Finish
  BY <1>0, <1>9 DEF Finish, NameInv, LimitsNeverRaise
<1>10. CASE UNCHANGED vars
  BY <1>0, <1>10 DEF vars, NameInv, NamesBefore, CurStatuses, LimitsNeverRaise
<1>11. QED BY <1>1, <1>2, <1>3, <1>4, <1>5, <1>6, <1>7, <1>8, <1>9, <1>10 DEF Next

\* When every spec container has a container status, the name2id lookup
\* that _report_container_limits makes outside its try never raises, for
\* every /pods document and in every order of the pods.
THEOREM LimitsNeverRaiseInvariant == SpecContainersReported => (Spec => []LimitsNeverRaise)
<1> SUFFICES ASSUME SpecContainersReported PROVE Spec => []LimitsNeverRaise
  OBVIOUS
<1>1. Init => NameInv BY NameInit
<1>2. NameInv /\ [Next]_vars => NameInv' BY NameStep
<1>3. NameInv => LimitsNeverRaise BY DEF NameInv
<1>4. QED BY <1>1, <1>2, <1>3, PTL DEF Spec

=============================================================================
