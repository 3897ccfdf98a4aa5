-------------------------- MODULE ProcessPodsAbstract --------------------------
(***************************************************************************)
(* What one pass over the /pods document promises (spec section 5, step 4, *)
(* with sections 4.2 and 4.3): the pods are taken in order; a pod without  *)
(* containers or container statuses is skipped; every other pod gets, in   *)
(* one step, its two pod gauges: pod.restart_count, the sum of its         *)
(* containers' restart counts, and pod.phase, the phase enum, both with    *)
(* the pod's dimensions: name, namespace, the configured labels it has and *)
(* the owner the owner table gives.  With report_container_metrics the     *)
(* pass may also end in an exception.                                      *)
(*                                                                         *)
(* ProcessPods refines this module (ProcessPods!Abstract).                 *)
(***************************************************************************)
EXTENDS Naturals, Sequences

CONSTANTS PodLists, KubernetesLabels, ReportContainerMetrics, HasConnector, NoAnnot

VARIABLES
    pods,       \* the pods of the pass
    apc,        \* "idle" or "busy"
    next,       \* the index of the next pod
    podGauges   \* the pod gauges sent by the pass

avars == <<pods, apc, next, podGauges>>

\* The phase enum: Succeeded=0, Running=1, Pending=2, Failed=3, Unknown=4.
PhaseEnum(ph) == CASE ph = "Succeeded" -> 0 [] ph = "Running" -> 1 [] ph = "Pending" -> 2
                   [] ph = "Failed" -> 3 [] ph = "Unknown" -> 4

\* The sum of the restart counts of a list of container statuses.
SumRestarts(st) ==
    LET f[n \in 0 .. Len(st)] == IF n = 0 THEN 0 ELSE f[n - 1] + st[n].restarts
    IN  f[Len(st)]

\* The owner reference: the first of the list, else the annotation.
SpecRef(pod) == IF pod.refs # <<>> THEN pod.refs[1] ELSE pod.annot

\* The answers the secondary replica set lookup may give for a pod: none
\* is asked unless the owner is a replica set and the lookup is available.
Outcomes(pod) ==
    IF HasConnector /\ SpecRef(pod) # NoAnnot /\ SpecRef(pod).kind = "ReplicaSet"
    THEN {"error", "revision", "plain"} ELSE {"none"}

\* The owner table of spec section 4.2: ReplicationController, DaemonSet and
\* ReplicaSet give their dimension, a Deployment-managed replica set (the
\* lookup found the revision marker) its name without the last hyphenated
\* segment; any other kind, or no reference, gives none.
SpecOwner(pod, outcome) ==
    LET ref == SpecRef(pod)
        table == {<<"ReplicationController", "replication_controller", ref.name>>,
                  <<"DaemonSet", "daemon_set", ref.name>>,
                  IF outcome = "revision"
                  THEN <<"ReplicaSet", "deployment", SubSeq(ref.name, 1, Len(ref.name) - 1)>>
                  ELSE <<"ReplicaSet", "replica_set", ref.name>>}
        rows == IF ref = NoAnnot THEN {} ELSE {r \in table : r[1] = ref.kind}
    IN  [x \in {r[2] : r \in rows} |-> (CHOOSE r \in rows : r[2] = x)[3]]

\* The dimensions of spec section 4.3: name, namespace, the configured labels
\* present on the pod, and the owner dimension.
SpecPodDims(pod, outcome) ==
    [x \in {"pod_name", "namespace"} \cup (DOMAIN pod.labels \cap KubernetesLabels)
           \cup DOMAIN SpecOwner(pod, outcome) |->
        IF x = "pod_name" THEN pod.name
        ELSE IF x = "namespace" THEN pod.namespace
        ELSE IF x \in DOMAIN SpecOwner(pod, outcome) THEN SpecOwner(pod, outcome)[x]
        ELSE pod.labels[x]]

HasContainers(pod) == pod.spec # <<>> /\ pod.statuses # <<>>

AInit ==
    /\ pods = <<>>
    /\ apc = "idle"
    /\ next = 1
    /\ podGauges = {}

ABegin ==
    /\ apc = "idle"
    /\ \E l \in PodLists : pods' = l
    /\ apc' = "busy"
    /\ next' = 1
    /\ podGauges' = {}

ASkip ==
    /\ apc = "busy" /\ next <= Len(pods)
    /\ ~HasContainers(pods[next])
    /\ next' = next + 1
    /\ UNCHANGED <<pods, apc, podGauges>>

AReport ==
    /\ apc = "busy" /\ next <= Len(pods)
    /\ HasContainers(pods[next])
    /\ \E outcome \in Outcomes(pods[next]) :
          LET dims == SpecPodDims(pods[next], outcome) IN
          podGauges' = podGauges \cup
             {[metric |-> "pod.restart_count", dims |-> dims, of |-> next,
               value |-> SumRestarts(pods[next].statuses)],
              [metric |-> "pod.phase", dims |-> dims, of |-> next,
               value |-> PhaseEnum(pods[next].phase)]}
    /\ next' = next + 1
    /\ UNCHANGED <<pods, apc>>

ARaise ==
    /\ apc = "busy" /\ ReportContainerMetrics
    /\ apc' = "idle"
    /\ UNCHANGED <<pods, next, podGauges>>

AFinish ==
    /\ apc = "busy" /\ next > Len(pods)
    /\ apc' = "idle"
    /\ UNCHANGED <<pods, next, podGauges>>

ANext == ABegin \/ ASkip \/ AReport \/ ARaise \/ AFinish

ASpec == AInit /\ [][ANext]_avars

=============================================================================
