--------------------------- MODULE MC_ProcessPods ---------------------------
(***************************************************************************)
(* A TLC instance of ProcessPods: five pods, lists of two of them.         *)
(*   web   -- owned by replica set web-5f7c (a deployment's), one running  *)
(*            container with a cpu limit in millicores and a memory limit; *)
(*   agent -- owned by daemon set agent through the created-by annotation, *)
(*            two waiting containers (both with the '' id), a request and  *)
(*            a limit;                                                     *)
(*   db    -- two owner references (replication controller db first);     *)
(*   batch -- a Job's pod with no container statuses yet (skipped);        *)
(*   oc    -- an OpenShift DeploymentConfig pod: replication controller    *)
(*            web-1 and the label deployment=web-1.                        *)
(***************************************************************************)
EXTENDS ProcessPods, TLC

NoLabels == [x \in {} |-> <<>>]
Milli500 == [n |-> 500, milli |-> TRUE]
Cores2 == [n |-> 2, milli |-> FALSE]

Web ==
    [name |-> <<"web", "5f7c", "x">>, namespace |-> <<"default">>, labels |-> ("app" :> <<"web">> @@ "pod-template-hash" :> <<"5f7c">>),
     refs |-> <<[kind |-> "ReplicaSet", name |-> <<"web", "5f7c">>]>>, annot |-> NoAnnot,
     spec |-> <<[name |-> "app", limits |-> [cpu |-> Milli500, mem |-> "128Mi"],
                 requests |-> NoRes]>>,
     statuses |-> <<[name |-> "app", id |-> "c1", restarts |-> 2, ready |-> TRUE]>>,
     phase |-> "Running"]
Agent ==
    [name |-> <<"agent", "q">>, namespace |-> <<"kube", "system">>, labels |-> NoLabels,
     refs |-> <<>>, annot |-> [kind |-> "DaemonSet", name |-> <<"agent">>],
     spec |-> <<[name |-> "a", limits |-> NoRes, requests |-> [cpu |-> Cores2, mem |-> NoRes]],
                [name |-> "b", limits |-> [cpu |-> NoRes, mem |-> "128Mi"], requests |-> NoRes]>>,
     statuses |-> <<[name |-> "a", id |-> "", restarts |-> 1, ready |-> FALSE],
                    [name |-> "b", id |-> "", restarts |-> 3, ready |-> FALSE]>>,
     phase |-> "Pending"]
Db ==
    [name |-> <<"db", "1">>, namespace |-> <<"default">>, labels |-> [app |-> <<"db">>],
     refs |-> <<[kind |-> "ReplicationController", name |-> <<"db">>],
                [kind |-> "DaemonSet", name |-> <<"x">>]>>, annot |-> NoAnnot,
     spec |-> <<[name |-> "db", limits |-> NoRes, requests |-> NoRes]>>,
     statuses |-> <<[name |-> "db", id |-> "c3", restarts |-> 4, ready |-> TRUE]>>,
     phase |-> "Running"]
Batch ==
    [name |-> <<"batch", "z">>, namespace |-> <<"default">>, labels |-> NoLabels,
     refs |-> <<[kind |-> "Job", name |-> <<"batch">>]>>, annot |-> NoAnnot,
     spec |-> <<[name |-> "job", limits |-> NoRes, requests |-> NoRes]>>,
     statuses |-> <<>>, phase |-> "Pending"]
Oc ==
    [name |-> <<"web", "1", "k">>, namespace |-> <<"proj">>, labels |-> [deployment |-> <<"web", "1">>],
     refs |-> <<[kind |-> "ReplicationController", name |-> <<"web", "1">>]>>, annot |-> NoAnnot,
     spec |-> <<[name |-> "app", limits |-> NoRes, requests |-> NoRes]>>,
     statuses |-> <<[name |-> "app", id |-> "c5", restarts |-> 0, ready |-> TRUE]>>,
     phase |-> "Running"]

MCPods == {Web, Agent, Db, Batch, Oc}
MCPodLists == {<<p, q>> : p, q \in MCPods}
MCMemBytes == [x \in {"128Mi"} |-> 134217728]
====
