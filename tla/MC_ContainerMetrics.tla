------------------------- MODULE MC_ContainerMetrics -------------------------
(***************************************************************************)
(* A TLC instance of ContainerMetrics: pod p1 with an app container c1     *)
(* (matched by id) and its pause container c2 (matched by labels), and a   *)
(* system container c3 of no pod, whose stats series may be empty.  The    *)
(* cpu counters are not whole seconds, so that truncation shows; they are *)
(* in units of NsPerSecond = 1000.                                         *)
(***************************************************************************)
EXTENDS ContainerMetrics, TLC

CONSTANTS c1, c2, c3

NoFields == [x \in {} |-> 0]
P1Dims == [pod_name |-> "p1", namespace |-> "default"]

MCPodKeyOf == (c1 :> "p1default") @@ (c2 :> "p1default") @@ (c3 :> NoPod)
MCCtrDims == (c1 :> [pod_name |-> "p1", namespace |-> "default", container_name |-> "app"])
             @@ (c2 :> [pod_name |-> "p1", namespace |-> "default", container_name |-> "POD"])
             @@ (c3 :> [container_name |-> "kubelet"])
MCPodDims == [x \in {"p1default"} |-> P1Dims]

App ==
    [memory |-> [rss |-> 100, usage |-> 300],
     fs |-> <<[device |-> "sda1",
               fields |-> [capacity |-> 1000, usage |-> 10, writes_completed |-> 5,
                           reads_completed |-> 7]]>>,
     net |-> <<[name |-> "eth0", fields |-> [rx_bytes |-> 11, tx_bytes |-> 13]]>>,
     cpu |-> [total |-> 1500, user |-> 2700]]
Pause ==
    [memory |-> [usage |-> 50], fs |-> <<>>,
     net |-> <<[name |-> "eth0", fields |-> [rx_bytes |-> 2]]>>,
     cpu |-> [total |-> 600]]
System ==
    [memory |-> NoFields, fs |-> <<>>, net |-> <<>>, cpu |-> [system |-> 999]]

MCSnapshots == (c1 :> {App}) @@ (c2 :> {Pause}) @@ (c3 :> {System, EmptySeries})
====
