------------------------- MODULE MC_KubernetesCheck -------------------------
(* A node with two pods and a system container.  Pod p1 runs app container *)
(* a1 and pause container x1, pod p2 runs app container a2, s belongs to no *)
(* pod.  The field values are powers of two, so a sum tells its summands.   *)
EXTENDS KubernetesCheck, TLC

CONSTANTS p1, p2, a1, x1, a2, s

MCPods == {p1, p2}
MCContainers == {a1, x1, a2, s}
MCInfra == {x1}
MCPodOf == (a1 :> p1) @@ (x1 :> p1) @@ (a2 :> p2) @@ (s :> NoPod)
MCPodName == (p1 :> <<"a">>) @@ (p2 :> <<"a", "b">>)
\* Distinct concatenations: "abc" and "abd".
MCPodNamespace == (p1 :> <<"b", "c">>) @@ (p2 :> <<"d">>)
\* Pod "a" in namespace "bc" and pod "ab" in namespace "c": both "abc".
MCCollidingNamespace == (p1 :> <<"b", "c">>) @@ (p2 :> <<"c">>)
MCMetrics == {"mem.rss_bytes"}
MCNetMetrics == {"net.in_bytes"}
MCInterfaces == {"eth0"}
MCReports == (a1 :> {"mem.rss_bytes"}) @@ (x1 :> {}) @@
             (a2 :> {"mem.rss_bytes"}) @@ (s :> {"mem.rss_bytes"})
MCNetReports == (a1 :> {"eth0"}) @@ (x1 :> {"eth0"}) @@ (a2 :> {}) @@ (s :> {"eth0"})
MCVal == (a1 :> 1) @@ (x1 :> 2) @@ (a2 :> 4) @@ (s :> 8)

=============================================================================
