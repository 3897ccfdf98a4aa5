\* report_container_metrics on, derive_host on, kubernetes_labels ["app", "deployment"].
CONSTANTS
    NoRes = NoRes
    NoAnnot = NoAnnot
    NoFault = NoFault
    PodLists <- MCPodLists
    KubernetesLabels = {"app", "deployment"}
    ReportContainerMetrics = TRUE
    HasConnector = TRUE
    MemBytes <- MCMemBytes
SPECIFICATION Spec
INVARIANT AtMostOneOwner
