\* report_container_metrics on, derive_host on, kubernetes_labels ["app"].
CONSTANTS
    NoRes = NoRes
    NoAnnot = NoAnnot
    NoFault = NoFault
    PodLists <- MCPodLists
    KubernetesLabels = {"app"}
    ReportContainerMetrics = TRUE
    HasConnector = TRUE
    MemBytes <- MCMemBytes
SPECIFICATION Spec
INVARIANTS TypeOK RestartCountExact LimitsNeverRaise
PROPERTY AbstractSpec
