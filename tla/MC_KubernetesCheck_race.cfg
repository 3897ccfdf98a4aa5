\* Containers start between the cAdvisor spec and stats fetches.
CONSTANTS
    p1 = p1
    p2 = p2
    a1 = a1
    x1 = x1
    a2 = a2
    s = s
    NoPod = NoPod
    NoId = NoId
    NoKey = NoKey
    NoDims = NoDims
    NoValue = NoValue
    Python3 = FALSE
    Pods <- MCPods
    Containers <- MCContainers
    Infra <- MCInfra
    PodOf <- MCPodOf
    PodName <- MCPodName
    PodNamespace <- MCPodNamespace
    Metrics <- MCMetrics
    NetMetrics <- MCNetMetrics
    Interfaces <- MCInterfaces
    Reports <- MCReports
    NetReports <- MCNetReports
    Val <- MCVal
SPECIFICATION Spec
INVARIANT CheckNeverRaises
