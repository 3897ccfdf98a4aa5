\* report_container_metrics on, the agent under Python 2.
CONSTANTS
    c1 = c1
    c2 = c2
    c3 = c3
    NoPod = NoPod
    NoFault = NoFault
    EmptySeries = EmptySeries
    Containers = {c1, c2, c3}
    PodKeyOf <- MCPodKeyOf
    CtrDims <- MCCtrDims
    PodDims <- MCPodDims
    Snapshots <- MCSnapshots
    ReportContainerMetrics = TRUE
    Python3 = FALSE
    NsPerSecond = 1000
SPECIFICATION Spec
INVARIANT CpuSecondsExact
