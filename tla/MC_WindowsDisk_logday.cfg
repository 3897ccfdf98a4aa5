\* Three partitions, one physical disk, three instances, two days.
CONSTANTS
    c = c
    d = d
    z = z
    NoMount = NoMount
    MaxDay = 1
    PartSeq <- MCPartSeq
    Device <- MCDevice
    Mount <- MCMount
    FsType <- MCFsType
    Capacity <- MCCapacity
    Used <- MCUsed
    IoDevices <- MCIoDevices
    Configs <- MCConfigs
SPECIFICATION Spec
INVARIANT LoggedEachDay
