\* Two VMs and one slot; every removal but the veth's may fail.
CONSTANTS
    Vms = {v1, v2}
    MaxSlots = 1
    MayFail = {"removeJail", "stopDns", "deleteNs"}
SPECIFICATION FairSpec
PROPERTIES
    EveryVmSettles
CHECK_DEADLOCK FALSE
