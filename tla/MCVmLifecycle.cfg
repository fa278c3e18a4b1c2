\* Three VMs compete for two slots, and a DNS filter or a namespace may stay.
CONSTANTS
    Vms = {v1, v2, v3}
    MaxSlots = 2
    MayFail = {"stopDns", "deleteNs"}
SPECIFICATION Spec
SYMMETRY VmSymmetry
INVARIANTS
    TypeOK
    SlotsExact
    AddressesDistinct
    GuestConfined
    NetworkUndone
    GaugeTotal
PROPERTIES
    ServiceSpec
CHECK_DEADLOCK FALSE
