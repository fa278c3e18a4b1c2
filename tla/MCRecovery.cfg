\* Three VMs of two sessions on two slots, each with a dnsmasq; any number of
\* crashes and stops.
CONSTANTS
    Vms = {v1, v2, v3}
    SessionIds = {s1, s2}
    None = None
    Filtered = {v1, v2, v3}
    MaxSlots = 2
SPECIFICATION Spec
SYMMETRY RecoverySymmetry
INVARIANTS
    SweepComplete
    NoServedVmSurvives
    OldVethsGone
    AddressesDistinct
    SlotsAccounted
    ManifestFollows
    GracefulExit
PROPERTIES
    KeepsManifest
CHECK_DEADLOCK FALSE
