\* Five requests of one session, by two owners.
CONSTANTS
    Calls = {c1, c2, c3, c4, c5}
    SessionIds = {s1}
    Callers = {alice, bob}
    Templates = {}
    DefaultTemplate = node
    Alias = exec
    Registry = {node}
    None = None
SPECIFICATION Spec
SYMMETRY OwnerSymmetry
INVARIANTS
    LockHeld
    OneVmPerSession
    NoOrphanVm
    ManifestTracksSessions
    DestroysItsOwnSession
    NoRevival
    Isolation
    SessionsNotOverstated
    NobodyStranded
PROPERTIES
    KeepsVmService
    KeepsManifest
CHECK_DEADLOCK FALSE
