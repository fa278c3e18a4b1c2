\* Three keys, whose file may be unreadable; windows of two units of time, four
\* of which are looked at.
CONSTANTS
    a1 = a1
    a2 = a2
    b = b
    Keys <- KeysOf
    Limit <- LimitOf
    Scopes <- ScopesOf
    ExpiresAt <- ExpiresAtOf
    Window = 2
    MaxTime = 3
    CliBeside = FALSE
    ReadsFail = TRUE
SPECIFICATION Spec
SYMMETRY AuthSymmetry
INVARIANTS
    FileFollowsMemory
    NoRevival
    RotationIsOneStep
    UseIsSaved
    BurstBound
    RetryAfterSuffices
CHECK_DEADLOCK FALSE
