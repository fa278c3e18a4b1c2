\* No time passes.
CONSTANTS
    a1 = a1
    a2 = a2
    b = b
    Keys <- KeysOf
    Limit <- LimitOf
    Scopes <- ScopesOf
    ExpiresAt <- ExpiresAtOf
    Window = 2
    MaxTime = 0
    CliBeside = FALSE
    ReadsFail = FALSE
SPECIFICATION Spec
INVARIANT KeysPersist
CHECK_DEADLOCK FALSE
