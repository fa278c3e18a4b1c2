\* No time passes, the command line is used beside the server.
CONSTANTS
    a1 = a1
    a2 = a2
    b = b
    Keys <- KeysOf
    Limit <- LimitOf
    Scopes <- ScopesOf
    ExpiresAt <- ExpiresAtOf
    Window = 2
    MaxTime = 0
    CliBeside = TRUE
    ReadsFail = FALSE
SPECIFICATION Spec
INVARIANT RevokedByAnyone
CHECK_DEADLOCK FALSE
