\* Three requests, each of which may make a connection of its own.
CONSTANTS
    Requests = {r1, r2, r3}
    Connections = {c1, c2, c3}
    None = None
    MaxWire = 2
SPECIFICATION Spec
SYMMETRY ChannelSymmetry
INVARIANTS
    OneAtATime
    NobodyForgotten
    OwnMessages
    AloneOnConnection
PROPERTIES
    SilentAfterwards
CHECK_DEADLOCK FALSE
