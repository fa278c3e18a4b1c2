\* What an error on a young connection leaves behind.
CONSTANTS
    Requests = {r1, r2}
    Connections = {c1, c2}
    None = None
    MaxWire = 1
SPECIFICATION Spec
INVARIANTS
    SingleConnection
CHECK_DEADLOCK FALSE
