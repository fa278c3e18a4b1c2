\* Two requests, without symmetry.
CONSTANTS
    Requests = {r1, r2}
    Connections = {c1, c2}
    None = None
    MaxWire = 2
SPECIFICATION FairSpec
PROPERTIES
    EveryRequestReturns
CHECK_DEADLOCK FALSE
