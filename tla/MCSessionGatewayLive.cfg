\* Three requests of two sessions, with and without an unknown template; no
\* symmetry, as for any liveness property.
CONSTANTS
    Calls = {c1, c2, c3}
    SessionIds = {s1, s2}
    Callers = {None}
    Templates = {lost}
    DefaultTemplate = node
    Alias = exec
    Registry = {node}
    None = None
SPECIFICATION FairSpec
PROPERTIES
    EveryCallReturns
CHECK_DEADLOCK FALSE
