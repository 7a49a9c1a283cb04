SPECIFICATION Spec

CONSTANTS
    c1 = c1
    c2 = c2
    b1 = b1
    Client <- OneClient
    Restless <- OneClient
    Caster <- OneTask
    MaxConns = 3
    MaxCasts = 2
    LogSize = 5
    Aging = FALSE

INVARIANTS
    NoSilentGap

\* Connections and broadcasts are bounded.
CHECK_DEADLOCK FALSE
