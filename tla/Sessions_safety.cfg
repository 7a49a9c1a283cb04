SPECIFICATION Spec

CONSTANTS
    c1 = c1
    c2 = c2
    b1 = b1
    Client <- TwoClients
    Restless <- OneClient
    Caster <- OneTask
    MaxConns = 3
    MaxCasts = 2
    LogSize = 1
    Aging = TRUE

INVARIANTS
    WellFormed
    LogReachesHorizon
    NoGapWhileAttached
    OneSessionPerSocket
    DetachedOnlyIfOvertaken

\* Connections and broadcasts are bounded.
CHECK_DEADLOCK FALSE
