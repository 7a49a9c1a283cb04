SPECIFICATION Spec

CONSTANTS
    s1 = s1
    s2 = s2
    Session <- TwoClients
    MaxTurns = 3
    MaxDeltas = 1
    Voice = FALSE
    Faults <- NoFaults

INVARIANTS
    OneForeground

\* The turns are bounded, so the system stops when they are used up.
CHECK_DEADLOCK FALSE
