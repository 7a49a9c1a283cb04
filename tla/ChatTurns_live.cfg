SPECIFICATION FairSpec

CONSTANTS
    s1 = s1
    s2 = s2
    Session <- OneClient
    MaxTurns = 2
    MaxDeltas = 2
    Voice = TRUE
    Faults <- LlmFaults

PROPERTIES
    EveryTurnEnds
    FinishedDecays

\* The turns are bounded, so the system stops when they are used up.
CHECK_DEADLOCK FALSE
