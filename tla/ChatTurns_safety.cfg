SPECIFICATION Spec

CONSTANTS
    s1 = s1
    s2 = s2
    Session <- TwoClients
    MaxTurns = 3
    MaxDeltas = 0
    Voice = TRUE
    Faults <- AllFaults

SYMMETRY ClientSymmetry

INVARIANTS
    IInv
    ForegroundUnlessAstray
    OpenOnlyIfMuted
    DoneMeansAnswered

PROPERTIES
    TerminalIsFinal
    IdsNeverReused
    CancelledStaysSilent
    ReplyLostOnlyToStray

\* The turns are bounded, so the system stops when they are used up.
CHECK_DEADLOCK FALSE
