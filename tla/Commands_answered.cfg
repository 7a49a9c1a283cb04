SPECIFICATION FairSpec

CONSTANTS
    s1 = s1
    s2 = s2
    Session <- TwoSessions
    Traffic <- SomeTraffic
    MaxFrames <- SomeFrames
    MaxViolations = 2
    AsrTimeout = 4
    Heartbeat = 6
    Libraries <- SomeLibraries
    Args <- AllArgs
    MaxTimeout = 4
    ReapTimeout = 1
    OutCap = 1
    Kernel = 1
    Buffer = 1
    MaxOutput = 4

INVARIANTS
    CmdInv
    NoPartialResult
    PingsInTime

PROPERTIES
    SandboxContained
    EveryFrameAnswered

\* The frames are bounded.
CHECK_DEADLOCK FALSE
