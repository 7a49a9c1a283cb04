SPECIFICATION FairSpec
CONSTANTS
    c1 = c1
    c2 = c2
    b1 = b1
    e1 = e1
    t1 = t1
    NoTurn = NoTurn
    Job <- MixedJobs
    Prio <- MixedPrio
    Pure <- MixedPure
    TurnOf <- NoTurns
    Impatient <- OneCaller
    Slots = 2
    Reserved = 1
    MaxAge = 2
    MayStop = FALSE
    MayFail = FALSE
PROPERTIES
    ChatAnswered
    BackgroundAnsweredWhenQuiet
