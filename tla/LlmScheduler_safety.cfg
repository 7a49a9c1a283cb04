SPECIFICATION Spec
CONSTANTS
    c1 = c1
    c2 = c2
    b1 = b1
    e1 = e1
    t1 = t1
    NoTurn = NoTurn
    Job <- CoreJobs
    Prio <- CorePrio
    Pure <- CorePure
    TurnOf <- CoreTurns
    Impatient <- Nobody
    Slots = 2
    Reserved = 1
    MaxAge = 2
    MayStop = TRUE
    MayFail = TRUE
SYMMETRY ChatSymmetry
INVARIANTS
    IInv
    CapacityRespected
    EffectfulNeverPreempted
    PreemptionIsSilent
    StrandedOnlyByEarlyCancel
    DeadWorkerAnswersAll
    NoLostWakeup
PROPERTIES
    RevivedOnlyByPreemption
    ImplementsAdmission
\* A stopped or dead scheduler comes to rest.
CHECK_DEADLOCK FALSE
