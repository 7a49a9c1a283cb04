SPECIFICATION FairSpec

CONSTANTS
    Letter <- Letters
    MaxSentence = 2
    MaxSpeeches = 2
    Replies <- TwoReplies
    Responses <- ProbeResponses
    FrameBytes = 2
    Chunks = {1, 3}
    MaxAudio = 4

INVARIANTS
    SpeechInv
    SentencesAsWritten
    DoneIsSpoken

PROPERTIES
    ImplementsAudioStream
    CancelSilences
    ProbeReadsTheFormat
    EverySpeechEnds

\* The speeches are bounded.
CHECK_DEADLOCK FALSE
