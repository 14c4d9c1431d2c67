SPECIFICATION FairSpec
CONSTANTS
    Jobs = {"j1", "j2"}
    SafeSegment <- MCSafeSegment
    Streams <- MCStreams
    MaxArtifactBytes = 2
    MaxAttempts = 2
    MaxPolls = 1
    MaxImages = 2
INVARIANTS
    OneLaunchPerOutage
    AnswerIsWhole
    NeverMixed
    NothingHalf
PROPERTIES
    EveryJobIsAnswered
CHECK_DEADLOCK FALSE
