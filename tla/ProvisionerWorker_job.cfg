SPECIFICATION FairSpec
CONSTANTS
    Assets = 2
    Chunks = 2
    Inactivity = 2
    Patience = 1
    MaxKills = 2
    WholeBodies = TRUE
INVARIANTS
    TypeOK
    SuccessIsWhole
    TerminalIsQuiet
    LastWordIsKept
    PartsAreRemoved
    AnsweringWorkerIsKept
PROPERTIES
    WaitEnds
    ProgressNeverFalls
    KeepsThePromise
CHECK_DEADLOCK FALSE
