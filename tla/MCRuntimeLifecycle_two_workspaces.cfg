SPECIFICATION FairSpec
CONSTANTS
    Workspace = {w1, w2}
    OpId = {o1, o2}
    NoWorkspace = NoWorkspace
    NoGen = NoGen
    Copy = {"good", "odd"}
    Caller = {c1}
    MaxFaults = 2
    Timely = FALSE
INVARIANTS
    RunningIsAttended
PROPERTIES
    OperationsFinish
    RecoveryEnds
