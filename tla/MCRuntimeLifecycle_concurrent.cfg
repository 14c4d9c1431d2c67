SPECIFICATION Spec
CONSTANTS
    Workspace = {w1}
    OpId = {o1, o2, o3}
    NoWorkspace = NoWorkspace
    NoGen = NoGen
    Copy = {"good", "odd"}
    Caller = {c1, c2}
    MaxFaults = 2
    Timely = FALSE
SYMMETRY Symmetry
INVARIANTS
    TypeOK
    OneRunningPerWorkspace
    AnchorFollowsOperation
    SavesAreAdmissible
    Coupled
    DeletedIsBare
PROPERTIES
    FinishedIsFinal
