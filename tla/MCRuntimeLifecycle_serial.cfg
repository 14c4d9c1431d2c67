SPECIFICATION Spec
CONSTANTS
    Workspace = {w1}
    OpId = {o1, o2, o3, o4}
    NoWorkspace = NoWorkspace
    NoGen = NoGen
    Copy = {"good", "odd"}
    Caller = {c1}
    MaxFaults = 3
    Timely = TRUE
SYMMETRY Symmetry
INVARIANTS
    NoOrphan
    ResourcesAreLocatable
    ReadyIsWhole
PROPERTIES
    KeepsThePromise
