SPECIFICATION Spec
CONSTANTS
    Workspace = {w1}
    OpId = {o1, o2, o3, o4}
    NoWorkspace = NoWorkspace
    NoGen = NoGen
    Copy = {"good", "odd"}
    Caller = {c1, c2}
    MaxFaults = 0
    Timely = TRUE
SYMMETRY Symmetry
PROPERTIES
    CleansTheAttachedRuntime
