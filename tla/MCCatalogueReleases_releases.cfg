SPECIFICATION Spec
CONSTANTS
    Workflow = {w1, w2}
    InitialDocs = d1
    OtherDocs = d2
    Docs = {d1, d2}
    OddName = OddName
    Absent = Absent
    Workspace = {s}
    AuthoredRevisions <- MCAuthored
    MaxAuthored = 1
    MaxMinor = 1
    MaxPatch = 2
    MaxBuilds = 2
    MaxRuns = 2
SYMMETRY Symmetry
INVARIANTS
    PinnedImages
PROPERTIES
    PromotionsFit
    NewestKeepsTheRest
