SPECIFICATION Spec
CONSTANTS
    OpId = {o1, o2}
    Nobody = Nobody
    LastProgress = 1
SYMMETRY Symmetry
INVARIANTS
    EndIsAnnounced
CHECK_DEADLOCK FALSE
