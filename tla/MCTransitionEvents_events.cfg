SPECIFICATION FairSpec
CONSTANTS
    OpId = {o1, o2, o3}
    Nobody = Nobody
    LastProgress = 2
INVARIANTS
    TypeOK
    HeardIsCommitted
    ListenersAreCurrent
PROPERTIES
    HeardInOrder
    RevivedOnlyBare
    SavesEnd
CHECK_DEADLOCK FALSE
