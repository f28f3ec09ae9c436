SPECIFICATION Spec
CONSTANTS
    Ids = {1, 2, 3}
    rule = rule
    draft = draft
    Address <- MCAddress
    KindOf <- MCKindOf
    NoAddress = NoAddress
    Writer = {w1, w2}
INVARIANTS
    TypeOK
    OneRowEach
    LogIsUnion
    WatcherMissesNothing
    RecordIsSequential
PROPERTIES
    NoLostEdit
CHECK_DEADLOCK FALSE
