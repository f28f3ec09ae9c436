SPECIFICATION Spec
CONSTANTS
    Ids = {1, 2, 3}
    draft = draft
    m1 = m1
    m2 = m2
    a = a
    b = b
    c = c
    Address <- MCAddress
    KindOf <- MCKindOf
    NoAddress = NoAddress
    Machine = {m1}
    Process = {a, b}
    On <- OnTwo
    SegmentOps = 2
    MaxFails = 1
    MaxForgets = 1
INVARIANTS
    KnownIsRemote
    WrittenOnce
PROPERTIES
    SharesOneLog
SYMMETRY Interchange
