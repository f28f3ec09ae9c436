\* Two machines with a process each, and jobs that may stop part-way.
SPECIFICATION FairSpec
CONSTANTS
    Ids = {1, 2}
    draft = draft
    m1 = m1
    m2 = m2
    a = a
    b = b
    c = c
    Address <- MCAddress
    KindOf <- MCKindOf
    NoAddress = NoAddress
    Machine = {m1, m2}
    Process = {a, c}
    On <- OnOneEach
    SegmentOps = 2
    MaxFails = 1
    MaxForgets = 0
INVARIANTS
    TypeOK
    BlobsBesideOps
    AppliedIsHeld
    SyncedAgree
PROPERTIES
    SharesOneLog
    Delivery
