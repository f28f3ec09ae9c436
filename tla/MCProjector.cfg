SPECIFICATION Spec
CONSTANTS
    Id = {1, 2, 3}
    Cell = {term, memory}
    t = t
    u = u
    Thread = {t, u}
    ProcessOf <- OneProcess
    MaxBatch = 2
    MaxMerges = 1
    MaxRebuilds = 1
    MaxForgets = 1
    MaxFails = 1
INVARIANTS
    TypeOK
    DriftIsExplained
PROPERTIES
    PositionGrows
SYMMETRY Alike
