SPECIFICATION Spec
CONSTANTS
    Id = {1, 2, 3}
    Cell = {term, memory}
    t = t
    u = u
    Thread = {t, u}
    ProcessOf <- TwoProcesses
    MaxBatch = 2
    MaxMerges = 0
    MaxRebuilds = 0
    MaxForgets = 0
    MaxFails = 0
INVARIANTS
    StoresAsRebuilt
