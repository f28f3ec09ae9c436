\* A job of any kind, two worker processes with a sweeper each.
CONSTANTS
    Job = {j1}
    NoJob = NoJob
    Worker = {w1, w2}
    Sweeper = {s1, s2}
    MaxAttempts = 2
    MaxDeferrals = 2
    MaxFaults = 2

SPECIFICATION FairSpec

CHECK_DEADLOCK FALSE

INVARIANTS
    TypeOK
    OneOwner
    RunsArePaid
    AnnouncedStaysFailed

PROPERTIES
    SettledStays
    Settles
