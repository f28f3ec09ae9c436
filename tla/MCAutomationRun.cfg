\* Two actions of any kind, one request to cancel, one restart.
SPECIFICATION FairSpec
CONSTANTS
    Actions = 2
    Canceller = {c1}
    Engine = Engine
    Tracker = Tracker
    MaxRestarts = 1
CHECK_DEADLOCK FALSE
INVARIANTS
    TypeOK
    CountIsReports
    ReportedIsSettled
    CancelReachesJobs
PROPERTIES
    RunSettles
