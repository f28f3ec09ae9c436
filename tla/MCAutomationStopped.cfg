\* Two actions, and nobody need cancel.
SPECIFICATION Spec
CONSTANTS
    Actions = 2
    Canceller = {c1}
    Engine = Engine
    Tracker = Tracker
    MaxRestarts = 0
CHECK_DEADLOCK FALSE
INVARIANTS
    StoppedOnlyByCancel
