\* Two tools, and more Parts than a link holds, of a document that is read before
\* the run, or streamed into it, or streamed in and out.
CONSTANTS
    Parts = 2
    Tools = 2
    Capacity = 1
    Feeds = {"slice", "reader", "skeleton"}
    Faults <- AllFaults
    Droppable = {1}
    Rivals = {"same", "other"}

SPECIFICATION FairSpec

CHECK_DEADLOCK FALSE

INVARIANTS
    TypeOK
    CommittedIsWhole
    JoinedAtReturn

PROPERTIES
    RivalIsKept
    Returns
