\* A streaming pair, and a tool that fails on a long document.
CONSTANTS
    Parts = 5
    Tools = 1
    Capacity = 1
    Feeds = {"skeleton"}
    Faults <- OnlyTools
    Droppable = {}
    Rivals = {}

SPECIFICATION FairSpec

CHECK_DEADLOCK FALSE

PROPERTIES
    ReturnsAfterToolError
