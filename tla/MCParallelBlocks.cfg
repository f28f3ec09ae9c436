SPECIFICATION FairSpec

CONSTANTS
    Worker = {w1, w2}
    OtherPerBlock = 1
    Streams <- MCStreams

INVARIANTS
    TypeOK
    PermitsMatchParts
    ResultsHaveRoom

PROPERTIES
    IsOrderedStage
    Ends
    CancelEnds
