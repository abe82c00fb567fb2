SPECIFICATION FairSpec
CONSTANTS
    DataLengths <- MCDataLengths
    Foreign <- MCForeign
    MaxFrames = 2
INVARIANTS
    TypeOK
    AtBoundary
PROPERTIES
    IsMessageStream
    CompleteIsDelivered
CHECK_DEADLOCK FALSE
