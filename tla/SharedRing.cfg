CONSTANTS
    Length <- MCLength
    SIZES = 32
    Chunks <- MCChunks
    Requests <- MCRequests
    MaxWritten = 6
SPECIFICATION FairSpec
INVARIANTS
    TypeOK
    InOrderUntilMet
PROPERTY AllReadUntilMet
CHECK_DEADLOCK FALSE
