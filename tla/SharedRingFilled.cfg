CONSTANTS
    Length <- MCLength
    SIZES = 32
    Chunks <- MCChunks
    Requests <- MCRequests
    MaxWritten = 6
SPECIFICATION Spec
INVARIANT InOrder
