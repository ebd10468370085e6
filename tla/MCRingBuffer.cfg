CONSTANTS
    Length <- MCLength
    Bytes <- MCBytes
    Chunks <- MCChunks
    Requests <- MCRequests
SPECIFICATION Spec
INVARIANTS
    TypeOK
    CopiesInBounds
PROPERTY ImplementsFifo
