CONSTANTS
    h1 = h1
    h2 = h2
    h3 = h3
    t1 = t1
    Null = Null
    Handles <- Channels
    Threads <- OneThread
    MAX_RESAMPLERS = 2
    MayFail = {"memory"}
SPECIFICATION FairSpec
INVARIANTS
    TypeOK
    UpdatersHaveResamplers
    NoCrash
    StreamsAreRegistered
    NothingLeftBehind
PROPERTIES
    CallsReturn
    DetachWaitsForEver
CHECK_DEADLOCK FALSE
