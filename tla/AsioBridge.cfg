CONSTANTS
    h1 = h1
    h2 = h2
    t1 = t1
    t2 = t2
    other = other
    Null = Null
    Handles <- Channels
    Threads <- AppThreads
    Others = {other}
    MAX_RESAMPLERS = 2
    MayFail = {"calloc", "stream", "info", "memory", "sync"}
    DWORDS = 4
    LENGTH = 1
SPECIFICATION BridgeSpec
SYMMETRY Alike
VIEW Read
INVARIANTS
    PlaysLiveResamplers
    NeverOverruns
    RegistryIsLive
    SlotsAreGivenBack
CHECK_DEADLOCK FALSE
