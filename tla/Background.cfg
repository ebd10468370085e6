CONSTANTS
    Null = Null
    NoRing = NoRing
    Frames = 3
    FirstFrames = 3
    Qualities <- MCQualities
    DefaultQuality = "MQ"
    Lengths <- MCLengths
    DefaultLength = 3
    InputLength = 2
    Latency = 1
    Request = 2
    Calls = {"quality", "background", "buffer"}
    MaxCalls = 3
    MaxStalls = 0
    MayFail = {"soxr", "buffers", "ring", "process", "updater"}
SPECIFICATION FairSpec
INVARIANTS
    LockHeldByOne
    SettingsApplied
    UpdaterOwned
    EveryFrameOnce
PROPERTIES
    RecoversFromFailures
    StopReturns
CHECK_DEADLOCK FALSE
