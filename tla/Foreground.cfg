CONSTANTS
    Null = Null
    NoRing = NoRing
    Frames = 4
    FirstFrames = 3
    Qualities <- MCQualities
    DefaultQuality = "MQ"
    Lengths <- MCLengths
    DefaultLength = 3
    InputLength = 2
    Latency = 1
    Request = 2
    Calls = {"clear", "length", "quality", "playback_buffer_length", "keep_alive", "enqueue"}
    MaxCalls = 2
    MaxStalls = 1
    MayFail = {"source"}
SPECIFICATION FairSpec
INVARIANTS
    TypeOK
    LockHeldByOne
    NoCrash
    EndMeansDrained
    LengthAccurate
PROPERTIES
    ImplementsPlaybackStream
    PlaysToTheEnd
    EndIsReported
CHECK_DEADLOCK FALSE
