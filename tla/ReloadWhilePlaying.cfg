CONSTANTS
    Null = Null
    NoRing = NoRing
    Frames = 3
    FirstFrames = 3
    Qualities <- MCQualities
    DefaultQuality = "MQ"
    Lengths <- MCLengths
    DefaultLength = 3
    InputLength = 2
    Latency = 1
    Request = 2
    Calls = {"buffer", "quality"}
    MaxCalls = 2
    MaxStalls = 0
    MayFail = {}
SPECIFICATION Spec
INVARIANT NoCrash
CHECK_DEADLOCK FALSE
