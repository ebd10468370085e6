CONSTANTS
    Null = Null
    NoRing = NoRing
    Frames = 3
    FirstFrames = 3
    Qualities <- MCQualities
    DefaultQuality = "MQ"
    Lengths <- MCLengths
    DefaultLength = 3
    InputLength = 2
    Latency = 1
    Request = 2
    Calls = {"buffer", "clear"}
    MaxCalls = 2
    MaxStalls = 0
    MayFail = {}
SPECIFICATION Spec
INVARIANT ClearClears
CHECK_DEADLOCK FALSE
