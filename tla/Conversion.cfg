SPECIFICATION FairSpec
CONSTANTS
    FIFO_MIN = 4
    Rates <- MCRates
    One = 210
    HalfCoefs = 1
    PolyCoefs = 3
    CoefGroup = 1
    CoefSize = 19
    DftFilter <- MCDftFilter
    InputSize = 8
    Second = 4
    Request = 2
    Converters <- MCConverters
INVARIANTS
    TypeOK
    StagesInBounds
    RatioKept
    NothingHeldBack
    DelayBounded
    MemoryBounded
    LengthFollowsSource
PROPERTIES
    ConversionReturns
    EndIsFound
