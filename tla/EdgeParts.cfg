CONSTANTS
    green = green
    red = red
    Colours <- GrantedAndDenied
    Holds <- Durations
    MaxHold = 3
    Off = Off
    Rows = {top, bottom}
    NoFrame = NoFrame
    MaxReads = 3
    Samples <- Cycles
    Intervals = {0, 1, 3}
    MaxCycles = 4
    MaxRuns = 2
    Ids = {1, 2}
    Owners = {a, b}
    here = here
    near = near
    far = far
    zero = zero
    nan = nan
    Vectors <- SomeVectors
    CosineDistance <- SomeDistances
    Infinity = 3
    NaN = NaN
    Threshold = 2
    NoMatch = NoMatch
    Points <- SomePoints
    CanonicalRight <- RightEye
    CanonicalLeft <- LeftEye
    MaxFaces = 2
    Missed = Missed
    TomlNaN = TomlNaN
    NoFile = NoFile
    Files <- FilesTried
    ana = ana
    bia = bia
    cid = cid
    dan = dan
    Images <- Dataset
    EnrollNs = {1, 2, 4}
    MaxProbes = 1
    MaxImpostors = 1
    PairLists <- Lists
    NoOne = NoOne
SPECIFICATION EdgeSpec
INVARIANTS
    EdgeTypeOK CommandsFollowed SummariesAddUp OneEntryPerId EmbeddingIsSound
    StartsAndEndsSafely ReportIsSound
PROPERTIES PartsComeToRest FrameIsCurrent MatchIsNearest
