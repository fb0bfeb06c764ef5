SPECIFICATION Spec
CONSTANTS
    Unknown = Unknown
    OverlapTolerance = 0
    GapFloor = 1
    GapMax = 3
    GapPerDuration = 2
    ConflictRatio = 2
    ConflictGap = 1
    MinRuns = 2
    MinValid = 3
    MinAutocorrelated = 4
    MinEss = 1
    MinEssPower = 2
    MinAcf = 3
    MinExploratory = 3
    MinExploratoryEss = 2
    MinExploratoryEffect = 2
    Threshold = 1
    Effects <- MCEffects
    PUnit = 4
    Q = 2
    None = None
    Horizon = 5
    Lengths <- MCLengths
    ReportedGaps <- MCReportedGaps
    MaxPairs = 2
    MaxN = 4
    MaxSpare = 1
    MaxOthers = 2
    Options = {optA, optB}
    SaysInvalid = {optB}
    MaxLines = 2
INVARIANTS
    DecisionsTypeOK
    TwoSourcesAgree
    GoodMeansComparable
    RefusedForInterval
    ScreenIsStepUp
    AcceptedIsSound
CHECK_DEADLOCK FALSE
