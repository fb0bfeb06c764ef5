SPECIFICATION Spec
CONSTANTS
    Trial = {t1, t2}
    NoTrial = NoTrial
    NoCheckpoint = NoCheckpoint
    Missing = Missing
    MaxVersion = 2
    Spellings <- OneThenTwo
    FailOnDirtySource = TRUE
    Runs = 2
    MaxSpawns = 3
    MaxEvents = 5
    MaxFaults = 1
INVARIANTS
    TrialTypeOK
    OriginalRecoverable
    CompilesTheOriginal
    ScoresMeasureTheBuild
    NoSilentDivergence
    SurvivorsAreKnown
    DoctorErrorsAreReal
SYMMETRY Symmetry
CHECK_DEADLOCK FALSE
