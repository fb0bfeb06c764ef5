SPECIFICATION Spec
CONSTANTS
    Process = {p1, p2}
    Baseline = {b1, b2}
    NotInitialised = NotInitialised
    TrialId = {t1, t2}
    RuleId = {}
    ExperienceId = {e1}
    NoIndex = NoIndex
    Nobody = Nobody
    Locked = TRUE
    MaxWrites = 2
    MaxEdits = 2
    MaxFaults = 1
INVARIANTS
    StoreTypeOK
PROPERTIES
    RecordsImmutable
    FreshMeansCurrent
    RefusedOnlyForRetries
    ConfirmedIsWritten
SYMMETRY Symmetry
CHECK_DEADLOCK FALSE
