\* Three agent processes whose pids may each be reused once, and a prober.
CONSTANTS
    p1 = p1
    p2 = p2
    p3 = p3
    d1 = d1
    Process = {p1, p2, p3}
    Prober = {d1}
    MaxLife = 2
    MaxInode = 2
    OperatorRemoves = FALSE
    Nobody = Nobody
    Unreadable = Unreadable
    NoHolder = NoHolder
SPECIFICATION Spec
SYMMETRY Symmetry
INVARIANTS
    TypeOK
    MutualExclusion
    HeldNeverMisnamed
    StaleVerdictSound
    NoOrphanedFlock
PROPERTY ImplementsExclusiveLock
