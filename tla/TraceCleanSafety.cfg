\* One session at a time and one cleaner; resumes reconcile.
CONSTANTS
    a1 = a1
    s1 = s1
    s2 = s2
    c1 = c1
    Agent = {a1}
    Session = {s1, s2}
    Cleaner = {c1}
    MaxEvents = 3
    CleansItself = FALSE
    NoCheckpoint = NoCheckpoint
    Missing = Missing
SPECIFICATION CleanSpec
SYMMETRY Symmetry
CHECK_DEADLOCK FALSE
INVARIANTS
    CleanTypeOK
    OnlyOldEventsGo
PROPERTIES
    ProtectedLinesStay
