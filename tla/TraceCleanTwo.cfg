\* Two cleaners with plans of their own.
CONSTANTS
    a1 = a1
    s1 = s1
    c1 = c1
    c2 = c2
    Agent = {a1}
    Session = {s1}
    Cleaner = {c1, c2}
    MaxEvents = 2
    CleansItself = FALSE
    NoCheckpoint = NoCheckpoint
    Missing = Missing
SPECIFICATION CleanSpec
SYMMETRY Symmetry
CHECK_DEADLOCK FALSE
INVARIANTS
    OnlyOldEventsGo
