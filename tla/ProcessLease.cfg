\* Three pids: enough for a leader, a descendant elsewhere and a pid in reuse.
CONSTANTS
    p1 = p1
    p2 = p2
    p3 = p3
    Pid = {p1, p2, p3}
    NoPid = NoPid
    MaxTime = 4
SPECIFICATION Spec
SYMMETRY Symmetry
CHECK_DEADLOCK FALSE
INVARIANTS
    ProcTypeOK
    LiveLeaderOnRecord
    CleanupReaches
PROPERTIES
    OnlyOwnProcessesDie
