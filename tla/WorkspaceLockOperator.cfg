\* An operator removes run.lock while no process has the flock.
CONSTANTS
    p1 = p1
    p2 = p2
    d1 = d1
    Process = {p1, p2}
    Prober = {d1}
    MaxLife = 2
    MaxInode = 2
    OperatorRemoves = TRUE
    Nobody = Nobody
    Unreadable = Unreadable
    NoHolder = NoHolder
SPECIFICATION Spec
INVARIANT MutualExclusion
