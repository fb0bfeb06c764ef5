\* Two processes, two sessions; resumes reconcile the checkpoint or trust it.
CONSTANTS
    a1 = a1
    a2 = a2
    s1 = s1
    s2 = s2
    Agent = {a1, a2}
    Session = {s1, s2}
    MaxEvents = 4
    NoCheckpoint = NoCheckpoint
    Missing = Missing
SPECIFICATION Spec
SYMMETRY Symmetry
CHECK_DEADLOCK FALSE
INVARIANTS
    TypeOK
    CheckpointNeverAhead
    LineIdsNeverLate
    LineIdsExact
    TrialAnchored
    WriterCanGoOn
