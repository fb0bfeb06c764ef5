\* A session that cleans under the lock it holds; resumes may trust the checkpoint.
CONSTANTS
    a1 = a1
    s1 = s1
    s2 = s2
    Agent = {a1}
    Session = {s1, s2}
    Cleaner = {}
    MaxEvents = 4
    CleansItself = TRUE
    NoCheckpoint = NoCheckpoint
    Missing = Missing
SPECIFICATION CleanSpec
SYMMETRY Symmetry
CHECK_DEADLOCK FALSE
PROPERTIES
    ProtectedLinesStay
