SPECIFICATION EndsSpec
CONSTANTS
    PR = {p}
    Commit = {c1, c2}
    None = None
    SharedCommits = FALSE
    Lossy = FALSE
    MaxSetbacks = 2
PROPERTIES
    CallsReturn
    CIEnds
    BlockedLeaves
    FirstIsReported
CHECK_DEADLOCK FALSE
