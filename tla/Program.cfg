SPECIFICATION ProgramSpec
CONSTANTS
    Caller = {r, s}
    Off = Off
    DefTimeout = 4
    MaxAfter = 3
    LibraryInterval = 1
    InitialInterval = 2
    MaxInterval = 2
    Number = {1, 2, 3}
    SyncBranch = {main}
    NoBranch = NoBranch
    PageSize = 2
    MaxUpdates = 1
    MaxFailures = 1
    PR = {p, q}
    Branch = {a, b}
    None = None
    Trigger = {auto}
    Capacity = 4
    Reopens = FALSE
    MaxChanges = 3
    MaxLost = 0
    MaxRestarts = 1
SYMMETRY Symmetry
INVARIANTS
    OnceMore
    QueuesSurvive
    OnlyFirstShows
    
PROPERTIES
    NotBeforeAfter
CHECK_DEADLOCK FALSE
