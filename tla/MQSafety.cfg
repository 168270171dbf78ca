SPECIFICATION PartsSpec
CONSTANTS
    Branch = {main}
    PR = {p1, p2}
    QueueId = {q1}
    Handler = {h1}
    None = None
    Events = {"enqueue", "dequeue", "synchronize", "negative", "push", "positive", "tick"}
    Requests = {"pause", "resume"}
    MayStop = TRUE
    MaxTasks = 1
    Parts = {"all", "wakeUp", "move"}
    MorePRs = {p1, p2, p3}
    Branches = {main, next}
    QueueIds = {q1, q2}
SYMMETRY Symmetry
INVARIANTS
    OnlyHeadIsProcessed
    PausedIsQuiet
    EachFirstIsAttended
    NoPRIsLost
    NoPRComesBack
