SPECIFICATION LiveSpec
CONSTANTS
    Branch = {main}
    PR = {p1}
    QueueId = {q1}
    Handler = {h1, h2}
    None = None
    Events = {"enqueue", "dequeue", "tick"}
    Requests = {"pause", "resume"}
    MayStop = TRUE
    MaxTasks = 1
    Parts = {"all"}
    MorePRs = {p1}
    Branches = {main}
    QueueIds = {q1}
PROPERTIES
    HeadIsEvaluated
    LoopReturns
