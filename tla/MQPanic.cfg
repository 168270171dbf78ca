SPECIFICATION SafetySpec
CONSTANTS
    Branch = {main}
    PR = {p1, p2}
    QueueId = {q1}
    Handler = {h1}
    None = None
    Events = {"enqueue", "dequeue"}
    Requests = {}
    MayStop = FALSE
    MaxTasks = 1
INVARIANT
    NoWorkAfterWait
