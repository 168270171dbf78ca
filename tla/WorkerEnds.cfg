SPECIFICATION LiveSpec
CONSTANTS
    PR = {p, q}
    None = None
    Zero = Zero
    Timeout = 1
    Latency = 0
    Waiting = FALSE
    MaxHead = 3
    BaseCommit = {1, 2}
    MaxCancels = 1
    BaseShrinks = TRUE
    Name = {"build", "lint"}
    Required = {"build"}
    PageSize = 1
    MaxCommit = 2
    Ends = {"success"}
PROPERTIES
    StaleLeaves
    EvaluationEnds
CHECK_DEADLOCK FALSE
