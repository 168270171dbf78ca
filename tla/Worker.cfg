SPECIFICATION SafetySpec
CONSTANTS
    PR = {p, q}
    None = None
    Zero = Zero
    Timeout = 2
    Latency = 1
    Waiting = TRUE
    MaxHead = 4
    BaseCommit = {1, 2}
    MaxCancels = 1
    BaseShrinks = FALSE
    Name = {"build", "lint"}
    Required = {"build"}
    PageSize = 1
    MaxCommit = 2
    Ends = {"success", "failure"}
SYMMETRY Symmetry
INVARIANTS
    NoEmptyMerge
    UpdateIsTrue
PROPERTIES
    StaleIsJustified
    RollUpIsTrue
CHECK_DEADLOCK FALSE
