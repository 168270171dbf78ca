SPECIFICATION SafetySpec
CONSTANTS
    Job = {a, b}
    MaxCommit = 2
    MaxSetbacks = 1
    PushDuringEvaluation = FALSE
SYMMETRY Symmetry
INVARIANTS
    HeadHasBuilds
    OncePerCommit
