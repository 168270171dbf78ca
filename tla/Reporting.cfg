SPECIFICATION SafetySpec
CONSTANTS
    PR = {p, q}
    Commit = {c1, c2, c3}
    None = None
    SharedCommits = FALSE
    Lossy = FALSE
    MaxSetbacks = 1
SYMMETRY Symmetry
INVARIANTS
    CachedLabelIsReal
    CachedStatusIsReal
    LeftIsNotSuccessful
