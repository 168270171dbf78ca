SPECIFICATION OrderSpec
CONSTANTS
    Element = {e1, e2, e3, e4}
    Root = Root
    Nil = Nil
    Value = {v, w}
    Key = {k1, k2, k3}
    Rank = {1, 2}
    PR = {1, 2, 3, 4}
    Priority = {0, 1}
    Minute = 0
    FourHours = 1
    MaxTime = 2
    MaxSuspends = 1
    MaxUpdates = 1
INVARIANTS
    IndexMatches
    PrioritiesRespected
    RingIntact
PROPERTIES
    AsDocumented
    ImplementsKeyOrder
    FirstIsStatic
CHECK_DEADLOCK FALSE
