SPECIFICATION Spec
CONSTANTS
    Work = {f1, f2, f3, f4}
    Routines = 2
    Caller = {c1, c2}
    NoWork = NoWork
INVARIANTS
    NoLostWakeUp
    WaitDrains
    NoSendOnClosedChannel
PROPERTIES
    WaitReturns
    WorkConserving
    ImplementsWorkQueue
    ServesWorkQueue
