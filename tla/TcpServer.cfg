SPECIFICATION Spec
INVARIANTS TypeOK Balanced NoDanglingChannel OwnThreadOnly OnePlace
PROPERTIES ImplementsSessions EveryClientServed ClosedIsReleased DestructorReturns
CONSTANTS
    MaxThreads = 2
    MaxConns = 3
    MaxFds = 2
CHECK_DEADLOCK FALSE
