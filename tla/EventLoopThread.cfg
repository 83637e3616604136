SPECIFICATION Spec
INVARIANTS TypeOK TidKnown LoopPointerLive MembersOutliveThread
PROPERTIES StartLoopReturns DestructorReturns EveryFunctorRuns
CONSTANTS
    Owner = owner
    Users = {t1, t2}
    LoopThread = lt
    Functors = {f1, f2}
    Channels = {c1}
    QuitByApplication = TRUE
CHECK_DEADLOCK FALSE
