SPECIFICATION SafeSpec
INVARIANT DestructorWaits
CONSTANTS
    Owner = owner
    Users = {t1}
    LoopThread = lt
    Functors = {f1, f2}
    Channels = {c1}
    QuitByApplication = TRUE
CHECK_DEADLOCK FALSE
