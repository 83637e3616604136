SPECIFICATION Spec
PROPERTY DestructorAlwaysReturns
CONSTANTS
    Owner = owner
    Users = {t1}
    LoopThread = lt
    Functors = {f1, f2}
    Channels = {c1}
    QuitByApplication = FALSE
CHECK_DEADLOCK FALSE
