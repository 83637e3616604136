SPECIFICATION Spec
INVARIANTS TypeOK NoSleepOnWork
PROPERTIES ImplementsTaskQueue EveryFunctorRuns BatchCompletes QuitEndsRunningLoop
CONSTANTS
    Threads = {t1, t2}
    LoopThread = lt
    Functors = {f1, f2, f3}
    Channels = {c1}
    QueueOutsideLoop = FALSE
CHECK_DEADLOCK FALSE
