SPECIFICATION Spec
INVARIANTS TypeOK KernelAgrees MapAgrees
PROPERTY ReadyIsHandled
CONSTANTS
    c1 = c1
    c2 = c2
    c3 = c3
    f1 = f1
    f2 = f2
    Channels = {c1, c2, c3}
    Fds = {f1, f2}
    FdOf <- ReusedFd
    NoChannel = none
    kInitEventListSize = 1
