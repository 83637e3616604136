SPECIFICATION Spec
INVARIANTS TypeOK LineIsCurrent AloneIsExact
CONSTANTS
    Call = {c1, c2, c3}
    LogLevel = {INFO, ERROR}
    INFO = INFO
    Field = {tm_mday, tm_hour}
    Pieces = 2
    MaxTime = 2
SYMMETRY Symmetry
CHECK_DEADLOCK FALSE
