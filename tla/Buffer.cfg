SPECIFICATION Spec
INVARIANTS TypeOK ReadableIsUnread
PROPERTY GrowsOnlyWhenFull
CONSTANTS
    kCheapPrepend = 2
    kInitialSize = 3
    kExtraBuf = 3
    MaxStream = 9
