SPECIFICATION SafeSpec
INVARIANT SentIsWhatWasGiven
CONSTANTS
    LoopThread = lt
    Threads = {t1}
    MaxSends = 1
    MaxLoopSends = 1
    MaxIncoming = 1
    MsgLen = 2
    SndBuf = 2
    highWaterMark_ = 2
CHECK_DEADLOCK FALSE
