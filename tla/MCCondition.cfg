CONSTANTS
    Threads = {t1, t2, t3, t4}
    NoThread = NoThread
    Timed = {t4}
SPECIFICATION FairSpec
INVARIANTS
    SignalsCovered
    NoStrandedSignal
PROPERTIES
    SignalUnblocks
