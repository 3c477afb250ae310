CONSTANTS
    Threads = {t1, t2, t3, t4}
    NoThread = NoThread
    MaxPermits = 2
SPECIFICATION FairSpec
INVARIANTS
    TypeOK
    WriterAlone
    PermitsMatchDrain
PROPERTIES
    EveryoneServed
    ImplementsSemaphore
