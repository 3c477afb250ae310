CONSTANTS
    Threads = {t1, t2, t3, t4}
    NoThread = NoThread
    Tasks = {a, b, c, d}
    Started = {a, b}
    Waiter = waiter
    Nobody = Nobody
    Producers = {p1, p2, p3}
    Nodes = {n1, n2, n3}
    NULL = NULL
SPECIFICATION ThreadingSpec
INVARIANTS
    MutualExclusion
    OwnerExact
    NoStrandedSleeper
    NoUseAfterFree
    NoForgottenWaiter
    LinksStayInside
PROPERTIES
    ImplementsLock
    LockersServed
    WaitReturns
    ImplementsFifo
    EveryItemPopped
