CONSTANTS
    Threads = {t1, t2}
    Global = Global
    Nil = Nil
    NodeCount = 5
    CAPACITY = 3
    IndexMod = 12
    Start = 11
    BatchSizes = {1, 4}
SPECIFICATION Spec
SYMMETRY Perms
INVARIANTS
    RingWithinBounds
    ExactlyOnePlace
    CacheBitExact
