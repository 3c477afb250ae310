SPECIFICATION Spec
CONSTANTS
    j1 = j1
    j2 = j2
    Jobs = {j1, j2}
    Posters = {p1}
    Parent = Parent
    Kept <- PoolAndLoop
    Refills = 1
INVARIANTS NothingAfterTeardown NaturalExitRunsAll
PROPERTY EveryPostTaken
CHECK_DEADLOCK FALSE
