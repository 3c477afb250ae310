CONSTANTS
    a = a
    b = b
    c = c
    Workers = {w1, w2}
    Owner = owner
    Nil = Nil
    MaxThreads = 2
    Tasks = {a, b}
    Roots = {a}
    Children <- Fork2
    WarmTo = 1
    SpawnMayFail = TRUE
    IdleWork = {w1}
    Drops = TRUE
SPECIFICATION Spec
CHECK_DEADLOCK FALSE
INVARIANTS
    ChainAfterAll
PROPERTIES
    IdleTasksRun
    DropReturnsUnlessLate
