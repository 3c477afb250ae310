CONSTANTS
    a = a
    b = b
    c = c
    Workers = {w1}
    Owner = owner
    Nil = Nil
    MaxThreads = 1
    Tasks = {a, b, c}
    Roots = {a, c}
    Children <- Fork
    WarmTo = 0
    SpawnMayFail = FALSE
    IdleWork = {}
    Drops = TRUE
SPECIFICATION Safety
CHECK_DEADLOCK FALSE
INVARIANTS
    NoUseAfterFree
