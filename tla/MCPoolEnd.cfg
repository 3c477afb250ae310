CONSTANTS
    a = a
    b = b
    c = c
    Workers = {w1, w2, w3}
    Owner = owner
    Nil = Nil
    MaxThreads = 3
    Tasks = {a}
    Roots = {a}
    Children <- Flat
    WarmTo = 3
    SpawnMayFail = FALSE
    IdleWork = {}
    Drops = TRUE
SPECIFICATION SettledSpec
CHECK_DEADLOCK FALSE
PROPERTY DropReturnsUnlessLate
