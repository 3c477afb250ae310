CONSTANTS
    a = a
    b = b
    c = c
    Workers = {w1, w2}
    Owner = owner
    Nil = Nil
    MaxThreads = 2
    Tasks = {a, b, c}
    Roots = {a, c}
    Children <- Fork
    WarmTo = 1
    SpawnMayFail = FALSE
    IdleWork = {}
    Drops = FALSE
SPECIFICATION Spec
CHECK_DEADLOCK FALSE
INVARIANTS
    SyncConsistent
    NoStrandedTask
    SleepersSeenTo
PROPERTIES
    EveryTaskRuns
