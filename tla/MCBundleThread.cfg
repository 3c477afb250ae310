CONSTANTS
    v1 = v1
    v2 = v2
    b1 = b1
    b2 = b2
    VMs = {v1, v2}
    Builds = {b1, b2}
    Bundler = bundler
    None = None
    Owner <- OneEach
    Plugins = {b1, b2}
SPECIFICATION Spec
CHECK_DEADLOCK FALSE
INVARIANTS
    NothingTouchedDead
    TeardownWaitsOnlyForStarted
PROPERTIES
    EveryBuildSettled
