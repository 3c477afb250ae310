SPECIFICATION Spec
CONSTANTS
    Commands = {p1, p2, m}
    Pipelined = {p1, p2}
    Database = TRUE
    IdleTimeout = TRUE
    MaxRetries = 1
    MaxFaults = 2
    MaxCalls = 2
    Hello = Hello
    Select = Select
INVARIANTS InFlightMatchesWire CallOrderKept AliveForAReason
PROPERTY EverythingSettles
CHECK_DEADLOCK FALSE
