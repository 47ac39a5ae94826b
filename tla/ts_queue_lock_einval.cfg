CONSTANTS
    Producers = {p1}
    Consumers = {c1}
    Items = {a}
    NoItem = NULL
    NoThread = none
    Size = 1
    Waits = {"forever", "timed"}
    LockDeadlines = {"valid", "invalid"}
    WaitDeadlines = {"valid"}
    MaxCalls = 1
SPECIFICATION Spec
INVARIANT HoldsMutex
