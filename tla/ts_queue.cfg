CONSTANTS
    Producers = {p1, p2}
    Consumers = {c1}
    Items = {a, b}
    NoItem = NULL
    NoThread = none
    Size = 2
    Waits = {"forever", "timed"}
    LockDeadlines = {"valid"}
    WaitDeadlines = {"valid", "invalid"}
    MaxCalls = 2
SPECIFICATION Spec
SYMMETRY Interchangeable
INVARIANTS HoldsMutex RingSound NoLostWakeup
PROPERTY FifoSpec
