CONSTANTS
    Producers = {p1}
    Consumers = {c1}
    Items = {a}
    NoItem = NULL
    NoThread = none
    Size = 1
    Waits = {"forever", "timed"}
    LockDeadlines = {"valid", "invalid"}
    WaitDeadlines = {"valid", "invalid"}
    MaxCalls = 2
SPECIFICATION FairSpec
PROPERTIES TimedCallReturns NoStrandedWaiter
