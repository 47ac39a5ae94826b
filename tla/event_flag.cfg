CONSTANTS
    b1 = b1
    b2 = b2
    Waiters = {w1, w2}
    Setters = {s1}
    Bits = {b1, b2}
    Requests <- MixedRequests
    Clears = TRUE
    NoThread = none
SPECIFICATION FairSpec
INVARIANTS BlockedUnmet
PROPERTIES ConsumedOnce MetWaitReturns
