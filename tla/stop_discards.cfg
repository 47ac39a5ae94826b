CONSTANTS
    N = 1
    States = {s1, s2}
    Start = s1
    NoState = nil
    MaxStates = 2
    Events = {e1, e2}
    NoEvent = none
    Kill = kill
    Posters = {p}
    Worker = w
    MaxPosts = 2
    MaxStarts = 1
SPECIFICATION WatchedSpec
INVARIANT StopDiscards
