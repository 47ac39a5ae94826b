CONSTANTS
    N = 2
    States = {s1, s2}
    Start = s1
    NoState = nil
    MaxStates = 2
    Events = {e1, e2}
    NoEvent = none
    Kill = kill
    Posters = {p}
    Worker = w
    MaxPosts = 3
    MaxStarts = 2
SPECIFICATION Spec
SYMMETRY Interchangeable
INVARIANTS CallbacksPaired TransitionsSettled EventsConserved EndCauses
