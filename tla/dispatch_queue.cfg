CONSTANTS
    Posters = {p1, p2}
    Destroyers = {d1, d2}
    Worker = w
    Blocks = {b1, b2}
    NoBlock = nil
    Kill = kill
    NoThread = none
    MaxPosts = 1
SPECIFICATION FairSpec
INVARIANTS AssertionCauses RunsInOrder BlocksConserved DestroyDrains
PROPERTIES AcceptedRuns DestroyReturns
