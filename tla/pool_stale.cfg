CONSTANTS
    Handles = {h1, h2, h3}
    Blocks = {b1, b2}
    NoBlock = nil
    NoDestructor = none
    AllocAsks = {none, d1}
    SetAsks = {none, d1}
SPECIFICATION Spec

INVARIANT DestructorPerAllocation
