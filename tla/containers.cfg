CONSTANTS
    e1 = e1
    e2 = e2
    e3 = e3
    e4 = e4
    t1 = t1
    t2 = t2
    b1 = b1
    Elems = {e1, e2, e3, e4}
    Order <- FourItems
    Lists = {"queue", "free", "list", "log"}
    Nil = nil
    Callbacks = {"none", "put", "insert"}
    MaxInserts = 2
    Bytes = {0, 1}
    TotalSize = 4
    Handles = {h1, h2, h3}
    Blocks = {b1, b2}
    NoBlock = nil
    NoDestructor = none
    AllocAsks = {none, d1, d2}
    SetAsks = {none, d1}
SPECIFICATION MCSpec
INVARIANTS ListsIntact TreeSound IteratorReads NoticeSound
INVARIANTS CountsReferences Conservation AskedDestructorRuns
PROPERTIES AccumulatorWindow 
