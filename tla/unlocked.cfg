CONSTANTS
    Size = 3
    Word = 8
    Offsets = {0, 5}
    MaxOffset = 10
    Tasks = {1, 2}
    Sizes = {1, 3}
    Bits = {"a", "b"}
    Reserved = {"r"}
    Asked = {{"a"}, {"a", "b"}, {"b", "r"}}
    MaxIsrCalls = 2
    MaxLives = 3
    Elems = {b1, b2, b3}
    Lists = {0}
    Nil = nil
    Threads = {t1, t2}
    NoThread = none
SPECIFICATION MCSpec
SYMMETRY Interchangeable
INVARIANTS BytesIntact RangeAssertions WokenRuns FlagsReported LivesApart
INVARIANTS TableIntact PostCallsRegistered
\* An assert that fails ends the program; a client may create no more tasks.
CHECK_DEADLOCK FALSE
