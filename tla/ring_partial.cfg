CONSTANTS
    Size = 3
    Word = 8
    Offsets = {0}
    MaxOffset = 6
SPECIFICATION RingSpec
INVARIANT PartialServed
\* An assert that fails ends the program.
CHECK_DEADLOCK FALSE
