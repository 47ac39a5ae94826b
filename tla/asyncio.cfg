CONSTANTS
    Tokens = {t1, t2}
    Buffers = {b1}
    Clients = {a1}
    Callback = cb
    None = none
    MaxStarts = 2
    MaxSends = 1
SPECIFICATION Spec
SYMMETRY Interchangeable
INVARIANTS HandshakeHolds CompletionPending ReceiverRuns TokensConserved EndCauses
