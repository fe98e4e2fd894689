\* Lossless packets over a network that loses, duplicates and reorders.
\* The bounds on packets stop the system.
CHECK_DEADLOCK FALSE
SPECIFICATION Spec
CONSTANTS
    near = near
    far = far
    Peers <- MCPeers
    Size = 2
    Gap = 1
    Numbers = 8
    Threshold = 1
    Nonces = 16
    MaxListed = 1
    First = 7
    Chaos = TRUE
    MaxMsgs <- MCMsgs
    MaxNonce <- MCNonce
    MaxFlight = 2
    MaxLost = 1
    Empty = Empty
INVARIANTS
    TypeOK
    NothingLost
    RingsOverlap
    NeverDeaf
    OneRoundHeals
    GapsReadBack
PROPERTIES
    ImplementsChannel
