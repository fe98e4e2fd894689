\* Connecting, losing the connection and restarting.
SPECIFICATION FairSpec
CONSTANTS
    a = a
    b = b
    Peers <- MCPeers
    Tries = 3
    MaxFlight = 2
    MaxBoots = 2
    MaxFaults = 2
    Nothing = Nothing
INVARIANTS
    TypeOK
    MessengerAgrees
    OnlineTogether
PROPERTIES
    ImplementsPresence
    BackTogether
