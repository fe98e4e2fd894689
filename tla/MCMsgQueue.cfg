\* Safety and refinement of the outgoing queue.
\* The Tox thread may wait for itself for ever: the system really stops there.
CHECK_DEADLOCK FALSE
SPECIFICATION Spec
CONSTANTS
    w1 = w1
    w2 = w2
    Tox = Tox
    Writers <- MCWriters
    Capacity = 3
    Retries = 2
    MaxPosts = 2
    MaxToxPosts = 1
    MaxSent = 2
    Freed = Freed
    Garbage = Garbage
    None = None
INVARIANTS
    TypeOK
    NeverAborts
    HeadStaysPut
    NoLostWakeup
    StreamOrder
PROPERTIES
    ImplementsOutbox
    NoSilentDrop
