\* Progress of the outgoing queue.
\* The Tox thread may wait for itself for ever: the system really stops there.
CHECK_DEADLOCK FALSE
SPECIFICATION FairSpec
CONSTANTS
    w1 = w1
    w2 = w2
    Tox = Tox
    Writers <- MCWriters
    Capacity = 2
    Retries = 2
    MaxPosts = 1
    MaxToxPosts = 1
    MaxSent = 0
    Freed = Freed
    Garbage = Garbage
    None = None
PROPERTIES
    WritersResume
