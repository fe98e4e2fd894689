\* The slot of a dropped message is read after it was dequeued.
\* The Tox thread may wait for itself for ever: the system really stops there.
CHECK_DEADLOCK FALSE
SPECIFICATION Spec
CONSTANTS
    w1 = w1
    w2 = w2
    Tox = Tox
    Writers <- MCWriters
    Capacity = 2
    Retries = 2
    MaxPosts = 2
    MaxToxPosts = 1
    MaxSent = 2
    Freed = Freed
    Garbage = Garbage
    None = None
INVARIANT
    ClosesItsOwnSocket
