\* The Tox thread waits for room that only the Tox thread can make.
\* The Tox thread may wait for itself for ever: the system really stops there.
CHECK_DEADLOCK FALSE
SPECIFICATION FairSpec
CONSTANTS
    w1 = w1
    w2 = w2
    Tox = Tox
    Writers <- MCWriters
    Capacity = 1
    Retries = 2
    MaxPosts = 1
    MaxToxPosts = 1
    MaxSent = 2
    Freed = Freed
    Garbage = Garbage
    None = None
PROPERTY
    ToxPostResumes
