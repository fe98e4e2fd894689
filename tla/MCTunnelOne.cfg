\* One connection, with the descriptors POSIX gives out.
\* The tunnel rests when the connection is closed.
CHECK_DEADLOCK FALSE
SPECIFICATION FairSpec
CONSTANTS
    Conns <- MCOne
    Fds <- MCFds
    Posix = TRUE
    MaxData = 2
    MaxEnds = 1
    Std = Std
    Leaked = Leaked
    NoFile = NoFile
    NoUuid = NoUuid
    Fresh = Fresh
INVARIANTS
    ListsAgree
PROPERTIES
    KeepsPromise
    CloseReachesBoth
