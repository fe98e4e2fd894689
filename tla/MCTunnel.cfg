\* Two connections, when a closed descriptor is given out again as soon as no
\* thread works on it.
\* The tunnel rests when every connection is closed.
CHECK_DEADLOCK FALSE
SPECIFICATION Spec
CONSTANTS
    Conns <- MCConns
    Fds <- MCFds
    Posix = FALSE
    MaxData = 1
    MaxEnds = 0
    Std = Std
    Leaked = Leaked
    NoFile = NoFile
    NoUuid = NoUuid
    Fresh = Fresh
INVARIANTS
    TypeOK
    Isolation
    RecordsMatchFiles
    ListsAgree
    NeverExits
PROPERTIES
    KeepsPromise
