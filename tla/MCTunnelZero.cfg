\* Two connections, with the descriptors POSIX gives out.
\* The tunnel rests when every connection is closed.
CHECK_DEADLOCK FALSE
SPECIFICATION Spec
CONSTANTS
    Conns <- MCConns
    Fds <- MCFds
    Posix = TRUE
    MaxData = 0
    MaxEnds = 0
    Std = Std
    Leaked = Leaked
    NoFile = NoFile
    NoUuid = NoUuid
    Fresh = Fresh
INVARIANTS
    ZeroIsNotFound

