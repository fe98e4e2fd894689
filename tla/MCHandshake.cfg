\* From the start of both programs to the loops that serve, with stops,
\* lost links, lost requests and messages that come too early.  A program
\* whose data file is torn stays down, so the system may stop.
SPECIFICATION FairSpec
CONSTANTS
    Burstlink = burstlink
    Burstlinkser = burstlinkser
    Byte = 256
    NoCmd = nocmd
    FriendPolls = 1
    AnswerPolls = 2
    MaxWire = 2
    MaxFaults = 3
INVARIANTS
    TypeOK
    OkMeansAnswered
    NeverOneSided
PROPERTIES
    ServesOrStranded
    AlwaysServes
CHECK_DEADLOCK FALSE
