SPECIFICATION FairSpec
CONSTANTS
    phoneA = phoneA
    phoneB = phoneB
    Phone <- OnePhone
    MaxManagers = 2
    MaxEvents = 1
INVARIANTS
    TypeOK
    PriorityFollowsSession
    BlockedIsQuiet
    NoOrphanSession
    ShownIsConnected
PROPERTIES
    StoppedEnds
    LinkEndsSession
CHECK_DEADLOCK FALSE
