CONSTANTS
    QueueCap = 2
    PingInterval = 1
    PingTimeout = 2
    VersionTimeout = 1
    SslTimeout = 2
    ByeTimeout = 1
    MaxStops = 2
    Faults <- AllFaults
SPECIFICATION FairSpec
INVARIANTS TypeOK OneWriter OneReader WireOrder  Watched
PROPERTIES Implements StopEnds HandshakeEnds DeadPhoneEnds
