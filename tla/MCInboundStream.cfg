SPECIFICATION FairSpec
CONSTANTS
    Channel = {0, 1}
    Streams <- ThreeStreams
    MaxLength = 2
    MaxChunk = 3
    MaxQueued = 2
INVARIANTS TypeOK Faithful ErrorAfterData
PROPERTIES Arrives ErrorEndsSession
CHECK_DEADLOCK FALSE
