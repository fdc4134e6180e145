SPECIFICATION FairSpec
CONSTANTS
    Credits = 1
    MaxStreams = 2
    MaxData = 2
    MaxMishaps = 1
    MaxSurfaces = 2
    MaxActs = 2
INVARIANTS
    TypeOK
    
    
 
CHECK_DEADLOCK FALSE
