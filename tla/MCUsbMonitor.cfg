SPECIFICATION FairSpec
CONSTANTS
    phoneA = phoneA
    phoneB = phoneB
    phoneC = phoneC
    Phone <- ThreePhones
    MaxEnum = 7
    MaxMishaps = 2
INVARIANTS
    TypeOK
    HeldIsPresent
    OneSwitch
PROPERTY SwitchLeadsToSession
CHECK_DEADLOCK FALSE
