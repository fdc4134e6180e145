SPECIFICATION Spec
CONSTANTS
    phoneA = phoneA
    phoneB = phoneB
    Phone <- TwoPhones
    MaxManagers = 2
    MaxEvents = 1
INVARIANT RestoredAfterSession
CHECK_DEADLOCK FALSE
