SPECIFICATION Spec
CONSTANTS
    phoneA = phoneA
    phoneB = phoneB
    Phone <- TwoPhones
    MaxSid = 2
    FocusRequests <- NativeOnly
    MaxTasks = 1
    MaxPosted = 0
SYMMETRY Symmetry
INVARIANTS TypeOK SingleActive  ActiveIsShown FailedIsForgotten
CHECK_DEADLOCK FALSE
