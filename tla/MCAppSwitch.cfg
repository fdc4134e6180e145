SPECIFICATION Spec
CONSTANTS
    phoneA = phoneA
    phoneB = phoneB
    Phone <- TwoPhones
    MaxSid = 2
    FocusRequests <- NativeOnly
    MaxTasks = 1
    MaxPosted = 0
SYMMETRY Symmetry
INVARIANT ActiveIsDecoded
CHECK_DEADLOCK FALSE
