SPECIFICATION Spec
CONSTANTS
    phoneA = phoneA
    phoneB = phoneB
    Phone <- TwoPhones
    MaxSid = 2
    FocusRequests <- AnyFocus
    MaxTasks = 1
    MaxPosted = 0
SYMMETRY Symmetry
INVARIANT SingleActive
CHECK_DEADLOCK FALSE
