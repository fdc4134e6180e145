SPECIFICATION FairSpec
PROPERTY CloseReturns
CHECK_DEADLOCK FALSE
