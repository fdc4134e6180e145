SPECIFICATION FairSpec
INVARIANTS TypeOK OneHandler 
PROPERTIES Keeps Served
CHECK_DEADLOCK FALSE
