SPECIFICATION FairSpec
CONSTANT RETRIES = 6
CHECK_DEADLOCK FALSE
INVARIANTS DriverAgrees ReadyForRequests
PROPERTY InitEnds
