SPECIFICATION FairSpec
CONSTANT MaxFaults = 2
INVARIANTS TypeOK CleanExit FailureIsReported CleanedUpLast
PROPERTY Ends
CHECK_DEADLOCK FALSE
