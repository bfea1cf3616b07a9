SPECIFICATION Spec
CONSTANTS
    MaxSeq = 3
    MaxPush = 2
    MaxDials = 2
INVARIANTS TypeOK AnswerIsOwn NoPushDropped StuckOnlyOnTimeout
PROPERTIES ConnectReturns SendReturns
\* A client that has sent its MaxSeq requests and a lost backend leave nothing to do.
CHECK_DEADLOCK FALSE
