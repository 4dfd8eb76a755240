CONSTANTS
    m1 = m1
    m2 = m2
    m3 = m3
    Msgs <- MCMsgs
    MaxRetries = 1
SPECIFICATION Spec
INVARIANT NoSendOnClosedChannel
PROPERTY WakeAfterSeqChange CloseReleasesReceiver CloseEndsNext
\* The watcher may stop for good: the caller loop ends and Close has run.
\* Where it stops is what CloseReleasesReceiver and CloseEndsNext check.
CHECK_DEADLOCK FALSE
