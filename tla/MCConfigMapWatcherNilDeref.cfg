CONSTANTS
    m1 = m1
    m2 = m2
    m3 = m3
    Msgs <- MCMsgs
    MaxRetries = 1
SPECIFICATION Spec
INVARIANT NoNilDeref
\* The watcher may stop for good: the caller loop ends and Close has run.
CHECK_DEADLOCK FALSE
