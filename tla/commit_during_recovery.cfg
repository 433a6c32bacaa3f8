\* A COMMIT arrives while another request of the session recovers.
SPECIFICATION Spec
CONSTANTS
    Lanes = {l1, l2}
    MaxCalls = 4
    Scripts <- WriteScripts
    NoTxnErrors <- ContextError
    AbortedCommit <- ErrorOnAbortedCommit
    CommitMayFail = FALSE
PROPERTIES CommitHonest
CHECK_DEADLOCK FALSE
