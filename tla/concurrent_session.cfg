\* Two requests of one session interleave; DuckDB may fail any command.
SPECIFICATION FairSpec
CONSTANTS
    Lanes = {l1, l2}
    MaxCalls = 3
    Scripts <- RetriableScripts
    NoTxnErrors <- AnyNoTxnError
    AbortedCommit <- AnyAbortedCommit
    CommitMayFail = TRUE
INVARIANTS
    IdsAccounted
    RetryStartsClean
PROPERTIES
    Answered
CHECK_DEADLOCK FALSE
