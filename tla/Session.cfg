SPECIFICATION FairSpec
CONSTANTS
    Contracts <- MCContracts
    Receipts <- MCReceipts
    Replies <- MCReplies
    RunLimits <- MCRunLimits
    Contents = {c0, c1}
    Baseline = c0
    Partial = Partial
    Absent = Absent
INVARIANTS
    TypeOK
    DoneIsVerified
    DoneIsReviewed
    LocalStaysLocal
    HandoffIsCurrent
    TiersClimb
    
PROPERTIES
    LedgerSpec
    RunTerminates
\* An ended session stays as it is.
CHECK_DEADLOCK FALSE
