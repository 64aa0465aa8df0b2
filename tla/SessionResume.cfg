SPECIFICATION Spec
CONSTANTS
    Contracts <- MCContracts
    Receipts <- MCReceipts
    Replies <- MCReplies
    RunLimits <- MCRunLimits
    Contents = {c0, c1}
    Baseline = c0
    Partial = Partial
    Absent = Absent
PROPERTIES
    CheckpointsResume
\* An ended session stays as it is.
CHECK_DEADLOCK FALSE
