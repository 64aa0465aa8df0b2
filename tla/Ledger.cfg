SPECIFICATION LedgerSpec
CONSTANTS
    Contracts <- MCContracts
    Receipts <- MCReceipts
INVARIANTS
    LedgerTypeOK
    CallsWithinCaps
    KnownIsCovered
    CapHoldsOrStopped
    UnknownCostStops
    LedgerAddsUp
PROPERTIES
    HistoryIsAppendOnly
\* A session that reaches a terminal phase really stops.
CHECK_DEADLOCK FALSE
