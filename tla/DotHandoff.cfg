SPECIFICATION Spec
CONSTANTS
    Reason = "DOT_SUPERVISOR_REVIEW_REQUIRED"
    MaxFaults = 4
INVARIANTS
    TypeOK
    HandoffIsWhole
    BlockedWithCause
PROPERTIES
    NeverOverwritten
\* A published or blocked handoff ends the behaviour.
CHECK_DEADLOCK FALSE
