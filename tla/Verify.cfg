SPECIFICATION Spec
CONSTANTS
    Files = {"code", "data"}
    Contents = {"good", "bad"}
    CriteriaLists <- MCCriteriaLists
INVARIANTS
    VerdictIsEarned
\* A verification ends.
CHECK_DEADLOCK FALSE
