SPECIFICATION Spec
CONSTANTS
    Shots <- MCShots
    a = a
    b = b
    Scopes = {"shared"}
    Qualities = {"measured", "untimed"}
    ScopeOf <- MCScopeOf
    Quota = 1
    RowBound = 4
    ResetBound = 1
    Width = 2
SYMMETRY ShotSymmetry
INVARIANTS
    TotalsAddUp
\* Every shot ends, and quotas, resets and observations are bounded.
CHECK_DEADLOCK FALSE
