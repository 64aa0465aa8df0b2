SPECIFICATION FairSpec
CONSTANTS
    Files <- MCFiles
    Trees <- MCTrees
    Original <- MCOriginal
    Jobs <- MCJobs
    Scopes <- MCScopes
    Answers <- MCAnswers
    CallBound = 4
INVARIANTS
    TypeOK
    TiersInOrder
    TierBudgets
    DoneIsEarned
    StagingIsVerified
PROPERTIES
    MissionEnds
\* A mission that ended stays as it is.
CHECK_DEADLOCK FALSE
