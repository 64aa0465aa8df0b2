SPECIFICATION Spec
CONSTANTS
    Files <- MCFiles
    Trees <- MCTrees
    Original <- MCOriginal
    Jobs <- MCJobs
    Scopes <- MCScopes
    Answers <- MCAnswers
    CallBound = 4
INVARIANTS
    DoneIsDelivered
\* A mission that ended stays as it is.
CHECK_DEADLOCK FALSE
