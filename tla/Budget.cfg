SPECIFICATION Spec
CONSTANTS
    Lanes = {1, 2, 3}
    EstimatedInput = 1
    Infinity = 100
    Runners = {r1}
    Missions = {m1}
    RunnerJobs <- MCRunnerJobs
    MissionJobs <- MCMissionJobs
    Catalogs <- MCCatalogs
    MeteredLanes = {1}
    Estimates = {1, 2}
    Over = 1
    Slack = 1
    Balances = {3}
    TopUps = {2}
    TopUpBound = 1
INVARIANTS
    TypeOK
    ReportAddsUp
    RouteUndominated
PROPERTIES
    LocksHold
\* Every process ends; then nothing is left to do.
CHECK_DEADLOCK FALSE
