SPECIFICATION Spec
CONSTANTS
    Controllers <- MCControllers
    RepoControllers <- MCRepoControllers
    Tickets <- MCTickets
    TicketOf <- MCTicketOf
INVARIANTS
    TypeOK
    OneLaunchAtATime
    LaunchIsRecorded
PROPERTIES
    EvidenceIsKept
\* Every controller runs once; then nothing is left to do.
CHECK_DEADLOCK FALSE
