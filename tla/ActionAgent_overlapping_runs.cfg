SPECIFICATION FairSpec
CONSTANTS
    Runs = {scheduler, endpoint}
    Tickets <- ThreeTickets
    Undraftable = {3}
    Unmovable = {1}
    BatchSize = 2
    MaxAttempts = 2
    MaxFaults = 2
    MaxMoves = 1
    MaxCrashes = 1
INVARIANT TypeOK
INVARIANT DraftsAreBounded
INVARIANT ReviewHasDraft
INVARIANT CountsAddUp
PROPERTY TicketsAreWorked
