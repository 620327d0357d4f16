SPECIFICATION FairSpec
CONSTANTS
    Tickets = {1, 2}
    Poller = poller
    Triggers = {}
    NoTicket = NoTicket
    Missing = Missing
    Orphan = Orphan
    MaxAttempts = 1
    BatchSize = 1
    PageSize = 1
    AttemptCap = 2
    Faults <- JiraOnly
    MaxCrashes = 2
    MaxEdits = 0
PROPERTY NoOpenPrIsAbandoned
PROPERTY TicketsAreAttempted
PROPERTY CrashedRunIsResumed
