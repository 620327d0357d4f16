SPECIFICATION FairSpec
CONSTANTS
    Tickets = {1, 2}
    Poller = poller
    Triggers = {}
    NoTicket = NoTicket
    Missing = Missing
    Orphan = Orphan
    MaxAttempts = 2
    BatchSize = 2
    PageSize = 2
    AttemptCap = 3
    Faults <- ExternalServices
    MaxCrashes = 0
    MaxEdits = 0
INVARIANT RestingRunsAgree
PROPERTY FailedRunIsFinal
PROPERTY LedgerSpec
PROPERTY LedgerRunsEnd
