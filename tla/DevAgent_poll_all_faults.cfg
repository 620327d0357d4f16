SPECIFICATION Spec
CONSTANTS
    Tickets = {1}
    Poller = poller
    Triggers = {}
    NoTicket = NoTicket
    Missing = Missing
    Orphan = Orphan
    MaxAttempts = 2
    BatchSize = 2
    PageSize = 2
    AttemptCap = 3
    Faults <- AllServices
    MaxCrashes = 2
    MaxEdits = 1
INVARIANT TypeOK
INVARIANT NoPhantomShipment
INVARIANT AgentOwnsWorktree
PROPERTY LegalWithinAttempt
