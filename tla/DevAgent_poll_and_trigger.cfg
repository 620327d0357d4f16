SPECIFICATION Spec
CONSTANTS
    Tickets = {1}
    Poller = poller
    Triggers = {t1}
    NoTicket = NoTicket
    Missing = Missing
    Orphan = Orphan
    MaxAttempts = 1
    BatchSize = 2
    PageSize = 2
    AttemptCap = 2
    Faults <- AllButJira
    MaxCrashes = 0
    MaxEdits = 1
INVARIANT InProgressIsBeingWorked
 
