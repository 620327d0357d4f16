SPECIFICATION Spec
CONSTANTS
    a = a
    b = b
    Items <- TwoRows
    Manual = {}
    Passes = {scheduler, webhook}
    Actions = {a, b}
    NoAction = NoAction
    Found <- RecurringMeetings
    Skipped = {}
    Unextractable = {}
    Doubtful = {}
    Ticked = {}
    Closable = {}
    Alike <- MatchEachOther
    Near <- MatchEachOther
    Limit = 2
    Faults <- AllButJira
    MaxFaults = 1
    MaxCrashes = 1
    MaxUpdates = 0
INVARIANT NoActionIsLost
INVARIANT DuplicatesShareOneIssue
