SPECIFICATION FairSpec
CONSTANTS
    a = a
    b = b
    Items <- ThreeRows
    Manual = {1, 3}
    Passes = {scheduler}
    Actions = {a, b}
    NoAction = NoAction
    Found <- MixedRows
    Skipped = {3}
    Unextractable = {1}
    Doubtful = {b}
    Ticked = {}
    Closable = {a}
    Alike <- NoService
    Near <- NoService
    Limit = 2
    Faults <- AllServices
    MaxFaults = 2
    MaxCrashes = 1
    MaxUpdates = 1
INVARIANT TypeOK
INVARIANT GraphIsCurrent
PROPERTY RowsAreProcessed
