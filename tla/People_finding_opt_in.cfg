SPECIFICATION Spec
CONSTANTS
    scheduler = scheduler
    webhook = webhook
    Passes = {scheduler, webhook}
    Meetings = {1, 2, 3}
    Attendees <- MCAttendees
    NoAddress = NoAddress
    Canonical = {"ann@x", "al@x", "ben@x"}
    Norm <- MCNorm
    Likeness <- MCLikeness
    Rosters <- MCRosters
    MaxUpserts = 5
INVARIANT OnlyOptedInAreRanked
CHECK_DEADLOCK FALSE
