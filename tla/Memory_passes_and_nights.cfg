SPECIFICATION Spec
CONSTANTS
    ann = ann
    ben = ben
    kickoff = kickoff
    planning = planning
    review = review
    Meetings = {kickoff, planning, review}
    Attendees <- MCAttendees
    FirstDate <- MCFirstDate
    NoMeeting = NoMeeting
    MaxPasses = 4
    Pair <- MCPair
    Person = ann
    Names = {"inferred_0_0", "inferred_1_0"}
    MinCluster = 2
    Scenes <- AllScenes
INVARIANT TypeOK
INVARIANT EvidenceIsCounted
INVARIANT BeliefsAreEarned
INVARIANT CleanPassIsRemembered
INVARIANT OneInferredProcedure
CHECK_DEADLOCK FALSE
