SPECIFICATION FairSpec
CONSTANTS
    scheduler = scheduler
    webhook = webhook
    Passes = {scheduler, webhook}
    Reported = FALSE
    Scenes <- AllScenes
INVARIANT TypeOK
INVARIANT ProvenanceIsSound
INVARIANT DriftHasCause
PROPERTY RowsAreReadBack
PROPERTY MergesAreRecorded
