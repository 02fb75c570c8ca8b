CONSTANTS
    Configs <- AlwaysStopping
    Frequency = 0
    MaxTime = 3
    MaxEvents = 0
SPECIFICATION FairSpec
PROPERTY SnapshotsAreTaken
CHECK_DEADLOCK FALSE
