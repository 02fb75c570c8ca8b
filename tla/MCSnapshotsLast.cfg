CONSTANTS
    Configs <- AlwaysExpiring
    Frequency = 0
    MaxTime = 4
    MaxEvents = 0
SPECIFICATION Spec
PROPERTY LastSnapshotKept
CHECK_DEADLOCK FALSE
