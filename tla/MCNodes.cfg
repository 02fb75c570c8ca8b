CONSTANTS
    Heights = {2, 3}
    Plans = {2}
    Docker = {}
    MaxHeight = 4
    MaxLag = 1
    MaxFaults = 1
    MaxLost = 1
    Timely = FALSE
SPECIFICATION MCSpec
INVARIANT CompletedIsInEffect
INVARIANT NotBeforeHeight
PROPERTY NoDowngradeAnswered
PROPERTY StartsOnGoodData
PROPERTY KnowsItsHeight
PROPERTY RetainedKept
PROPERTY DeleteDone
PROPERTY StopFirst
CHECK_DEADLOCK FALSE
