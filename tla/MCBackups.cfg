CONSTANTS
    Configs <- Switching
    Frequency = 1
    MaxTime = 4
    MaxEvents = 1
    d1 = d1
    d2 = d2
    Nil = Nil
    NoRecord = NoRecord
SPECIFICATION MCFairSpec
INVARIANT OneAtATime
INVARIANT AttemptsCounted
INVARIANT UploadedIsThere
INVARIANT DeletedIsGone
INVARIANT NothingLeftBehind
PROPERTY KeptIsLeftAlone
PROPERTY NothingForgotten
PROPERTY InProgressClears
PROPERTY OnlineSnapshotsAreTaken
PROPERTY ComesToAnEnd
CHECK_DEADLOCK FALSE
