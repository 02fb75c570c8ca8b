CONSTANTS
    g1 = g1
    Nil = Nil
    GroupSeq <- OneGroup
    MaxSize = 2
    MaxEdits = 2
    MaxFaults = 1
    MaxEvictions = 1
SPECIFICATION MCFairSpec
INVARIANT OneSignerPerKey
INVARIANT HistoryKept
INVARIANT NoStaleTargets
PROPERTY OnlyConversionsRace
PROPERTY DesiredChildrenServe
PROPERTY Converges
CHECK_DEADLOCK FALSE
