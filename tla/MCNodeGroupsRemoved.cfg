CONSTANTS
    g1 = g1
    GroupSeq <- OneGroup
    MaxSize = 2
    MaxEdits = 1
    MaxFaults = 1
    MaxEvictions = 0
SPECIFICATION FairSpec
PROPERTY UndesiredChildrenGo
CHECK_DEADLOCK FALSE
