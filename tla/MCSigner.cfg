CONSTANTS
    None = None
    sw = sw
    kmsA = kmsA
    kmsB = kmsB
    held = held
    k1 = k1
    k2 = k2
    Ordinals = {0, 1}
    Dests = {sw, kmsA, kmsB, held}
    KindOf <- Backends
    HeldKey = k2
    Keys = {k1, k2}
    Shapes = {1, 3}
    FirstKey = k1
    Lives = {"fresh", "obstructed", "legacy"}
    Kinds = {TRUE, FALSE}
    Ends = {"Retain", "Delete", "namespace"}
    MaxEdits = 1
    MaxFaults = 1
SPECIFICATION FairSpec
PROPERTY SignerComesUp
INVARIANT HistoryKept
INVARIANT MembershipKept
 
INVARIANT ImportsOnce
PROPERTY ImplementsService
CHECK_DEADLOCK FALSE
