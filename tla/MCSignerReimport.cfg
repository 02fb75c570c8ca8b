CONSTANTS
    None = None
    sw = sw
    kmsA = kmsA
    kmsB = kmsB
    held = held
    k1 = k1
    k2 = k2
    Ordinals = {0}
    Dests = {kmsA, kmsB}
    KindOf <- TwoClouds
    HeldKey = k1
    Keys = {k1}
    Shapes = {1}
    FirstKey = k1
    Lives = {"fresh"}
    Kinds = {TRUE}
    Ends = {"Retain"}
    MaxEdits = 2
    MaxFaults = 0
SPECIFICATION Spec
INVARIANT ServesProvenVersion
CHECK_DEADLOCK FALSE
