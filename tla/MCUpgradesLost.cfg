CONSTANTS
    Heights = {2, 3}
    Plans = {2}
    Docker = {}
    MaxHeight = 4
    MaxLag = 1
    MaxFaults = 0
    MaxLost = 1
    Timely = FALSE
SPECIFICATION Spec
PROPERTY NoDowngrade
CHECK_DEADLOCK FALSE
