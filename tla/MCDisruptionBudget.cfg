CONSTANTS
    n1 = n1
    n2 = n2
    n3 = n3
    validators = validators
    fullnodes = fullnodes
    Nodes = {n1, n2, n3}
    Labels = {validators, fullnodes}
    LabelsOf <- TwoGroups
    Halted = {}
    MaxLocks = 2
    MaxUnavailable = 1
    MaxChanges = 1
    MaxFaults = 0
SPECIFICATION Spec
PROPERTY MaxUnavailableRespected
CHECK_DEADLOCK FALSE
