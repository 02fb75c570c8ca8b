CONSTANTS
    n1 = n1
    n2 = n2
    n3 = n3
    validators = validators
    fullnodes = fullnodes
    Nodes = {n1, n2, n3}
    Labels = {validators, fullnodes}
    LabelsOf <- TwoGroups
    Halted = {n3}
    MaxLocks = 2
    MaxUnavailable = 1
    MaxChanges = 2
    MaxFaults = 1
    Nil = Nil
SPECIFICATION MCFairSpec
INVARIANT RollsOneByOne
PROPERTY RolloutCompletes
PROPERTY UpgradesAreApplied
PROPERTY DeletionCompletes
PROPERTY ReplacementSigns
CHECK_DEADLOCK FALSE
