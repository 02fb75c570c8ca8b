CONSTANTS
    Roots = {a, b}
    Keys = {k1, k2}
    MaxGen = 2
    MaxFaults = 1
SPECIFICATION Spec
SYMMETRY Symmetry
CONSTRAINT OneContention
CONSTRAINT OneSuccessor
INVARIANT MutualExclusion
INVARIANT OneKeyPerClaim
PROPERTY ImplementsOneSigner
PROPERTY ReleaseAfterTeardown
PROPERTY ReservationIsProtected
CHECK_DEADLOCK FALSE
