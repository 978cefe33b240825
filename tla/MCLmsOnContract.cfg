CONSTANTS
    OtsType = {2, 3}
    LmsType = {5, 6}
    Q = {0, 27, 228}
    N <- MCN
    I_LEN <- MCI_LEN
    Lmots <- MCLmots
    Lms <- MCLms
    Case <- MCCase
    Keys <- MCKeys
    Leftover <- MCLeftover
SPECIFICATION Spec
INVARIANTS Inv VerdictIsRight KcIsParked SlicesInBounds PathIsUsedUp CostIsExact CostIsBounded AcceptsItsOwnSetsOnly
CHECK_DEADLOCK FALSE
