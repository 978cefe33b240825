CONSTANTS
    OtsType = {3}
    LmsType = {5}
    Q = {27, 228}
    N <- MCN
    I_LEN <- MCI_LEN
    Lmots <- MCLmots
    Lms <- MCLms
    Case <- MCCase
    Keys <- MCKeys
    Leftover <- MCLeftover
SPECIFICATION Spec
INVARIANTS CostParsesAsVerify
CHECK_DEADLOCK FALSE
