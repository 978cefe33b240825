CONSTANTS
    OtsType = {3}
    LmsType = {5}
    Q = {27, 228}
    N <- MCN
    I_LEN <- MCI_LEN
    Lmots <- MCLmots
    Lms <- MCLms
    Case <- MCHwCase
    COALESCE = 4
    Leftover <- MCLeftover
SPECIFICATION Spec
INVARIANTS NoPanic
PROPERTIES SameAsSoftware Terminates
CHECK_DEADLOCK FALSE
