CONSTANTS
    N = 1
    I_LEN = 1
    MAX_LEVELS = 3
    USIZE = 16
    Lmots <- MCLmots
    Lms <- MCLms
    Key <- MCKey
    Message <- MCMessage
    Signature <- MCSignature
    Signed <- MCSigned
    Case <- MCCase
SPECIFICATION Spec
INVARIANTS InvalidMeansIntact
CHECK_DEADLOCK FALSE
