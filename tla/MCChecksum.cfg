CONSTANTS
    N = 32
    I_LEN = 16
    Lmots <- LmotsPublished
    Lms <- LmsPublished
    Coefs <- MCCoefs
SPECIFICATION SumSpec
INVARIANTS ChecksumIsLossless SomeChainGoesBack MaxIsTheWorstCase TypicalIsAtMostTheMean
CHECK_DEADLOCK FALSE
