CONSTANTS
    Samples = {4}
    Time = {1, 2}
    Unbounded = 255
    CROPS <- MCCrops
    Threshold <- MCThreshold
SPECIFICATION Spec
INVARIANTS NoneForZeroVariance
CHECK_DEADLOCK FALSE
