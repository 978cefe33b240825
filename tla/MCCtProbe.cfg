CONSTANTS
    Samples = {0, 1, 2, 3, 5}
    Time = {1, 2, 4}
    Unbounded = 255
    CROPS <- MCCrops
    Threshold <- MCThreshold
SPECIFICATION Spec
INVARIANTS WelchIsTwoPass CropsKeepTheirPart BlindOnlyWhenConstant ReportIsRight
           PanicsOnlyWithoutSamples
CHECK_DEADLOCK FALSE
