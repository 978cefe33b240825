CONSTANTS
    Fn <- MCFn
    Root = "r"
    Binary <- MCBinary
    SP = 8
    MARGIN = 1
    PaintFrame = 1
SPECIFICATION Spec
INVARIANTS MeasuredIsThePeak
CHECK_DEADLOCK FALSE
