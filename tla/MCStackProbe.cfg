CONSTANTS
    Fn <- MCFn
    Root = "r"
    Binary <- MCBinary
    SP = 8
    MARGIN = 1
    PaintFrame = 1
SPECIFICATION Spec
INVARIANTS WalkInv WalkIsRight PrintedPathAddsUp MissingOnlyLowers CompleteGraphBounds
           WatermarkNeverOverstates SilenceMeansTheWindow BudgetIsRightToTheMargin
PROPERTIES ScriptEnds
CHECK_DEADLOCK FALSE
