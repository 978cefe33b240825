CONSTANTS
    BITS = 2
    Reg = {1, 2}
    Routine = {"refresh", "xor", "not", "and", "or", "andItself", "convert"}
    Word <- MCWord
    ZERO = 0
    Xor <- MCXor
    And <- MCAnd
    Or <- MCOr
    Not <- MCNot
    Add <- MCAdd
    Sub <- MCSub
SPECIFICATION MCSpec
INVARIANTS OneProbeSeesNothing
PROPERTIES ComputesOnSecrets
CHECK_DEADLOCK FALSE
