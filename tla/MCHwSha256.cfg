CONSTANTS
    a = a
    b = b
    NoDigest = NoDigest
    Byte <- MCByte
    Input <- MCInput
    Sha256 <- MCSha256
    Slot = {k1}
    COALESCE = 3
    MaxLen = 5
SPECIFICATION FairSpec
INVARIANTS Inv NoPanic
PROPERTIES KeepsContract EachCallKeepsItsPromise EveryCallReturns
