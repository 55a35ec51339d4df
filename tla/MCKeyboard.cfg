CONSTANTS
    Keys <- MCKeys
    DELAY = 1
    EVQ_SIZE = 2
    BATCH = 1
    WireMax = 2
    MaxLag = 0
SPECIFICATION FairSpec
INVARIANTS
    HeldIsDown
    ModifiersFollowTheKeys
    RepeatsTheHeldKey
PROPERTIES
    PressedPairIsWhole
    LoopReturns
