SPECIFICATION Spec
CONSTANTS
    Holders = {h1}
    NoHolder = NoHolder
    SelfArming = {h1}
    Tags <- MCFrameOnly
    FrameTag = 2
    FrameLen = 2
    DeleteNum = 2
    Exact = FALSE
    MaxClock = 3
    MaxId = 104
    MaxStep = 1
INVARIANT
    EveryHolderCanCancel
