SPECIFICATION FairSpec
CONSTANTS
    Channels = {1, 3}
    Lines = {9}
    Controls <- ControlValues
    WordMask = 1
    SoundWords = 1
    MaxDue = 1
INVARIANTS
    TypeOK
    DmaNeverSpins
    FuncMatchesMode
    LineCurrent
PROPERTIES
    HaltHolds
    DmaKept
    DmaEnds
    HaltedWakes
