SPECIFICATION Spec
CONSTANTS
    Holders = {h1, h2}
    NoHolder = NoHolder
    SelfArming = {}
    Tags <- MCTags
    FrameTag = 2
    FrameLen = 3
    DeleteNum = 2
    Exact = TRUE
    MaxClock = 7
    MaxId = 104
    MaxStep = 2
SYMMETRY Symmetry
INVARIANTS
    FrameOnGrid
    NoOvertaking
PROPERTIES
    ClockForward
    AgendaSpec
CHECK_DEADLOCK FALSE
