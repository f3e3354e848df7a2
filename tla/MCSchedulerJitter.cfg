SPECIFICATION FairSpec
CONSTANTS
    Holders = {h1, h2}
    NoHolder = NoHolder
    SelfArming = {h2}
    Tags <- MCFrameOnly
    FrameTag = 2
    FrameLen = 2
    DeleteNum = 2
    Exact = FALSE
    MaxClock = 3
    MaxId = 103
    MaxStep = 2
INVARIANTS
    TypeOK
    HolderCanCancel
    StillMeansPending
    NoDueEventWaits
    NodesConserved
    BudgetExact
    BudgetSpent
    FrameOnGrid
PROPERTIES
    AgendaSpec
    ArmedEventHappens
    CallsReturn
