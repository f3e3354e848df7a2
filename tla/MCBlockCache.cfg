SPECIFICATION Spec
CONSTANTS
    Cpus = {arm7, arm9}
    Marking = {arm7, arm9}
    Size = 2
    PageSize = 1
    Ops = {op, end}
    Ends = {end}
    MaxBlock = 2
    MaxVersion = 3
SYMMETRY Symmetry
INVARIANTS
    TypeOK
    NothingStale
    OneOwner
PROPERTY
    CodeSpec
