SPECIFICATION Spec
CONSTANTS
    Capacity = 2
    Width = 4
    FrameSamples = 1
    CatchUpFrames = 3
    FastFrames = 3
    Pad = 1
    Keep = 1
    FadeSteps = 2
    Period = 2
    Chunk = 2
    Needed = 2
    Demand = 3
    Exclusive = {"lock", "keep"}
    CommandLine = FALSE
INVARIANTS
    TypeOK
    NoStaleAudio
    PrimedPlays
    PrimedInSilence
PROPERTIES
    QueueSpec
    FadeEnds
