SPECIFICATION Spec
CONSTANTS
    Capacity = 4
    Width = 8
    FrameSamples = 1
    CatchUpFrames = 3
    FastFrames = 3
    Pad = 1
    Keep = 1
    FadeSteps = 2
    Period = 1
    Chunk = 1
    Needed = 1
    Demand = 1
    Exclusive = {"keep", "prime"}
    CommandLine = FALSE
INVARIANT
    NoStaleAudio
