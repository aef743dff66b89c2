\* Four writes to a queue of three, one reset, pause or break, and one fault.
SYMMETRY Symmetry
SPECIFICATION Spec
CONSTANTS
    Sources = {h1, h2, h3}
    Silence = Silence
    NoHeader = NoHeader
    RingFrames = 2
    CompletionCapacity = 3
    Gains = {1}
    Unity = 1
    QueueCapacity = 3
    MaxSubmit = 2
    TokenLimit = 5
    MaxFrames = 1
    MaxLoops = 1
    MaxWrites = 4
    MaxOpens = 1
    MaxPlayed = 5
    MaxPauses = 1
    MaxFaults = 1
INVARIANTS TypeOK RingHoldsSent AbortMeansFault QueueIsWhatIsOwed
CHECK_DEADLOCK FALSE
