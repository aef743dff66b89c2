\* Buffers larger than the room in the ring, loops of two rounds, one fault.
SPECIFICATION FairSpec
CONSTANTS
    Sources = {h1, h2}
    Silence = Silence
    NoHeader = NoHeader
    RingFrames = 2
    CompletionCapacity = 2
    Gains = {1}
    Unity = 1
    QueueCapacity = 2
    MaxSubmit = 2
    TokenLimit = 4
    MaxFrames = 2
    MaxLoops = 2
    MaxWrites = 2
    MaxOpens = 1
    MaxPlayed = 12
    MaxPauses = 0
    MaxFaults = 1
INVARIANTS PlayedWasHeard
PROPERTIES HeadersComeBack
CHECK_DEADLOCK FALSE
