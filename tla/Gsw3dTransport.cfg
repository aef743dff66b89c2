\* A process with two contexts where the device takes one, a queue of two, one
\* present in flight, four commands before the first reset, three and two after it
\* and after the second, one failure, one move.
SPECIFICATION FairSpec
CONSTANTS
    Contexts = {c1, c2}
    Processes = {p1}
    None = None
    QueueCapacity = 2
    FifoCapacity = 1
    PresentLimit = 1
    ContextCapacity = 1
    MaxFence = 5
    MaxGeneration = 3
    MaxFailures = 1
    MaxMoves = 1
INVARIANTS TypeOK FencesTellTheTruth ContextsAgree ErrorHasACause PresentsAreCounted
PROPERTIES AcceptedWorkEnds ResetEnds
