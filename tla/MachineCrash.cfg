\* A data sector and the three kinds of mirrored sectors of an image that is not
\* enrolled yet, two I/O errors, three sessions.
SPECIFICATION SpecReopens
CONSTANTS
    FatA = FatA
    FatB = FatB
    Fsi = Fsi
    FsiBackup = FsiBackup
    Data = {d1}
    Bodies = {b0, b1}
    InitialBody = b0
    Ids = {i1}
    NoId = NoId
    InitialId = NoId
    GuestSectors = {d1, FatA, Fsi, FsiBackup}
    WalRecords = 3
    WalLag = 2
    MaxSequence = 3
    MaxEpoch = 3
    MaxFaults = 2
INVARIANTS
    TypeOK
    NoAckedWriteLost
    OwnerMatchesMarker
    CleanImageIsCoherent
PROPERTIES
    ImplementsDurableDisk
    BarrierMakesImageStable
    OperationsEnd
    DirtyImageReopens
