SPECIFICATION Spec
CONSTANTS
    FatA = FatA
    FatB = FatB
    Fsi = Fsi
    FsiBackup = FsiBackup
    Data = {d1}
    Bodies = {b0, b1}
    InitialBody = b0
    Ids = {i1}
    NoId = NoId
    InitialId = i1
    GuestSectors = {d1}
    WalRecords = 3
    WalLag = 2
    MaxSequence = 1
    MaxEpoch = 2
    MaxFaults = 1
INVARIANTS
    ClosedImageOpens
